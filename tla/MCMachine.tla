------------------------------ MODULE MCMachine ------------------------------
(* Compiled programs that meet every instruction: all operations on all kinds *)
(* of operands, variables in registers and on the stack across calls, tail    *)
(* calls that permute their arguments, and loops.                             *)
EXTENDS Machine, Samples

MCRegisters == {Rbx, Rsi}
MCKeywords == {<<"add">>}

Plus(a, b) == Prim2("Add", a, b)
Minus(a, b) == Prim2("Sub", a, b)
Printed(e) == Prim1("Print", e)
Lt1(e) == Prim2("Lt", e, Num(1))
Let2(x, a, y, b, body) == Let(<<Binding(x, a), Binding(y, b)>>, body)
Z == <<"z">>

EdgeOperands == {Num(2), Num(-4), Bool(TRUE), Bool(FALSE)}

Operations ==
    {Prim1(op, a) : op \in Prim1Ops \ {"PrintStack"}, a \in EdgeOperands}
    \cup {Prim2(op, a, b) : op \in Prim2Ops, a \in EdgeOperands, b \in EdgeOperands}
    \cup {If(a, Num(1), Bool(FALSE)) : a \in EdgeOperands}

\* def f(x): if x < 1: print(x) else: x + f(x - 1)
SumTo ==
    FunDecl(F, <<X>>, If(Lt1(Var(X)), Printed(Var(X)), Plus(Var(X), Call(F, <<Minus(Var(X), Num(1))>>))))

\* def g(x, y): if x < 1: print(y) else: let z = x - 1 in g(z, y)
Loop ==
    FunDecl(G, <<X, Y>>,
            If(Lt1(Var(X)), Printed(Var(Y)),
               Let(<<Binding(Z, Minus(Var(X), Num(1)))>>, Call(G, <<Var(Z), Var(Y)>>))))

\* def g(x, y): if isbool(x): y else: g(y, x)           swaps its arguments
Swap == FunDecl(G, <<X, Y>>, If(Prim1("IsBool", Var(X)), Printed(Var(Y)), Call(G, <<Var(Y), Var(X)>>)))

\* def f(x): let y = x in f(y)                          never ends
Forever == FunDecl(F, <<X>>, Let(<<Binding(Y, Var(X))>>, Call(F, <<Var(Y)>>)))

\* def f(x, y, z): g(y - z)      two parameters fewer
Drop2 == FunDecl(F, <<X, Y, Z>>, Call(G, <<Minus(Var(Y), Var(Z))>>))
Show == FunDecl(G, <<X>>, Printed(Var(X)))
NoArgs == FunDecl(F, <<>>, Printed(Num(3)))

Calls ==
    {Prog(<<SumTo>>, Let(<<Binding(X, Num(2))>>, Minus(Call(F, <<Var(X)>>), Var(X)))),
     Prog(<<Show>>, Let2(X, Num(1), Y, Call(G, <<Num(2)>>), Minus(Call(G, <<Var(Y)>>), Var(X)))),
     Prog(<<>>, Let2(X, Num(1), Y, Num(2), Plus(Printed(Var(Y)), Minus(Printed(Var(X)), Var(Y)))))}
    \cup {Prog(<<Loop>>, Call(G, <<Num(2), b>>)) : b \in {Num(1), Bool(TRUE)}}
    \cup {Prog(<<Loop>>, Let2(X, Num(3), Y, Call(G, <<Num(1), Var(X)>>), Minus(Var(Y), Var(X))))}
    \cup {Prog(<<Swap>>, Call(G, <<Num(3), b>>)) : b \in {Bool(FALSE), Num(2)}}
    \cup {Prog(<<Forever>>, Call(F, <<Num(1)>>)),
          Prog(<<Drop2, Show>>, Let(<<Binding(X, Num(1))>>, Plus(Call(F, <<Num(3), Num(2), Var(X)>>), Var(X)))),
          Prog(<<NoArgs>>, Call(F, <<>>)),
          Prog(<<NoArgs>>, Plus(Call(F, <<>>), Num(0))),
          Prog(<<Show>>, Call(G, <<Lt1(Num(3))>>))}

\* A branch in a bound expression, and the labels of two functions
Branches ==
    {Prog(<<FunDecl(F, <<X>>, If(Prim2("Ge", Var(X), Num(1)), Prim1("IsNum", Var(X)), Prim1("IsBool", Var(X)))),
            FunDecl(G, <<X>>, If(Prim2("Ge", Var(X), Num(1)), Prim1("IsNum", Var(X)), Prim1("IsBool", Var(X))))>>,
          If(a, Let(<<Binding(Y, Num(2))>>, Call(F, <<Var(Y)>>)), Call(G, <<Num(0)>>))) :
        a \in {Bool(TRUE), Bool(FALSE)}}
    \cup {Prog(<<>>, Let(<<Binding(X, If(Bool(TRUE), Let(<<Binding(Y, Num(2))>>, Printed(Var(Y))), Num(0)))>>,
                        Minus(Var(X), Num(1))))}

MCPrograms == {Prog(<<>>, e) : e \in Operations} \cup Calls \cup Branches

\* def f(x, y): print(x)     def g(x, y): h(x)    one parameter fewer
FewerByOne ==
    {Prog(<<FunDecl(F, <<X>>, Printed(Var(X))), FunDecl(G, <<X, Y>>, Call(F, <<Var(X)>>))>>,
          Call(G, <<Num(n), Num(2)>>)) : n \in {0, 1, 2}}

Mistyped == {Prog(<<>>, e) : e \in Operations}
=============================================================================
