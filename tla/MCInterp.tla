------------------------------- MODULE MCInterp -------------------------------
(* The interpreter on every checked program of a family: two levels of        *)
(* constructs in main, and functions that loop, recurse, print and diverge.   *)
EXTENDS InterpRun, Check, Samples

Sub1(e) == Prim2("Sub", e, Num(1))

\* def f(x): if x < 1: x else: f(x - 1)                 a tail call
Countdown == FunDecl(F, <<X>>, If(Prim2("Lt", Var(X), Num(1)), Var(X), Call(F, <<Sub1(Var(X))>>)))

\* def g(x, y): if x < 1: y else: g(x - 1, print(x + y)) prints, swaps, grows
Accumulate ==
    FunDecl(G, <<X, Y>>,
            If(Prim2("Lt", Var(X), Num(1)), Var(Y),
               Call(G, <<Sub1(Var(X)), Prim1("Print", Prim2("Add", Var(X), Var(Y)))>>)))

\* def f(x): if x < 1: 0 else: x + f(x - 1)             not a tail call
SumTo ==
    FunDecl(F, <<X>>, If(Prim2("Lt", Var(X), Num(1)), Num(0),
                         Prim2("Add", Var(X), Call(F, <<Sub1(Var(X))>>))))

\* def g(x, y): g(y, x)                                 never ends
Forever == FunDecl(G, <<X, Y>>, Call(G, <<Var(Y), Var(X)>>))

Atoms == {Num(2), Bool(TRUE), Var(X), Var(Y)}
Some == {Num(2), Var(X)}

Inner == Shapes(Some, Some, {"Print", "Not"}, {"Mul", "And"}, {F, G})

Mains ==
    Shapes({Num(2), Bool(TRUE)}, Atoms, Prim1Ops, Prim2Ops, {F, G})
    \cup {Let(<<Binding(X, Num(n))>>, e) : n \in {2, MinInt}, e \in Inner}
    \cup {Let(<<Binding(X, Num(1)), Binding(Y, e)>>, b) :
              e \in Inner, b \in {Prim2("Sub", Var(X), Var(Y)), Call(G, <<Var(Y), Var(X)>>)}}
    \cup {Prim2("Add", e, Prim1("Print", Num(1))) : e \in Shapes({Num(1)}, {Num(2)}, Print1, {"Eq"}, {F, G})}
    \cup {Call(G, <<Prim1("Print", Num(1)), Prim1("PrintStack", Bool(TRUE))>>)}

MCPrograms ==
    {p \in {Prog(fs, m) : fs \in {<<Countdown, Accumulate>>, <<SumTo, Forever>>}, m \in Mains} :
        CheckProg(p) = Ok}

\* The questions check_prog asks of check_exp on the way to accepting a program
RECURSIVE Asked(_, _, _)
Asked(e, scope, fs) ==
    {<<e, scope, fs>>}
    \cup IF e.exp = "Let"
         THEN Asked(e.body, ScopeAfter(e.bindings, scope, Len(e.bindings)), fs)
              \cup UNION {Asked(e.bindings[i].e, ScopeAfter(e.bindings, scope, i - 1), fs)
                          : i \in DOMAIN e.bindings}
         ELSE UNION {Asked(Children(e)[i], scope, fs) : i \in DOMAIN Children(e)}

AskedOf(p) ==
    Asked(p.main, {}, Arities(p))
    \cup UNION {Asked(p.funs[i].body, ParamSet(p.funs[i]), Arities(p)) : i \in DOMAIN p.funs}

\* Those it answers Ok to
AnsweredOk ==
    {j \in UNION {AskedOf(p) : p \in MCPrograms} :
        CheckExp(j[1], {}, j[2], [f \in {q[1] : q \in j[3]} |-> (CHOOSE q \in j[3] : q[1] = f)[2]])
            = Ok}

\* A constant given by another definition is computed once, by TLC
MCAccepted == AnsweredOk
=============================================================================
