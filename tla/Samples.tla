------------------------------- MODULE Samples -------------------------------
(* Small programs for the model checker: shapes built over given atoms, so    *)
(* that every construct meets every other, and programs with functions.       *)
EXTENDS Snake

X == <<"x">>
Y == <<"y">>
F == <<"f">>
G == <<"g">>

\* Every construct whose immediate parts are of As (and of Bs in the body of a
\* let and the branches of an if)
Shapes(As, Bs, ops1, ops2, funs) ==
    {Prim1(op, a) : op \in ops1, a \in As}
    \cup {Prim2(op, a, b) : op \in ops2, a \in As, b \in As}
    \cup {If(a, b, c) : a \in As, b \in Bs, c \in Bs}
    \cup {Let(<<Binding(x, a)>>, b) : x \in {X, Y}, a \in As, b \in Bs}
    \cup {Let(<<Binding(X, a), Binding(y, b)>>, c) : y \in {X, Y}, a \in As, b \in As, c \in Bs}
    \cup {Call(f, <<a>>) : f \in funs, a \in As}
    \cup {Call(f, <<a, b>>) : f \in funs, a \in As, b \in As}
=============================================================================
