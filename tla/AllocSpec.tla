------------------------------ MODULE AllocSpec ------------------------------
(***************************************************************************)
(* What allocate_registers (src/src/compile.rs:992) promises its caller:   *)
(* one answer, and the answer gives every variable of the conflict graph a *)
(* place of its own among its neighbours.  How it is found is not said.    *)
(***************************************************************************)
EXTENDS Places

CONSTANT Var                 \* the variables a function may bind

VARIABLES input,             \* the conflict graph passed in
          finished, answer   \* whether it has returned, and what

Init ==
    /\ input \in GraphsOver(Var)
    /\ finished = FALSE
    /\ answer = EmptyGraph

\* The call returns an allocation, and any allocation will do.
Answer ==
    /\ ~finished
    /\ finished' = TRUE
    /\ Allocation(answer', input)
    /\ UNCHANGED input

Next == Answer

Spec == Init /\ [][Next]_<<input, finished, answer>>
=============================================================================
