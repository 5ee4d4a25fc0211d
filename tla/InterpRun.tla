------------------------------ MODULE InterpRun ------------------------------
(***************************************************************************)
(* The abstract machine of interp.rs against the direct-style interpreter  *)
(* it stands in for.                                                       *)
(***************************************************************************)
EXTENDS TailCalls, DirectStyle

CONSTANT Fuel                \* calls after which a program counts as not ending

VARIABLE meaning             \* what the program means, for comparison

RunInit == Init /\ meaning = Meaning(prog, Fuel)

RunNext == Next /\ UNCHANGED meaning

RunSpec == RunInit /\ [][RunNext]_<<vars, meaning>> /\ WF_<<vars, meaning>>(RunNext)

Reference == INSTANCE RunSpec WITH
    printed <- out,
    result <- IF ctl.mode = "Finished" THEN ctl.r ELSE [t |-> "Running"]

\* The machine "defunctionalizes the kontinuation of the direct-style interpreter"
\* (interp.rs:263-269): it prints the same values in the same order, ends with
\* the same value or error, and ends whenever the direct-style interpreter does.
ImplementsRunSpec == Reference!Spec

-----------------------------------------------------------------------------
(* The measures of TailCalls.                                               *)

MaxOf(S) == CHOOSE n \in S : \A m \in S : m <= n

RECURSIVE FrameDepth(_), CallFree(_), CallsInTail(_)

FrameDepth(e) ==
    MaxOf({0} \cup {1 + FrameDepth(x) : x \in Held(e)} \cup {FrameDepth(x) : x \in InTail(e)})

CallFree(e) == e.exp # "Call" /\ \A x \in Held(e) \cup InTail(e) : CallFree(x)

CallsInTail(e) ==
    (\A x \in Held(e) : CallFree(x)) /\ (\A x \in InTail(e) : CallsInTail(x))
=============================================================================
