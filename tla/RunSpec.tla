------------------------------- MODULE RunSpec -------------------------------
(***************************************************************************)
(* What running a program promises, by whichever means it is run: given    *)
(* what the program means, the values that prints are printed one after    *)
(* the other, and then the run ends as the meaning does.  The output may   *)
(* break at any print.  A program whose meaning has no end does not end.   *)
(***************************************************************************)
EXTENDS Sequences, Naturals

VARIABLES meaning,           \* [r, out]: a result, and the values printed
          printed, result

vars == <<meaning, printed, result>>

Running == [t |-> "Running"]
WriteErr == [t |-> "Err", err |-> "Write"]
OutOfFuel == [t |-> "Err", err |-> "OutOfFuel"]

Init == printed = <<>> /\ result = Running

Emit ==
    /\ result = Running
    /\ Len(printed) < Len(meaning.out)
    /\ printed' = Append(printed, meaning.out[Len(printed) + 1])
    /\ UNCHANGED <<meaning, result>>

End ==
    /\ result = Running
    /\ meaning.r # OutOfFuel
    /\ printed = meaning.out
    /\ result' = meaning.r
    /\ UNCHANGED <<meaning, printed>>

\* A print that fails ends the run, and prints nothing
Break ==
    /\ result = Running
    /\ Len(printed) < Len(meaning.out)
    /\ result' = WriteErr
    /\ UNCHANGED <<meaning, printed>>

Next == Emit \/ End \/ Break

Spec == Init /\ [][Next]_vars /\ WF_vars(Next)
=============================================================================
