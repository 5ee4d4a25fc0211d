---------------------------- MODULE RunnerProofs ----------------------------
(***************************************************************************)
(* What the commands of Runner keep true, for any number of them, any      *)
(* programs and pipes of any size.  Each command has its own control and   *)
(* child (Staged, Piped); only the files are shared, and those of a        *)
(* directory that one command uses are its own (Owned).                    *)
(***************************************************************************)
EXTENDS Runner, TLAPS

Linking == {"create", "write", "nasm", "ar", "rustc", "spawn"}
Serving == {"read", "wait", "errors"}

\* What the control of a command says of its mode, its child and its result
Staged(c) ==
    /\ pc[c] \in Linking \cup Serving => Mode(c) = "--run"
    /\ pc[c] = "interpret" => Mode(c) = "--interp"
    /\ pc[c] \in {"start", "interpret"} \cup Linking => child[c] = Nothing
    /\ pc[c] \in Serving => child[c] # Nothing
    /\ pc[c] = "start" => forwarded[c] = 0
    /\ pc[c] = "spawn" => exe[DirOf[c]] # Nothing
    /\ Mode(c) # "--run" => child[c] = Nothing
    /\ result[c] # "none" => pc[c] = "done"

\* The pipes of a command and the state of its child
Piped(c) ==
    /\ Mode(c) = "--run" => forwarded[c] <= sent[c] /\ sent[c] <= forwarded[c] + PipeSize
    /\ Mode(c) = "--interp" => forwarded[c] <= Lines[c]
    /\ child[c] = Nothing => sent[c] = 0 /\ ~alive[c] /\ ~complained[c]
    /\ child[c] # Nothing => sent[c] <= Lines[child[c]]
    /\ complained[c] => child[c] \notin Succeeding /\ sent[c] = Lines[child[c]]
    /\ pc[c] \in Serving /\ ~alive[c] =>
          sent[c] = Lines[child[c]] /\ child[c] \in Ending /\ (child[c] \in Succeeding \/ complained[c])
    /\ pc[c] \in {"wait", "errors"} => ~alive[c] /\ forwarded[c] = sent[c]
    /\ pc[c] = "errors" => child[c] \notin Succeeding

\* How a command that has ended may have ended
Ended(c) ==
    /\ result[c] = "Ok" /\ Mode(c) = "--run" =>
          /\ child[c] \in Succeeding \cap Ending
          /\ sent[c] = Lines[child[c]] /\ forwarded[c] = sent[c]
          /\ child[c] # Nothing
    /\ result[c] = "Ok" /\ Mode(c) = "--interp" =>
          c \in Succeeding \cap Ending /\ forwarded[c] = Lines[c]
    /\ pc[c] = "done" /\ child[c] # Nothing /\ ~reaped[c] => forwarded[c] < sent[c]
    /\ pc[c] = "errors" => reaped[c]

\* What the program of c, or a part of it, makes of a file
Own(c) == {c, Nothing} \cup (IF c \in ShortWrites THEN {Garbled} ELSE {})

\* The files of a directory that only c uses
Owned(c) ==
    Private(c) =>
        LET d == DirOf[c]
        IN  /\ asm[d] \in Own(c) /\ obj[d] \in Own(c)
            /\ lib[d] \in Own(c) /\ exe[d] \in Own(c)
            /\ child[c] \in Own(c)
            /\ pc[c] = "write" => asm[d] = Nothing

\* The inductive invariant
Typed ==
    /\ pc \in [Commands -> Stages]
    /\ result \in [Commands -> Errs \cup {"none", "Ok", "Usage"}]
    /\ asm \in [Dirs -> Contents] /\ obj \in [Dirs -> Contents]
    /\ lib \in [Dirs -> Contents] /\ exe \in [Dirs -> Contents]
    /\ objTime \in [Dirs -> Nat] /\ libTime \in [Dirs -> Nat] /\ now \in Nat
    /\ child \in [Commands -> Contents]
    /\ alive \in [Commands -> BOOLEAN] /\ complained \in [Commands -> BOOLEAN]
    /\ reaped \in [Commands -> BOOLEAN]
    /\ sent \in [Commands -> Nat] /\ forwarded \in [Commands -> Nat]

IInv == Typed /\ \A c \in Commands : Staged(c) /\ Piped(c) /\ Ended(c)

LEMMA InitIInv == Init => IInv
  BY RunnerAssumption DEF Init, IInv, Typed, Staged, Piped, Ended, Stages, Contents, Programs, Linking, Serving

LEMMA TypedStep == ASSUME Typed, [Next]_vars PROVE Typed'
<1> USE RunnerAssumption DEF Typed, Programs, Contents
<1>1. CASE UNCHANGED vars
  BY <1>1 DEF vars, files, process
<1>2. ASSUME NEW c \in Commands, Command(c) \/ Child(c) PROVE Typed'
  <2> DirOf[c] \in Dirs OBVIOUS
  <2>1. CASE Usage(c)
    BY <2>1 DEF Usage, MayStart, Goes, Ends, Stages, Errs, SourceErrs, files, process
  <2>2. CASE SourceFails(c)
    BY <2>2 DEF SourceFails, MayStart, Goes, Ends, Stages, Errs, SourceErrs, files, process
  <2>3. CASE EmitAssembly(c)
    BY <2>3 DEF EmitAssembly, MayStart, Goes, Ends, Stages, Errs, SourceErrs, files, process
  <2>4. CASE CompileFile(c)
    BY <2>4 DEF CompileFile, MayStart, Goes, Ends, Stages, Errs, SourceErrs, files, process
  <2>5. CASE CheckFile(c)
    BY <2>5 DEF CheckFile, MayStart, Goes, Ends, Stages, Errs, SourceErrs, files, process
  <2>6. CASE InterpretLine(c)
    BY <2>6 DEF InterpretLine, Goes, Ends, Stages, Errs, SourceErrs, files, process
  <2>7. CASE InterpretEnds(c)
    BY <2>7 DEF InterpretEnds, Goes, Ends, Stages, Errs, SourceErrs, files, process
  <2>8. CASE InterpretFails(c)
    BY <2>8 DEF InterpretFails, Goes, Ends, Stages, Errs, SourceErrs, files, process
  <2>9. CASE LinkFails(c)
    BY <2>9 DEF LinkFails, Goes, Ends, Stages, Errs, SourceErrs, files, process
  <2>10. CASE CreateAsm(c)
    BY <2>10 DEF CreateAsm, Goes, Ends, Stages, Errs, SourceErrs, files, process
  <2>11. CASE WriteAsm(c)
    BY <2>11 DEF WriteAsm, Goes, Ends, Stages, Errs, SourceErrs, files, process
  <2>12. CASE Nasm(c)
    BY <2>12 DEF Nasm, Goes, Ends, Stages, Errs, SourceErrs, files, process
  <2>13. CASE Ar(c)
    BY <2>13, SMTT(60) DEF Ar, Goes, Ends, Stages, Errs, SourceErrs, files, process
  <2>14. CASE Rustc(c)
    BY <2>14 DEF Rustc, Goes, Ends, Stages, Errs, SourceErrs, files, process
  <2>15. CASE Spawn(c)
    BY <2>15 DEF Spawn, SpawnThen, Goes, Ends, Stages, Errs, SourceErrs, files, process
  <2>16. CASE SpawnFails(c)
    BY <2>16 DEF SpawnFails, Goes, Ends, Stages, Errs, SourceErrs, files, process
  <2>17. CASE ForwardLine(c)
    BY <2>17 DEF ForwardLine, Goes, Ends, Stages, Errs, SourceErrs, files, process
  <2>18. CASE ForwardFails(c)
    BY <2>18 DEF ForwardFails, Goes, Ends, Stages, Errs, SourceErrs, files, process
  <2>19. CASE EndOfOutput(c)
    BY <2>19 DEF EndOfOutput, Goes, Ends, Stages, Errs, SourceErrs, files, process
  <2>20. CASE Wait(c)
    <3>1. UNCHANGED <<files, child, alive, sent, complained, forwarded>>
      BY <2>20 DEF Wait
    <3>2. reaped' \in [Commands -> BOOLEAN]
      BY <2>20 DEF Wait
    <3>3. CASE Ends(c, "Ok")
      BY <3>1, <3>2, <3>3 DEF Ends, Stages, Errs, SourceErrs, files
    <3>4. CASE Goes(c, "errors")
      BY <3>1, <3>2, <3>4 DEF Goes, Stages, files
    <3> QED
      BY <2>20, <3>3, <3>4 DEF Wait
  <2>21. CASE ReadErrors(c)
    BY <2>21 DEF ReadErrors, Goes, Ends, Stages, Errs, SourceErrs, files, process
  <2>22. CASE ChildPrints(c)
    BY <2>22 DEF ChildPrints, Listening, Goes, Ends, Stages, Errs, SourceErrs, files, process
  <2>23. CASE ChildComplains(c)
    BY <2>23 DEF ChildComplains, Listening, Goes, Ends, Stages, Errs, SourceErrs, files, process
  <2>24. CASE ChildExits(c)
    BY <2>24 DEF ChildExits, Goes, Ends, Stages, Errs, SourceErrs, files, process
  <2>25. CASE ChildPanics(c)
    BY <2>25 DEF ChildPanics, Listening, Goes, Ends, Stages, Errs, SourceErrs, files, process
  <2> QED
    BY <1>2, <2>1, <2>2, <2>3, <2>4, <2>5, <2>6, <2>7, <2>8, <2>9, <2>10, <2>11, <2>12, <2>13, <2>14, <2>15, <2>16, <2>17, <2>18, <2>19, <2>20, <2>21, <2>22, <2>23, <2>24, <2>25 DEF Command, Child
<1> QED
  BY <1>1, <1>2 DEF Next

\* A step of one command leaves the control and the child of the others alone
LEMMA ControlStep ==
  ASSUME IInv, [Next]_vars, NEW x \in Commands
  PROVE  (Staged(x) /\ Piped(x) /\ Ended(x))'
<1> USE RunnerAssumption DEF IInv
<1>1. Staged(x) /\ Piped(x) /\ Ended(x)
  OBVIOUS
<1>2. CASE UNCHANGED vars
  BY <1>1, <1>2 DEF vars, files, process, Staged, Piped, Ended, Mode, ExitedWell
<1>3. ASSUME NEW c \in Commands, Command(c) \/ Child(c)
      PROVE  (Staged(x) /\ Piped(x) /\ Ended(x))'
  <2> USE DEF Typed, Programs, Contents
  <2> DirOf[c] \in Dirs /\ DirOf[x] \in Dirs OBVIOUS
  <2> Staged(c) /\ Piped(c) /\ Ended(c) OBVIOUS
  <2>1. CASE Usage(c)
    BY <1>1, <2>1 DEF Usage, MayStart, Goes, Ends, files, process, Staged, Piped, Ended, Linking, Serving, Stages, Errs, SourceErrs
  <2>2. CASE SourceFails(c)
    BY <1>1, <2>2 DEF SourceFails, MayStart, Goes, Ends, files, process, Staged, Piped, Ended, Linking, Serving, Stages, Errs, SourceErrs
  <2>3. CASE EmitAssembly(c)
    BY <1>1, <2>3 DEF EmitAssembly, MayStart, Goes, Ends, files, process, Staged, Piped, Ended, Linking, Serving, Stages, Errs, SourceErrs
  <2>4. CASE CompileFile(c)
    BY <1>1, <2>4 DEF CompileFile, MayStart, Goes, Ends, files, process, Staged, Piped, Ended, Linking, Serving, Stages, Errs, SourceErrs
  <2>5. CASE CheckFile(c)
    BY <1>1, <2>5 DEF CheckFile, MayStart, Goes, Ends, files, process, Staged, Piped, Ended, Linking, Serving, Stages, Errs, SourceErrs
  <2>6. CASE InterpretLine(c)
    BY <1>1, <2>6 DEF InterpretLine, Goes, Ends, files, process, Staged, Piped, Ended, Linking, Serving, Stages, Errs, SourceErrs
  <2>7. CASE InterpretEnds(c)
    BY <1>1, <2>7 DEF InterpretEnds, Goes, Ends, files, process, Staged, Piped, Ended, Linking, Serving, Stages, Errs, SourceErrs
  <2>8. CASE InterpretFails(c)
    BY <1>1, <2>8 DEF InterpretFails, Goes, Ends, files, process, Staged, Piped, Ended, Linking, Serving, Stages, Errs, SourceErrs
  <2>9. CASE LinkFails(c)
    BY <1>1, <2>9 DEF LinkFails, Goes, Ends, files, process, Staged, Piped, Ended, Linking, Serving, Stages, Errs, SourceErrs
  <2>10. CASE CreateAsm(c)
    BY <1>1, <2>10 DEF CreateAsm, Goes, Ends, files, process, Staged, Piped, Ended, Linking, Serving, Stages, Errs, SourceErrs
  <2>11. CASE WriteAsm(c)
    BY <1>1, <2>11 DEF WriteAsm, Goes, Ends, files, process, Staged, Piped, Ended, Linking, Serving, Stages, Errs, SourceErrs
  <2>12. CASE Nasm(c)
    BY <1>1, <2>12 DEF Nasm, Goes, Ends, files, process, Staged, Piped, Ended, Linking, Serving, Stages, Errs, SourceErrs
  <2>13. CASE Ar(c)
    BY <1>1, <2>13 DEF Ar, Goes, Ends, files, process, Staged, Piped, Ended, Linking, Serving, Stages, Errs, SourceErrs
  <2>14. CASE Rustc(c)
    BY <1>1, <2>14 DEF Rustc, Goes, Ends, files, process, Staged, Piped, Ended, Linking, Serving, Stages, Errs, SourceErrs
  <2>15. CASE Spawn(c)
    BY <1>1, <2>15 DEF Spawn, SpawnThen, Goes, Ends, files, process, Staged, Piped, Ended, Linking, Serving, Stages, Errs, SourceErrs
  <2>16. CASE SpawnFails(c)
    BY <1>1, <2>16 DEF SpawnFails, Goes, Ends, files, process, Staged, Piped, Ended, Linking, Serving, Stages, Errs, SourceErrs
  <2>17. CASE ForwardLine(c)
    BY <1>1, <2>17 DEF ForwardLine, Goes, Ends, files, process, Staged, Piped, Ended, Linking, Serving, Stages, Errs, SourceErrs
  <2>18. CASE ForwardFails(c)
    BY <1>1, <2>18 DEF ForwardFails, Goes, Ends, files, process, Staged, Piped, Ended, Linking, Serving, Stages, Errs, SourceErrs
  <2>19. CASE EndOfOutput(c)
    BY <1>1, <2>19 DEF EndOfOutput, Goes, Ends, files, process, Staged, Piped, Ended, Linking, Serving, Stages, Errs, SourceErrs
  <2>20. CASE Wait(c)
    BY <1>1, <2>20 DEF Wait, ExitedWell, Goes, Ends, files, process, Staged, Piped, Ended, Linking, Serving, Stages, Errs, SourceErrs
  <2>21. CASE ReadErrors(c)
    BY <1>1, <2>21 DEF ReadErrors, Goes, Ends, files, process, Staged, Piped, Ended, Linking, Serving, Stages, Errs, SourceErrs
  <2>22. CASE ChildPrints(c)
    BY <1>1, <2>22 DEF ChildPrints, Listening, Goes, Ends, files, process, Staged, Piped, Ended, Linking, Serving, Stages, Errs, SourceErrs
  <2>23. CASE ChildComplains(c)
    BY <1>1, <2>23 DEF ChildComplains, Listening, Goes, Ends, files, process, Staged, Piped, Ended, Linking, Serving, Stages, Errs, SourceErrs
  <2>24. CASE ChildExits(c)
    BY <1>1, <2>24 DEF ChildExits, Goes, Ends, files, process, Staged, Piped, Ended, Linking, Serving, Stages, Errs, SourceErrs
  <2>25. CASE ChildPanics(c)
    BY <1>1, <2>25 DEF ChildPanics, Listening, Goes, Ends, files, process, Staged, Piped, Ended, Linking, Serving, Stages, Errs, SourceErrs
  <2> QED
    BY <1>3, <2>1, <2>2, <2>3, <2>4, <2>5, <2>6, <2>7, <2>8, <2>9, <2>10, <2>11, <2>12, <2>13, <2>14, <2>15, <2>16, <2>17, <2>18, <2>19, <2>20, <2>21, <2>22, <2>23, <2>24, <2>25 DEF Command, Child
<1> QED
  BY <1>2, <1>3 DEF Next

LEMMA StepIInv == ASSUME IInv, [Next]_vars PROVE IInv'
<1>1. Typed'
  BY TypedStep DEF IInv
<1> QED
  BY <1>1, ControlStep DEF IInv

LEMMA InitOwned == ASSUME Init, NEW c \in Commands PROVE Owned(c)
  BY RunnerAssumption DEF Init, Owned, Own

\* Steps that leave the files and the children as they are
LEMMA OwnedKept ==
  ASSUME NEW x \in Commands, Owned(x), UNCHANGED <<asm, obj, lib, exe, child>>,
         pc'[x] = "write" => pc[x] = "write"
  PROVE  Owned(x)'
  BY DEF Owned, Own, Private

LEMMA OwnedStep ==
  ASSUME IInv, [Next]_vars, NEW x \in Commands, Owned(x)
  PROVE  Owned(x)'
<1> USE RunnerAssumption DEF IInv, Typed
<1>1. CASE UNCHANGED vars
  BY <1>1, OwnedKept DEF vars, files, process
<1>2. ASSUME NEW c \in Commands, Command(c) \/ Child(c) PROVE Owned(x)'
  <2> DirOf[c] \in Dirs /\ DirOf[x] \in Dirs OBVIOUS
  <2>1. Private(x) /\ c # x => DirOf[c] # DirOf[x]
    BY DEF Private
  <2>2. CASE CreateAsm(c)
    BY <2>1, <2>2 DEF CreateAsm, Goes, Owned, Own, Private, files, process, Stages
  <2>3. CASE WriteAsm(c)
    BY <2>1, <2>3 DEF WriteAsm, Goes, Owned, Own, Private, files, process, Stages
  <2>4. CASE Nasm(c)
    BY <2>1, <2>4 DEF Nasm, Goes, Owned, Own, Private, files, process, Stages
  <2>5. CASE Ar(c)
    BY <2>1, <2>5 DEF Ar, Goes, Owned, Own, Private, files, process, Stages
  <2>6. CASE Rustc(c)
    BY <2>1, <2>6 DEF Rustc, Goes, Owned, Own, Private, files, process, Stages
  <2>7. CASE Spawn(c)
    BY <2>1, <2>7 DEF Spawn, SpawnThen, Goes, Owned, Own, Private, files, process, Stages
  <2>8. CASE Usage(c) \/ SourceFails(c) \/ EmitAssembly(c) \/ CompileFile(c) \/ CheckFile(c)
           \/ InterpretLine(c) \/ InterpretEnds(c) \/ InterpretFails(c) \/ LinkFails(c)
    <3>1. UNCHANGED <<asm, obj, lib, exe, child>> /\ (pc'[x] = "write" => pc[x] = "write")
      BY <2>8 DEF Usage, MayStart, SourceFails, EmitAssembly, CompileFile, CheckFile, InterpretLine, InterpretEnds, InterpretFails, LinkFails, Goes, Ends,
                  files, process, Stages
    <3> QED
      BY <3>1, OwnedKept
  <2>9. CASE SpawnFails(c) \/ ForwardLine(c) \/ ForwardFails(c) \/ EndOfOutput(c) \/ Wait(c) \/ ReadErrors(c)
           \/ ChildPrints(c) \/ ChildComplains(c) \/ ChildExits(c) \/ ChildPanics(c)
    <3>1. UNCHANGED <<asm, obj, lib, exe, child>> /\ (pc'[x] = "write" => pc[x] = "write")
      BY <2>9 DEF SpawnFails, ForwardLine, ForwardFails, EndOfOutput, Wait, ReadErrors, ChildPrints, ChildComplains, ChildExits, ChildPanics, Goes, Ends,
                  files, process, Stages
    <3> QED
      BY <3>1, OwnedKept
  <2> QED
    BY <1>2, <2>2, <2>3, <2>4, <2>5, <2>6, <2>7, <2>8, <2>9 DEF Command, Child
<1> QED
  BY <1>1, <1>2 DEF Next

-----------------------------------------------------------------------------
(* The theorems.                                                            *)

LEMMA Invariance == Spec => []IInv
<1>1. Init => IInv
  BY InitIInv
<1>2. IInv /\ [Next]_vars => IInv'
  BY StepIInv
<1> QED
  BY <1>1, <1>2, PTL DEF Spec

\* Every variable keeps its type, and a pipe never holds more than it can, for
\* any commands, programs and pipes.
THEOREM TypeCorrect == Spec => []TypeOK
<1>1. IInv => TypeOK
  BY DEF IInv, Typed, Piped, TypeOK
<1> QED
  BY <1>1, Invariance, PTL

\* However many commands run and whatever directories they use, a child is left
\* behind only by a command whose own output failed.
THEOREM ChildrenAreReaped == Spec => []LeavesNoChild
<1>1. IInv => LeavesNoChild
  BY DEF IInv, Ended, LeavesNoChild
<1> QED
  BY <1>1, Invariance, PTL

LEMMA Ownership == Spec => [](\A c \in Commands : Owned(c))
<1> DEFINE AllOwned == \A c \in Commands : Owned(c)
<1>1. Init => AllOwned
  BY InitOwned
<1>2. IInv /\ AllOwned /\ [Next]_vars => AllOwned'
  BY OwnedStep
<1>3. Spec => []AllOwned
  <2> HIDE DEF AllOwned
  <2> QED
    BY <1>1, <1>2, Invariance, PTL DEF Spec
<1> QED
  BY <1>3

\* A command with a directory of its own runs the program it was asked to run, or
\* what its own short write left of it, among any number of other commands.
THEOREM PrivateCommandsRunTheirOwn == Spec => []PrivateRunsOwn
<1>1. (\A c \in Commands : Owned(c)) => PrivateRunsOwn
  BY DEF Owned, Own, PrivateRunsOwn
<1> QED
  BY <1>1, Ownership, PTL

\* The result of a command tells how the program that ran ended, whosever program
\* that was: all its lines were printed and it succeeded, or it failed and its
\* message can be read.
THEOREM OutcomesAreReported == Spec => []OutcomeReported
<1>1. IInv => OutcomeReported
  <2> SUFFICES ASSUME IInv, NEW c \in Commands, Mode(c) \in {"--run", "--interp"}
               PROVE  /\ result[c] = "Ok" => Ran(c) \in Succeeding \cap Ending /\ forwarded[c] = Lines[Ran(c)]
                      /\ pc[c] = "errors" => Ran(c) \notin Succeeding /\ complained[c] /\ forwarded[c] = Lines[Ran(c)]
    BY DEF OutcomeReported
  <2>1. Staged(c) /\ Piped(c) /\ Ended(c)
    BY DEF IInv
  <2>2. CASE Mode(c) = "--run"
    BY <2>1, <2>2 DEF Staged, Piped, Ended, Serving, Ran
  <2>3. CASE Mode(c) = "--interp"
    BY <2>1, <2>3 DEF Staged, Piped, Ended, Serving, Ran
  <2> QED
    BY <2>2, <2>3
<1> QED
  BY <1>1, Invariance, PTL
=============================================================================
