-------------------------------- MODULE Runner --------------------------------
(***************************************************************************)
(* The commands of the program (src/src/main.rs, src/src/runner.rs): a     *)
(* number of them at the same time, each a process that emits assembly,    *)
(* interprets, or compiles, links and runs a program through the files of  *)
(* a directory, which commands may share, and a child process whose        *)
(* standard output and error are pipes.                                    *)
(*                                                                         *)
(* What a file holds is told by the command whose program it was made      *)
(* from.  A program is what it prints: a number of lines, then, if it is   *)
(* not among Succeeding, one line on standard error; if it is not among    *)
(* Ending, it then loops.  Lines come out of a pipe in the order they went *)
(* in, so that counting them is enough.                                    *)
(***************************************************************************)
EXTENDS Naturals, Sequences, FiniteSets

CONSTANTS
    Commands,          \* processes of the program, also those of its tests
    Args,              \* [Commands -> their arguments]
    Dirs, DirOf,       \* the directory each command uses
    After,             \* [Commands -> SUBSET Commands]: ended before it starts
    Nothing, Garbled,  \* a file missing or empty; a file no single command made
    Lines,             \* [Programs -> Nat]
    Succeeding, Ending,
    PipeSize,          \* lines a pipe holds
    ShortWrites        \* commands whose write may write only a part

Programs == Commands \cup {Garbled}
Contents == Programs \cup {Nothing}

ASSUME RunnerAssumption ==
    /\ DirOf \in [Commands -> Dirs]
    /\ After \in [Commands -> SUBSET Commands]
    /\ Lines \in [Programs -> Nat]
    /\ PipeSize \in Nat \ {0}
    /\ ShortWrites \subseteq Commands
    /\ Nothing \notin Programs /\ Garbled \notin Commands

VARIABLES
    pc, result,                            \* of each command
    asm, obj, objTime, lib, libTime, exe,  \* of each directory
    now,                                   \* the second of the file times
    child,                                 \* the program a command's child runs
    alive, sent, complained,               \* of each child: lines sent, error sent
    forwarded,                             \* lines of output a command has written
    reaped                                 \* whether a command has waited for its child

files == <<asm, obj, objTime, lib, libTime, exe, now>>
process == <<child, alive, sent, complained, reaped>>
vars == <<pc, result, files, process, forwarded>>

SourceErrs == {"FileOpen", "Parse", "CodeGen", "Panic"}
Errs == SourceErrs \cup {"Link", "Run", "Interp"}
Stages == {"start", "create", "write", "nasm", "ar", "rustc", "spawn", "read", "wait",
           "errors", "interpret", "done"}

Init ==
    /\ pc = [c \in Commands |-> "start"]
    /\ result = [c \in Commands |-> "none"]
    /\ asm = [d \in Dirs |-> Nothing] /\ obj = asm /\ lib = asm /\ exe = asm
    /\ objTime = [d \in Dirs |-> 0] /\ libTime = objTime /\ now = 0
    /\ child = [c \in Commands |-> Nothing]
    /\ alive = [c \in Commands |-> FALSE] /\ complained = alive /\ reaped = alive
    /\ sent = [c \in Commands |-> 0] /\ forwarded = sent

Goes(c, stage) == pc' = [pc EXCEPT ![c] = stage] /\ UNCHANGED result

Ends(c, r) ==
    /\ pc' = [pc EXCEPT ![c] = "done"]
    /\ result' = [result EXCEPT ![c] = r]

-----------------------------------------------------------------------------
(* Up to the assembly.                                                      *)

\* main: what the arguments ask for
Mode(c) ==
    LET a == Args[c]
    IN  CASE Len(a) = 1 /\ a[1] \notin {"--interp", "--run", "--help"} -> "emit"
          [] Len(a) = 1 /\ a[1] = "--help" -> "help"
          [] Len(a) = 2 /\ a[1] \in {"--interp", "--run"} -> a[1]
          [] OTHER -> "usage"

MayStart(c) == pc[c] = "start" /\ \A q \in After[c] : pc[q] = "done"

Usage(c) ==
    /\ MayStart(c) /\ Mode(c) \in {"help", "usage"}
    /\ Ends(c, IF Mode(c) = "help" THEN "Ok" ELSE "Usage")
    /\ UNCHANGED <<files, process, forwarded>>

\* The file may be missing, or be no program, or make the parser or compiler panic
SourceFails(c) ==
    /\ MayStart(c) /\ Mode(c) \in {"emit", "--interp", "--run"}
    /\ \E e \in SourceErrs : Ends(c, e)
    /\ UNCHANGED <<files, process, forwarded>>

EmitAssembly(c) ==
    /\ MayStart(c) /\ Mode(c) = "emit"
    /\ Ends(c, "Ok")
    /\ UNCHANGED <<files, process, forwarded>>

CompileFile(c) ==
    /\ MayStart(c) /\ Mode(c) = "--run"
    /\ Goes(c, "create")
    /\ UNCHANGED <<files, process, forwarded>>

CheckFile(c) ==
    /\ MayStart(c) /\ Mode(c) = "--interp"
    /\ Goes(c, "interpret")
    /\ UNCHANGED <<files, process, forwarded>>

-----------------------------------------------------------------------------
(* interpret_file, after the checks.                                        *)

InterpretLine(c) ==
    /\ pc[c] = "interpret" /\ forwarded[c] < Lines[c]
    /\ forwarded' = [forwarded EXCEPT ![c] = @ + 1]
    /\ UNCHANGED <<pc, result, files, process>>

InterpretEnds(c) ==
    /\ pc[c] = "interpret" /\ forwarded[c] = Lines[c] /\ c \in Ending
    /\ Ends(c, IF c \in Succeeding THEN "Ok" ELSE "Interp")
    /\ UNCHANGED <<files, process, forwarded>>

InterpretFails(c) ==
    /\ pc[c] = "interpret" /\ forwarded[c] < Lines[c]
    /\ Ends(c, "Interp")
    /\ UNCHANGED <<files, process, forwarded>>

-----------------------------------------------------------------------------
(* link_and_run, up to the executable.  Any step may fail.                  *)

LinkFails(c) ==
    /\ pc[c] \in {"create", "write", "nasm", "ar", "rustc"}
    /\ Ends(c, "Link")
    /\ UNCHANGED <<files, process, forwarded>>

\* File::create truncates a file that is there
CreateAsm(c) ==
    /\ pc[c] = "create"
    /\ asm' = [asm EXCEPT ![DirOf[c]] = Nothing]
    /\ Goes(c, "write")
    /\ UNCHANGED <<obj, objTime, lib, libTime, exe, now, process, forwarded>>

\* write goes over the beginning of what another command wrote since
WriteAsm(c) ==
    /\ pc[c] = "write"
    /\ \E text \in {c, Garbled} :
          /\ text = Garbled => c \in ShortWrites \/ asm[DirOf[c]] # Nothing
          /\ asm' = [asm EXCEPT ![DirOf[c]] = text]
    /\ Goes(c, "nasm")
    /\ UNCHANGED <<obj, objTime, lib, libTime, exe, now, process, forwarded>>

\* The file may be made in the second of the one before or in the next
Nasm(c) ==
    /\ pc[c] = "nasm"
    /\ obj' = [obj EXCEPT ![DirOf[c]] = asm[DirOf[c]]]
    /\ now' \in {now, now + 1}
    /\ objTime' = [objTime EXCEPT ![DirOf[c]] = now']
    /\ Goes(c, "ar")
    /\ UNCHANGED <<asm, lib, libTime, exe, process, forwarded>>

\* ar rus: u replaces a member of the archive only by a newer file
Ar(c) ==
    /\ pc[c] = "ar"
    /\ LET d == DirOf[c]
       IN  IF lib[d] = Nothing \/ objTime[d] > libTime[d]
           THEN /\ lib' = [lib EXCEPT ![d] = obj[d]]
                /\ libTime' = [libTime EXCEPT ![d] = objTime[d]]
           ELSE UNCHANGED <<lib, libTime>>
    /\ Goes(c, "rustc")
    /\ UNCHANGED <<asm, obj, objTime, exe, now, process, forwarded>>

\* rustc needs a start_here
RustcIntoOneFile(c) ==
    /\ pc[c] = "rustc" /\ lib[DirOf[c]] # Nothing
    /\ exe' = [d \in Dirs |-> lib[DirOf[c]]]
    /\ Goes(c, "spawn")
    /\ UNCHANGED <<asm, obj, objTime, lib, libTime, now, process, forwarded>>

Rustc(c) ==
    /\ pc[c] = "rustc" /\ lib[DirOf[c]] # Nothing
    /\ exe' = [exe EXCEPT ![DirOf[c]] = lib[DirOf[c]]]
    /\ Goes(c, "spawn")
    /\ UNCHANGED <<asm, obj, objTime, lib, libTime, now, process, forwarded>>

-----------------------------------------------------------------------------
(* link_and_run, from the executable on.                                    *)

SpawnThen(c, stage) ==
    /\ pc[c] = "spawn"
    /\ child' = [child EXCEPT ![c] = exe[DirOf[c]]]
    /\ alive' = [alive EXCEPT ![c] = TRUE]
    /\ Goes(c, stage)
    /\ UNCHANGED <<files, sent, complained, reaped, forwarded>>

SpawnAndWait(c) == SpawnThen(c, "wait")

Spawn(c) == SpawnThen(c, "read")

SpawnFails(c) ==
    /\ pc[c] = "spawn"
    /\ Ends(c, "Run")
    /\ UNCHANGED <<files, process, forwarded>>

ForwardLine(c) ==
    /\ pc[c] = "read" /\ forwarded[c] < sent[c]
    /\ forwarded' = [forwarded EXCEPT ![c] = @ + 1]
    /\ UNCHANGED <<pc, result, files, process>>

\* The output of the command is gone: it returns, which closes both pipes
ForwardFails(c) ==
    /\ pc[c] = "read" /\ forwarded[c] < sent[c]
    /\ Ends(c, "Run")
    /\ UNCHANGED <<files, process, forwarded>>

EndOfOutputWithoutWait(c) ==
    /\ pc[c] = "read" /\ forwarded[c] = sent[c] /\ ~alive[c]
    /\ Ends(c, IF child[c] \in Succeeding THEN "Ok" ELSE "Run")
    /\ UNCHANGED <<files, process, forwarded>>

EndOfOutput(c) ==
    /\ pc[c] = "read" /\ forwarded[c] = sent[c] /\ ~alive[c]
    /\ Goes(c, "wait")
    /\ UNCHANGED <<files, process, forwarded>>

\* A child that did not get to its end was stopped by its closed pipes
ExitedWell(c) == child[c] \in Succeeding /\ sent[c] = Lines[child[c]]

WaitIgnoringStatus(c) ==
    /\ pc[c] = "wait" /\ ~alive[c]
    /\ reaped' = [reaped EXCEPT ![c] = TRUE]
    /\ Ends(c, "Ok")
    /\ UNCHANGED <<files, child, alive, sent, complained, forwarded>>

Wait(c) ==
    /\ pc[c] = "wait" /\ ~alive[c]
    /\ reaped' = [reaped EXCEPT ![c] = TRUE]
    /\ IF ExitedWell(c) THEN Ends(c, "Ok") ELSE Goes(c, "errors")
    /\ UNCHANGED <<files, child, alive, sent, complained, forwarded>>

ReadErrors(c) ==
    /\ pc[c] = "errors"
    /\ Ends(c, "Run")
    /\ UNCHANGED <<files, process, forwarded>>

-----------------------------------------------------------------------------
(* The child: println! and eprintln! of the runtime.                        *)

Listening(c) == pc[c] # "done"

ChildPrintsUnblocked(c) ==
    /\ alive[c] /\ sent[c] < Lines[child[c]] /\ Listening(c)
    /\ sent' = [sent EXCEPT ![c] = @ + 1]
    /\ UNCHANGED <<pc, result, files, child, alive, complained, reaped, forwarded>>

ChildPrints(c) ==
    /\ alive[c] /\ sent[c] < Lines[child[c]]
    /\ Listening(c) /\ sent[c] - forwarded[c] < PipeSize
    /\ sent' = [sent EXCEPT ![c] = @ + 1]
    /\ UNCHANGED <<pc, result, files, child, alive, complained, reaped, forwarded>>

\* One line, which the pipe has room for
ChildComplains(c) ==
    /\ alive[c] /\ sent[c] = Lines[child[c]]
    /\ Listening(c) /\ child[c] \in Ending \ Succeeding /\ ~complained[c]
    /\ complained' = [complained EXCEPT ![c] = TRUE]
    /\ UNCHANGED <<pc, result, files, child, alive, sent, reaped, forwarded>>

ChildExits(c) ==
    /\ alive[c] /\ sent[c] = Lines[child[c]]
    /\ child[c] \in Ending /\ (child[c] \in Succeeding \/ complained[c])
    /\ alive' = [alive EXCEPT ![c] = FALSE]
    /\ UNCHANGED <<pc, result, files, child, sent, complained, reaped, forwarded>>

\* A pipe nobody reads from makes println! and eprintln! panic
ChildPanics(c) ==
    /\ alive[c] /\ ~Listening(c)
    /\ sent[c] < Lines[child[c]] \/ (child[c] \in Ending \ Succeeding /\ ~complained[c])
    /\ alive' = [alive EXCEPT ![c] = FALSE]
    /\ UNCHANGED <<pc, result, files, child, sent, complained, reaped, forwarded>>

-----------------------------------------------------------------------------

Command(c) ==
    \/ Usage(c) \/ SourceFails(c) \/ EmitAssembly(c) \/ CompileFile(c) \/ CheckFile(c)
    \/ InterpretLine(c) \/ InterpretEnds(c) \/ InterpretFails(c)
    \/ LinkFails(c) \/ CreateAsm(c) \/ WriteAsm(c) \/ Nasm(c) \/ Ar(c) \/ Rustc(c)
    \/ Spawn(c) \/ SpawnFails(c) \/ ForwardLine(c) \/ ForwardFails(c) \/ EndOfOutput(c)
    \/ Wait(c) \/ ReadErrors(c)

Child(c) == ChildPrints(c) \/ ChildComplains(c) \/ ChildExits(c) \/ ChildPanics(c)

Next == \E c \in Commands : Command(c) \/ Child(c)

Spec == Init /\ [][Next]_vars /\ \A c \in Commands : WF_vars(Command(c)) /\ WF_vars(Child(c))
-----------------------------------------------------------------------------

\* Every variable has its type, and no more is under way than a pipe holds
\* (runner.rs:244-264).
TypeOK ==
    /\ pc \in [Commands -> Stages]
    /\ result \in [Commands -> Errs \cup {"none", "Ok", "Usage"}]
    /\ asm \in [Dirs -> Contents] /\ obj \in [Dirs -> Contents]
    /\ lib \in [Dirs -> Contents] /\ exe \in [Dirs -> Contents]
    /\ objTime \in [Dirs -> Nat] /\ libTime \in [Dirs -> Nat] /\ now \in Nat
    /\ child \in [Commands -> Contents]
    /\ alive \in [Commands -> BOOLEAN] /\ complained \in [Commands -> BOOLEAN]
    /\ reaped \in [Commands -> BOOLEAN]
    /\ sent \in [Commands -> Nat] /\ forwarded \in [Commands -> Nat]
    /\ \A c \in Commands : Mode(c) = "--run" => forwarded[c] <= sent[c] /\ sent[c] <= forwarded[c] + PipeSize

\* A command that is the only one to use its directory runs the program it was
\* asked to run, or what a write that was cut short left of it, whatever others do
\* at the same time (runner.rs:154-244).
Private(c) == \A q \in Commands : DirOf[q] = DirOf[c] => q = c

PrivateRunsOwn ==
    \A c \in Commands :
        Private(c) => child[c] \in {c, Nothing} \cup (IF c \in ShortWrites THEN {Garbled} ELSE {})

\* A command that ends well printed all that the program it ran prints, and that
\* program succeeded; when it reports a failure of the compiled program, the message
\* of the program is there to be read (runner.rs:262-279).
Ran(c) == IF Mode(c) = "--run" THEN child[c] ELSE c

OutcomeReported ==
    \A c \in Commands : Mode(c) \in {"--run", "--interp"} =>
        /\ result[c] = "Ok" => Ran(c) \in Succeeding \cap Ending /\ forwarded[c] = Lines[Ran(c)]
        /\ pc[c] = "errors" => Ran(c) \notin Succeeding /\ complained[c] /\ forwarded[c] = Lines[Ran(c)]

\* A command leaves a child behind only when its own output failed: the error of
\* writeln! returns without a wait (runner.rs:262-265).
LeavesNoChild ==
    \A c \in Commands :
        pc[c] = "done" /\ child[c] # Nothing /\ ~reaped[c] => forwarded[c] < sent[c]

\* The pipes never hold up a command and its child for ever: the child's error
\* line fits into its pipe, which is read after the output, and the output is
\* read before the child is waited for (runner.rs:244-278).
CommandsEnd ==
    \A c \in Commands : Private(c) /\ After[c] = {} /\ {c, Garbled} \subseteq Ending => <>(pc[c] = "done")

\* "ar r libcompiled_code.a compiled_code.o" (runner.rs:199): the archive has the
\* object that was just made.
ArchiveReplaced == \A c \in Commands : pc[c] = "rustc" => lib[DirOf[c]] = obj[DirOf[c]]
=============================================================================
