------------------------------- MODULE Machine -------------------------------
(***************************************************************************)
(* A program that Compiler has compiled, with any places for its           *)
(* variables: it is printed, assembled and linked with the runtime         *)
(* (src/runtime/stub.rs), and its instructions run one after the other.    *)
(*                                                                         *)
(* The stack is mem, a word for each address; the address of a word is its *)
(* own divided by eight, so the stack is aligned to 16 bytes where rsp is  *)
(* even.  Where the code would read what nobody wrote, jump nowhere or     *)
(* leave the stack, the run ends in a crash.                               *)
(***************************************************************************)
EXTENDS Compiler, Codegen, Bitwise

LOCAL INSTANCE SequencesExt

CONSTANTS StackWords,        \* the words of the stack, below the frame of main in stub.rs
          Keywords           \* names the assembler takes for something else

ASSUME StackWordsAssumption == StackWords \in Nat /\ StackWords % 2 = 1

VARIABLES asm,               \* the instructions
          pc, regs, mem, flags,
          out, result,       \* what was printed, and how the run ended
          shown,             \* the word that the message of snake_error shows
          meaning            \* what the program means, for comparison

machine == <<asm, pc, regs, mem, flags>>
ending == <<out, result, shown>>
allVars == <<vars, machine, ending, meaning>>

\* Words: values, addresses of the stack, return addresses, and the rest
Val(n) == [w |-> "Val", n |-> n]
Addr(a) == [w |-> "Addr", n |-> a]
Code(i) == [w |-> "Code", n |-> i]
Undefined == [w |-> "Undefined", n |-> 0]
\* What the runtime keeps in a register across the call of start_here
Kept(r) == [w |-> "Kept", n |-> r]

Preserved == {Rbx, Rbp} \cup 12 .. 15
Volatile == AllRegs \ (Preserved \cup {Rsp})

Running == [t |-> "Running"]
Crash == [t |-> "Err", err |-> "Crash"]
PrintFailed == [t |-> "Err", err |-> "Write"]

\* How a run ends, less the value an error message names
Observed(r) ==
    IF r.t = "Err" /\ r.err \in {"ExpectedNum", "ExpectedBool"}
    THEN [t |-> "Err", err |-> r.err, who |-> r.who] ELSE r

\* The allocations of all functions and of main
AllAnswers(p) ==
    FoldLeft(LAMBDA done, body : {Append(s, lcl) : s \in done, lcl \in Answers(Conflicts(body).graph)},
             {<<>>}, [i \in BodyNumbers(p) |-> BodyOf(p, i)])

\* Compiler has done its passes (Compiler.Next up to "compiled")
MachineInit ==
    /\ prog \in {p \in Programs : CheckProg(p) = Ok}
    /\ stage = "compiled"
    /\ code = LivenessP(UniquifyNames(SeqProg(prog)))
    /\ lcls \in AllAnswers(code)
    /\ asm = <<>> /\ pc = 0 /\ regs = [r \in AllRegs |-> Undefined] /\ mem = <<>>
    /\ flags = [zf |-> FALSE, lt |-> FALSE, of |-> FALSE]
    /\ out = <<>> /\ result = Running /\ shown = Undefined
    /\ meaning = LET m == Meaning(prog, Fuel) IN [r |-> Observed(m.r), out |-> m.out]

-----------------------------------------------------------------------------
(* Assembling and starting.                                                 *)

LabelsOf(is) == {is[i].l : i \in {j \in DOMAIN is : is[j].op = "Label"}}

\* nasm defines every symbol once, and takes no label for an instruction
Assembles(is) ==
    /\ Cardinality(LabelsOf(is)) = Len(SelectSeq(is, LAMBDA i : i.op = "Label"))
    /\ LabelsOf(is) \cap (Keywords \cup Externs) = {}

\* start_here is called by main of the runtime
LinkAndStart ==
    /\ stage = "compiled"
    /\ asm' = CompileToString(code, lcls)
    /\ stage' = IF Assembles(asm') THEN "running" ELSE "unlinkable"
    /\ pc' = CHOOSE i \in DOMAIN asm' : asm'[i] = Label(<<"start_here">>)
    /\ mem' = [a \in 0 .. StackWords |-> IF a = StackWords THEN Code(0) ELSE Undefined]
    /\ regs' = [r \in AllRegs |->
                   IF r = Rsp THEN Addr(StackWords)
                   ELSE IF r \in Preserved THEN Kept(r) ELSE Undefined]
    /\ UNCHANGED <<prog, code, lcls, flags, ending, meaning>>

-----------------------------------------------------------------------------
(* Operands.                                                                *)

\* The word of the stack a memory operand names, if it is one
Address(m) == IF regs[m.r].w = "Addr" THEN regs[m.r].n + m.offset ELSE -1

InStack(a) == a \in DOMAIN mem

Read(src) ==
    CASE src.at = "Reg" -> regs[src.r]
      [] src.at = "Imm" -> Val(src.n)
      [] src.at = "Mem" -> IF InStack(Address(src)) THEN mem[Address(src)] ELSE Undefined

IsVal(word) == word.w = "Val"

Goes(to) == pc' = to
Falls == Goes(pc + 1)

\* The instruction at pc
At(op) == stage = "running" /\ asm[pc].op = op

Ends(r, v) ==
    /\ result' = r
    /\ shown' = v
    /\ stage' = "exited"
    /\ UNCHANGED <<prog, code, lcls, machine, out, meaning>>

Crashes == Ends(Crash, Undefined)

\* One instruction that neither prints nor ends the run
Within == UNCHANGED <<vars, asm, ending, meaning>>

Write(dst, word) ==
    CASE dst.at = "Reg" ->
            /\ regs' = [regs EXCEPT ![dst.r] = word] /\ UNCHANGED <<mem, flags>> /\ Falls /\ Within
      [] dst.at = "Mem" /\ InStack(Address(dst)) ->
            /\ mem' = [mem EXCEPT ![Address(dst)] = word] /\ UNCHANGED <<regs, flags>> /\ Falls /\ Within
      [] dst.at = "Mem" /\ ~InStack(Address(dst)) -> Crashes

-----------------------------------------------------------------------------
(* Instructions.                                                            *)

StepMov == At("Mov") /\ Write(asm[pc].dst, Read(asm[pc].src))

Unsigned(n) == IF n < 0 THEN n + 2 * TwoTo63 ELSE n
Signed(n) == IF n >= TwoTo63 THEN n - 2 * TwoTo63 ELSE n

\* What the operation gives before it is cut to 64 bits
Computed(op, a, b) ==
    CASE op = "Add" -> a + b
      [] op = "Sub" -> a - b
      [] op = "IMul" -> a * b
      [] op = "Sar" -> a \div 2
      [] op \in {"And", "Test"} -> Signed(Unsigned(a) & Unsigned(b))
      [] op = "Or" -> Signed(Unsigned(a) | Unsigned(b))
      [] op = "Xor" -> Signed(Unsigned(a) ^^ Unsigned(b))
      [] op = "Cmp" -> a - b

\* Only flags that the code tests after the operation are right
FlagsOf(exact) == [zf |-> exact = 0, lt |-> exact < 0, of |-> Wrap(exact) # exact]

BinOps == {"Add", "Sub", "IMul", "Sar", "And", "Or", "Xor", "Cmp", "Test"}

\* Arithmetic on values, and on the stack pointer
StepBin ==
    /\ stage = "running" /\ asm[pc].op \in BinOps
    /\ LET op == asm[pc].op
           r == asm[pc].dst.r
           a == regs[r]
           b == Read(asm[pc].src)
           exact == Computed(op, a.n, b.n)
       IN  IF IsVal(b) /\ (IsVal(a) \/ (a.w = "Addr" /\ op \in {"Add", "Sub"}))
           THEN /\ flags' = FlagsOf(exact)
                /\ regs' = IF op \in {"Cmp", "Test"} THEN regs
                           ELSE [regs EXCEPT ![r] = IF IsVal(a) THEN Val(Wrap(exact)) ELSE Addr(exact)]
                /\ UNCHANGED mem /\ Falls /\ Within
           ELSE Crashes

StackTop == Address(Mem(Rsp, 0))

\* The stack overflows at address 0
PushWord(word, to) ==
    IF InStack(StackTop - 1)
    THEN /\ mem' = [mem EXCEPT ![StackTop - 1] = word]
         /\ regs' = [regs EXCEPT ![Rsp] = Addr(StackTop - 1)]
         /\ UNCHANGED flags /\ Goes(to) /\ Within
    ELSE Crashes

StepPush == At("Push") /\ PushWord(Read(asm[pc].src), pc + 1)

StepPop ==
    /\ At("Pop")
    /\ LET dst == asm[pc].dst
           popped == [regs EXCEPT ![Rsp] = Addr(StackTop + 1)]
       IN  IF ~InStack(StackTop) \/ (dst.at = "Mem" /\ ~InStack(Address(dst))) THEN Crashes
           ELSE /\ regs' = IF dst.at = "Reg" THEN [popped EXCEPT ![dst.r] = mem[StackTop]] ELSE popped
                /\ mem' = IF dst.at = "Mem" THEN [mem EXCEPT ![Address(dst)] = mem[StackTop]] ELSE mem
                /\ UNCHANGED flags /\ Falls /\ Within

Target(l) == CHOOSE i \in DOMAIN asm : asm[i] = Label(l)

CondHolds(cond) ==
    CASE cond = "always" -> TRUE
      [] cond \in {"z", "e"} -> flags.zf
      [] cond \in {"nz", "ne"} -> ~flags.zf
      [] cond = "l" -> flags.lt
      [] cond = "le" -> flags.lt \/ flags.zf
      [] cond = "g" -> ~flags.lt /\ ~flags.zf
      [] cond = "ge" -> ~flags.lt
      [] cond = "o" -> flags.of

StepJump ==
    /\ At("Jump")
    /\ Goes(IF CondHolds(asm[pc].cond) THEN Target(asm[pc].l) ELSE pc + 1)
    /\ UNCHANGED <<regs, mem, flags>> /\ Within

StepLabel == At("Label") /\ Falls /\ UNCHANGED <<regs, mem, flags>> /\ Within

StepCall ==
    /\ At("Call") /\ asm[pc].l \notin Externs
    /\ PushWord(Code(pc + 1), Target(asm[pc].l))

\* sprint_snake_val
Shown(word) ==
    CASE IsVal(word) /\ word.n % 2 = 0 -> NumV(word.n \div 2)
      [] word = Val(SNAKE_TRU) -> BoolV(TRUE)
      [] word = Val(SNAKE_FLS) -> BoolV(FALSE)
      [] OTHER -> [t |-> "Invalid"]

\* Back to the caller, or to main of the runtime, which prints the value
StepRet ==
    /\ At("Ret")
    /\ LET return == Read(Mem(Rsp, 0))
       IN  IF return.w # "Code" THEN Crashes
           ELSE IF return = Code(0) THEN Ends(Shown(regs[Rax]), Undefined)
           ELSE /\ regs' = [regs EXCEPT ![Rsp] = Addr(StackTop + 1)]
                /\ UNCHANGED <<mem, flags>> /\ Goes(return.n) /\ Within

-----------------------------------------------------------------------------
(* The runtime.  A function of the system's convention may keep anything in *)
(* the volatile registers, and may crash on a stack that is not aligned.    *)

CallsExtern(f) == At("Call") /\ asm[pc].l = <<f>>

Aligned == StackTop % 2 = 0

MayCrash == IF Aligned THEN {} ELSE {Crash}

PrintSnakeVal ==
    /\ CallsExtern("print_snake_val")
    /\ out' = Append(out, Shown(regs[Rdi]))
    /\ regs' = [r \in AllRegs |-> IF r = Rax THEN regs[Rdi]
                                  ELSE IF r \in Volatile THEN Undefined ELSE regs[r]]
    /\ Falls
    /\ UNCHANGED <<vars, asm, mem, flags, result, shown, meaning>>

\* println! panics when the output is gone
PrintFails ==
    /\ CallsExtern("print_snake_val")
    /\ \E r \in {PrintFailed} \cup MayCrash : Ends(r, Undefined)

\* ecode is in rdi, v1 in rsi
SnakeErr(ecode) ==
    IF ecode = 0 THEN Overflow
    ELSE [t |-> "Err", err |-> IF ecode \in {1, 2} THEN "ExpectedNum" ELSE "ExpectedBool",
          who |-> (<<"arithmetic", "comparison", "logic", "if">>)[ecode]]

SnakeError ==
    /\ CallsExtern("snake_error")
    /\ \E r \in {SnakeErr(regs[Rdi].n)} \cup MayCrash : Ends(r, regs[Rsi])

Step ==
    \/ StepMov \/ StepBin \/ StepPush \/ StepPop \/ StepJump \/ StepLabel \/ StepCall \/ StepRet
    \/ PrintSnakeVal \/ PrintFails \/ SnakeError

Over == stage \in {"unlinkable", "exited"} /\ UNCHANGED allVars

MachineNext == LinkAndStart \/ Step \/ Over

MachineSpec == MachineInit /\ [][MachineNext]_allVars /\ WF_allVars(MachineNext)

-----------------------------------------------------------------------------

Reference == INSTANCE RunSpec WITH printed <- out

\* The compiled program, in whatever places its variables were put, prints the
\* values that "the reference interpreter" (interp.rs:479) says, one after the
\* other, and ends with the same value or the same kind of error, or does not end;
\* it never crashes: frames, saved registers, arguments overwritten by a tail call,
\* tag checks and overflow checks all hold together (compile.rs:1108-1696).
ImplementsRunSpec == Reference!Spec

\* Functions of the runtime are called on a stack aligned to 16 bytes, as the
\* System V convention asks (asm.rs:30): the parity that compile_to_instrs gives a
\* frame, the padding of saved registers and the arguments pushed add up
\* (compile.rs:1247-1252, 1619-1628).
AlignedCalls ==
    stage = "running" /\ asm[pc].op = "Call" /\ asm[pc].l \in Externs => Aligned

\* When start_here returns, main of the runtime finds the stack and the registers
\* it may keep things in as it left them, whatever calls, tail calls and spills
\* came between (compile.rs:1264-1277).
RuntimeUndisturbed ==
    stage = "exited" /\ ~IsErr(result) =>
        StackTop = StackWords /\ \A r \in Preserved : regs[r] = Kept(r)

RECURSIVE CallsLast(_, _)

\* No call but the last thing done, and with no more than n arguments
CallsLast(e, n) ==
    CASE e.exp = "Let" -> CallsLast(e.bindings[1].e, -1) /\ CallsLast(e.body, n)
      [] e.exp = "If" -> CallsLast(e.thn, n) /\ CallsLast(e.els, n)
      [] e.exp = "Call" -> Len(e.args) <= n
      [] OTHER -> TRUE

Frame1(params, lcl) == [params |-> params, lcl |-> lcl]
Largest(S) == CHOOSE n \in S : \A m \in S : m <= n

\* The words that one activation may have on the stack
Room(p) ==
    LET frames == {FrameSpace(Frame1(p.funs[i].params, lcls[i])) : i \in DOMAIN p.funs}
                  \cup {FrameSpace(Frame1(<<>>, lcls[Len(lcls)]))}
        arities == {Len(p.funs[i].params) : i \in DOMAIN p.funs} \cup {0}
    IN  5 + Largest(frames) + Cardinality(Registers) + 1 + Largest(arities)

\* A program whose functions make only calls that are the last thing they do, to
\* functions with no more parameters, runs in the frames of main and of one
\* function, however long it loops (compile.rs:1546-1598).
TailCallsReuseFrame ==
    stage = "running"
    /\ (\A i \in DOMAIN code.funs : CallsLast(code.funs[i].body, Len(code.funs[i].params)))
    => StackTop >= StackWords - 2 * Room(code)

\* Programs that check_prog accepts can be assembled, unless a function is named
\* like something of the assembler's or the runtime's: the labels made from tags
\* never meet (compile.rs:1314-1339, 1489-1490, syntax.rs:358-371).
Reserved ==
    Keywords \cup Externs \cup {<<"start_here">>}
    \cup {<<l>> : l \in {"ovfl_error", "arith_error", "cmp_error", "logic_error", "cond_error"}}

LabelsMeetOnlyReserved ==
    stage = "unlinkable" => \E i \in DOMAIN prog.funs : prog.funs[i].name \in Reserved

\* The message of a type error shows the value that is not as expected:
\* "arithmetic expected a number, got {}" (stub.rs:67-80).
ErrorShowsOffender ==
    stage = "exited" /\ result.t = "Err" /\ result.err \in {"ExpectedNum", "ExpectedBool"}
    => Shown(shown) = Meaning(prog, Fuel).r.got
=============================================================================
