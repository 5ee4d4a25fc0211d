------------------------------- MODULE Codegen -------------------------------
(***************************************************************************)
(* The instructions of src/src/asm.rs and the code that compile.rs makes   *)
(* of a sequential program whose variables have been given places          *)
(* (src/src/compile.rs:1108-1696).                                         *)
(*                                                                         *)
(* Offsets and sizes are in words of eight bytes, since every offset and   *)
(* every immediate that meets a stack register is a multiple of eight.  An *)
(* instruction's label is the sequence of its parts, like a name.  The     *)
(* code is always asked to leave its value in Rax (the argument dest).     *)
(***************************************************************************)
EXTENDS Lowering, Places

LOCAL INSTANCE SequencesExt

-----------------------------------------------------------------------------
(* Registers, by their rank in the derived order of Reg.                    *)

Rax == 0
Rbx == 1
Rdx == 2
Rcx == 3
Rsi == 4
Rdi == 5
Rsp == 6
Rbp == 7
R12 == 12
R15 == 15
AllRegs == 0 .. 15

GENERAL_PURPOSE_REGISTERS == {Rdx, Rcx, Rsi, Rdi} \cup 8 .. 11 \cup {Rbx, R12}
CALLEE_SAVED_REGISTERS == {Rbx, R12}

(* Operands and instructions.                                               *)

R(r) == [at |-> "Reg", r |-> r]
Imm(n) == [at |-> "Imm", n |-> n]
Mem(r, offset) == [at |-> "Mem", r |-> r, offset |-> offset]

Mov(dst, src) == [op |-> "Mov", dst |-> dst, src |-> src]
\* Add, Sub, IMul, And, Or, Xor, Sar, Cmp, Test
Bin(op, r, src) == [op |-> op, dst |-> R(r), src |-> src]
Push(src) == [op |-> "Push", src |-> src]
Pop(dst) == [op |-> "Pop", dst |-> dst]
Label(l) == [op |-> "Label", l |-> l]
CallTo(f) == [op |-> "Call", l |-> f]
Ret == [op |-> "Ret"]
\* Jmp, Je, Jne, Jl, Jle, Jg, Jge, Jz, Jnz, Jo
Jump(cond, l) == [op |-> "Jump", cond |-> cond, l |-> l]

(* Values as words: a number is shifted, a boolean has the tag bit set.     *)

BOOL_TAG == 1
SNAKE_TRU == -1
SNAKE_FLS == TwoTo63 - 1
BOOL_MASK == -TwoTo63

-----------------------------------------------------------------------------
(* A frame [params, lcl]: env_arg and env_lcl.                              *)

\* Above rbp: r15, rbp, r12, rbx and the return address, then the arguments
ArgSlot(i) == Mem(Rbp, i + 5)

Place(loc) == IF loc.loc = "Reg" THEN R(loc.n) ELSE Mem(Rbp, -(loc.n + 1))

\* compile_imm: a local variable hides a parameter
Source(imm, frame) ==
    CASE imm.exp = "Num" -> Imm(2 * imm.n)
      [] imm.exp = "Bool" -> Imm(IF imm.b THEN SNAKE_TRU ELSE SNAKE_FLS)
      [] imm.exp = "Var" /\ imm.x \in DOMAIN frame.lcl -> Place(frame.lcl[imm.x])
      [] imm.exp = "Var" /\ imm.x \notin DOMAIN frame.lcl ->
            ArgSlot((CHOOSE i \in DOMAIN frame.params : frame.params[i] = imm.x) - 1)

CompileImm(imm, frame, dest) == <<Mov(R(dest), Source(imm, frame))>>

CheckIsBool(r, error) == <<Bin("Test", r, Imm(BOOL_TAG)), Jump("z", <<error>>)>>
CheckIsNum(r, error) == <<Bin("Test", r, Imm(BOOL_TAG)), Jump("nz", <<error>>)>>
CheckOverflow == <<Jump("o", <<"ovfl_error">>)>>

\* The registers that hold variables bound so far on this path
CallerSaved(frame, used) ==
    {r \in used \ CALLEE_SAVED_REGISTERS : RegLoc(r) \in {frame.lcl[v] : v \in DOMAIN frame.lcl}}

\* compile_caller_saved around a call.  The order is that of a HashSet; the pops
\* undo the pushes.
Saving(frame, used, call) ==
    LET saved == SetToSeq(CallerSaved(frame, used))
        odd == Len(saved) % 2 = 1
    IN  [i \in DOMAIN saved |-> Push(R(saved[i]))]
        \o (IF odd THEN <<Push(Imm(0))>> ELSE <<>>)
        \o call
        \o (IF odd THEN <<Bin("Add", Rsp, Imm(1))>> ELSE <<>>)
        \o [i \in DOMAIN saved |-> Pop(R(Reverse(saved)[i]))]

\* compile_callee_saved
PushCalleeSaved == <<Push(R(Rbx)), Push(R(R12)), Push(R(Rbp)), Push(R(R15))>>
PopCalleeSavedInPushOrder == <<Pop(R(Rbx)), Pop(R(R12)), Pop(R(Rbp)), Pop(R(R15))>>
PopCalleeSaved == <<Pop(R(R15)), Pop(R(Rbp)), Pop(R(R12)), Pop(R(Rbx))>>

-----------------------------------------------------------------------------
(* compile_with_env, one operator for each construct.                       *)

\* true if the flags say so, else false
BoolIf(cond, l) ==
    <<Mov(R(Rax), Imm(SNAKE_TRU)), Jump(cond, l), Mov(R(Rax), Imm(SNAKE_FLS)), Label(l)>>

Prim1Code(op, frame, used, ann) ==
    CASE op = "Add1" ->
            CheckIsNum(Rax, "arith_error") \o <<Bin("Add", Rax, Imm(2))>> \o CheckOverflow
      [] op = "Sub1" ->
            CheckIsNum(Rax, "arith_error") \o <<Bin("Sub", Rax, Imm(2))>> \o CheckOverflow
      [] op = "Not" ->
            CheckIsBool(Rax, "logic_error")
            \o <<Mov(R(R15), Imm(BOOL_MASK)), Bin("Xor", Rax, R(R15))>>
      [] op = "Print" ->
            Saving(frame, used, <<Mov(R(Rdi), R(Rax)), CallTo(<<"print_snake_val">>)>>)
      [] op = "IsBool" ->
            <<Mov(R(R15), Imm(BOOL_TAG)), Bin("Test", Rax, R(R15))>> \o BoolIf("nz", <<"isbool#", ann>>)
      [] op = "IsNum" ->
            <<Mov(R(R15), Imm(BOOL_TAG)), Bin("Test", Rax, R(R15))>> \o BoolIf("z", <<"isnum#", ann>>)

CondOf == [Lt |-> "l", Gt |-> "g", Le |-> "le", Ge |-> "ge", Eq |-> "e", Neq |-> "ne"]

Prim2Code(op, ann) ==
    LET Both(Checks(_, _), error) == Checks(Rax, error) \o Checks(R15, error)
        Compared == <<Bin("Cmp", Rax, R(R15))>> \o BoolIf(CondOf[op], <<op, "#", ann>>)
    IN  CASE op \in {"Add", "Sub"} ->
                Both(CheckIsNum, "arith_error") \o <<Bin(op, Rax, R(R15))>> \o CheckOverflow
          [] op = "Mul" ->
                Both(CheckIsNum, "arith_error")
                \o <<Bin("Sar", Rax, Imm(1)), Bin("IMul", Rax, R(R15))>> \o CheckOverflow
          [] op \in Log2 -> Both(CheckIsBool, "logic_error") \o <<Bin(op, Rax, R(R15))>>
          [] op \in Cmp2 -> Both(CheckIsNum, "cmp_error") \o Compared
          [] op \in Eq2 -> Compared

CyclicDepNever(args, frame) == FALSE

\* An argument that is a parameter may be overwritten before it is read
CyclicDep(args, frame) ==
    \E i \in DOMAIN args : args[i].exp = "Var" /\ args[i].x \notin DOMAIN frame.lcl

\* The frame of this call becomes that of the callee
TailCall(f, args, frame) ==
    LET Eval(i) == CompileImm(args[i], frame, Rax)
        saved == FlattenSeq([i \in DOMAIN args |-> Eval(i) \o <<Push(R(Rax))>>])
        moved == [i \in DOMAIN args |-> Pop(ArgSlot(Len(args) - i))]
        direct == FlattenSeq([i \in DOMAIN args |-> Eval(i) \o <<Mov(ArgSlot(i - 1), R(Rax))>>])
    IN  (IF CyclicDep(args, frame) THEN saved \o moved ELSE direct)
        \o <<Mov(R(Rsp), R(Rbp))>> \o PopCalleeSaved \o <<Jump("always", f)>>

OrdinaryCall(f, args, frame, used) ==
    LET pushes == [i \in DOMAIN args |-> CompileImm(args[i], frame, Rax) \o <<Push(R(Rax))>>]
    IN  Saving(frame, used,
               FlattenSeq(Reverse(pushes))
               \o <<CallTo(f), Bin("Sub", Rsp, Imm(-Len(args)))>>)

CallCodeKeepingFrame(f, args, frame, used, tail) == OrdinaryCall(f, args, frame, used)

CallCode(f, args, frame, used, tail) ==
    IF tail /\ Len(args) <= Len(frame.params)
    THEN TailCall(f, args, frame)
    ELSE OrdinaryCall(f, args, frame, used)

RECURSIVE CompileWithEnv(_, _, _, _, _)

LetCode(e, frame, used, tail, base) ==
    LET x == e.bindings[1].var
        bound == e.bindings[1].e
        loc == frame.lcl[x]
    IN  CompileWithEnv(bound, frame, used, FALSE, base)
        \o <<Mov(Place(loc), R(Rax))>>
        \o CompileWithEnv(e.body, frame, used \cup (IF loc.loc = "Reg" THEN {loc.n} ELSE {}),
                          tail, base + SeqSize(bound))

IfCode(e, frame, used, tail, base) ==
    LET ann == base + SeqSize(e) - 1
    IN  CompileImm(e.cond, frame, Rax)
        \o CheckIsBool(Rax, "cond_error")
        \o <<Mov(R(R15), Imm(BOOL_MASK)), Bin("Test", Rax, R(R15)), Jump("z", <<"if_false#", ann>>)>>
        \o CompileWithEnv(e.thn, frame, used, tail, base)
        \o <<Jump("always", <<"done#", ann>>), Label(<<"if_false#", ann>>)>>
        \o CompileWithEnv(e.els, frame, used, tail, base + SeqSize(e.thn))
        \o <<Label(<<"done#", ann>>)>>

\* used: the registers written so far on this path; base: the first tag of e
CompileWithEnv(e, frame, used, tail, base) ==
    CASE Immediate(e) -> CompileImm(e, frame, Rax)
      [] e.exp = "Prim1" -> CompileImm(e.e, frame, Rax) \o Prim1Code(e.op, frame, used, base)
      [] e.exp = "Prim2" ->
            CompileImm(e.e1, frame, Rax) \o CompileImm(e.e2, frame, R15) \o Prim2Code(e.op, base)
      [] e.exp = "Let" -> LetCode(e, frame, used, tail, base)
      [] e.exp = "If" -> IfCode(e, frame, used, tail, base)
      [] e.exp = "Call" -> CallCode(e.f, e.args, frame, used, tail)

-----------------------------------------------------------------------------
(* Whole functions and programs.                                            *)

FrameSpaceUnrounded(frame) == Cardinality(Spilled(frame.lcl))

\* Room for the spilled variables, rounded so that the stack is aligned to 16
\* bytes when the caller pushed as many arguments as there are parameters
FrameSpace(frame) ==
    LET spilled == Cardinality(Spilled(frame.lcl))
    IN  IF Len(frame.params) % 2 = 0 THEN (spilled \div 2) * 2 + 1
                                     ELSE ((spilled + 1) \div 2) * 2

\* compile_to_instrs
CompileToInstrs(e, frame, base) ==
    LET space == FrameSpace(frame)
    IN  PushCalleeSaved
        \o <<Mov(R(Rbp), R(Rsp))>>
        \o (IF space = 0 THEN <<>> ELSE <<Bin("Sub", Rsp, Imm(space))>>)
        \o CompileWithEnv(e, frame, {}, TRUE, base)
        \o <<Mov(R(Rsp), R(Rbp))>> \o PopCalleeSaved \o <<Ret>>

\* compile_fun; main is a function start_here without parameters
CompileFun(name, params, body, lcl, base) ==
    <<Label(name)>> \o CompileToInstrs(body, [params |-> params, lcl |-> lcl], base)

ErrorExits ==
    LET Exit(i) == <<Label(<<(<<"ovfl_error", "arith_error", "cmp_error", "logic_error", "cond_error">>)[i]>>),
                     Mov(R(Rdi), Imm(i - 1)), CallTo(<<"snake_error">>)>>
    IN  FlattenSeq([i \in 1 .. 5 |-> Exit(i)])

Externs == {<<"snake_error">>, <<"print_snake_val">>}

CompileToStringTaggingEachBody(p, lcls) ==
    FlattenSeq([i \in DOMAIN p.funs |-> CompileFun(p.funs[i].name, p.funs[i].params, p.funs[i].body, lcls[i], 0)])
    \o CompileFun(<<"start_here">>, <<>>, p.main, lcls[Len(lcls)], 0) \o ErrorExits

\* What compile_to_string does after the passes; add_tag_sprog tags the bodies one
\* after the other.  lcls: the places of each function, main last.
CompileToString(p, lcls) ==
    LET bodies == Append([i \in DOMAIN p.funs |-> p.funs[i].body], p.main)
        base(i) == FoldLeft(LAMBDA n, b : n + SeqSize(b), 0, SubSeq(bodies, 1, i - 1))
        Fun(i) == CompileFun(p.funs[i].name, p.funs[i].params, bodies[i], lcls[i], base(i))
        main == Len(bodies)
    IN  FlattenSeq([i \in DOMAIN p.funs |-> Fun(i)])
        \o CompileFun(<<"start_here">>, <<>>, p.main, lcls[main], base(main))
        \o ErrorExits
=============================================================================
