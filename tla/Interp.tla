-------------------------------- MODULE Interp --------------------------------
(***************************************************************************)
(* The abstract machine of src/src/interp.rs:195-501, which evaluates an   *)
(* expression with an explicit stack of frames.                            *)
(*                                                                         *)
(* A step of the specification is a turn of the loop of machine().  An     *)
(* environment, a list searched from its newest entry, is the function it  *)
(* denotes.  The reversed vectors of bindings and arguments that are still *)
(* to be evaluated are sequences in program order.  Writing to the output  *)
(* may fail at any print.                                                  *)
(***************************************************************************)
EXTENDS Snake

CONSTANTS
    Programs,                \* the programs given to prog()
    Accepted                 \* what check_exp answers Ok to: <<e, scope, arities>>, an
                             \* expression with the variables and functions in scope

\* The functions of a program, each with its arity
Arities(p) == {<<p.funs[i].name, Len(p.funs[i].params)>> : i \in DOMAIN p.funs}

\* The variables in scope after some of the bindings
ScopeAfter(bindings, scope, i) == scope \cup {bindings[j].var : j \in 1 .. i}

\* A let whose i-th binding sees the ones before it, and the body all of them
LetAccepted(bindings, body, scope, fs) ==
    /\ IsSeq(bindings)
    /\ \A i \in DOMAIN bindings :
          <<bindings[i].e, ScopeAfter(bindings, scope, i - 1), fs>> \in Accepted
    /\ <<body, ScopeAfter(bindings, scope, Len(bindings)), fs>> \in Accepted

\* What an expression that was accepted looks like, case by case of check_exp
\* (src/src/compile.rs:244-370)
AcceptedShape(e, scope, fs) ==
    LET Sub(x) == <<x, scope, fs>> \in Accepted
    IN  \/ e.exp = "Num" /\ e.n \in MinInt .. MaxInt
        \/ e.exp = "Bool" /\ e.b \in BOOLEAN
        \/ e.exp = "Var" /\ e.x \in scope
        \/ e.exp = "Prim1" /\ e.op \in Prim1Ops /\ Sub(e.e)
        \/ e.exp = "Prim2" /\ e.op \in Prim2Ops /\ Sub(e.e1) /\ Sub(e.e2)
        \/ e.exp = "If" /\ Sub(e.cond) /\ Sub(e.thn) /\ Sub(e.els)
        \/ e.exp = "Let" /\ LetAccepted(e.bindings, e.body, scope, fs)
        \/ e.exp = "Call" /\ IsSeq(e.args) /\ <<e.f, Len(e.args)>> \in fs
                          /\ \A i \in DOMAIN e.args : Sub(e.args[i])

ASSUME AcceptedAssumption ==
    \A j \in Accepted : AcceptedShape(j[1], j[2], j[3])

\* A program that passed check_prog (compile.rs:405-421)
ASSUME ProgramsAssumption ==
    \A p \in Programs :
        /\ IsSeq(p.funs)
        /\ <<p.main, {}, Arities(p)>> \in Accepted
        /\ \A i, j \in DOMAIN p.funs : p.funs[i].name = p.funs[j].name => i = j
        /\ \A i \in DOMAIN p.funs :
              LET d == p.funs[i]
              IN  /\ IsSeq(d.params)
                  /\ \A m, n \in DOMAIN d.params : d.params[m] = d.params[n] => m = n
                  /\ <<d.body, ParamSet(d), Arities(p)>> \in Accepted

VARIABLES prog,              \* the program
          ctl,               \* Machine: descending into an expression, returning a
                             \* value, or how the call of machine() ended
          stk,               \* Stack, the innermost frame last
          out                \* what has been printed

vars == <<prog, ctl, stk, out>>

-----------------------------------------------------------------------------
(* Machine, Stack and Env (interp.rs:214-259).                              *)

Descending(e, env) == [mode |-> "Descending", e |-> e, env |-> env]
Returning(v) == [mode |-> "Returning", v |-> v]
Finished(r) == [mode |-> "Finished", r |-> r]
Panicked == [mode |-> "Panicked"]

EmptyEnv == [x \in {} |-> Num(0)]

\* List::Cons((var, v), env)
Extend(env, x, v) ==
    [y \in DOMAIN env \cup {x} |-> IF y = x THEN v ELSE env[y]]

FPrim1(op) == [fr |-> "Prim1", op |-> op]
FPrim2L(op, e, env) == [fr |-> "Prim2L", op |-> op, e |-> e, env |-> env]
FPrim2R(op, v) == [fr |-> "Prim2R", op |-> op, v |-> v]
FIf(thn, els, env) == [fr |-> "If", thn |-> thn, els |-> els, env |-> env]
FLet(x, env, bindings, body) ==
    [fr |-> "Let", var |-> x, env |-> env, bindings |-> bindings, body |-> body]
FCall(f, evaled, env, remaining) ==
    [fr |-> "Call", f |-> f, evaled |-> evaled, env |-> env, remaining |-> remaining]

Top == stk[Len(stk)]
Below == SubSeq(stk, 1, Len(stk) - 1)

Push(frame) == stk' = Append(stk, frame)
Pop == stk' = Below
Replace(frame) == stk' = Append(Below, frame)

\* decls_to_hash: a later declaration of a name replaces an earlier one
Decl(f) ==
    LET named == {i \in DOMAIN prog.funs : prog.funs[i].name = f}
    IN  prog.funs[CHOOSE i \in named : \A j \in named : j <= i]

Declared(f) == \E i \in DOMAIN prog.funs : prog.funs[i].name = f

\* The environment of a call: a list built front to back, so that of two
\* parameters of one name the last would count
ParamIndex(params, x) ==
    CHOOSE i \in DOMAIN params :
        params[i] = x /\ \A j \in DOMAIN params : params[j] = x => j <= i

ParamEnv(params, args) ==
    [x \in {params[i] : i \in DOMAIN params} |-> args[ParamIndex(params, x)]]

\* call(): the callee's body replaces what the machine was doing
Enter(f, args) ==
    IF Declared(f) /\ Len(Decl(f).params) = Len(args)
    THEN Descending(Decl(f).body, ParamEnv(Decl(f).params, args))
    ELSE Panicked

-----------------------------------------------------------------------------
(* Descending into an expression (interp.rs:310-398).                       *)

Init ==
    /\ prog \in Programs
    /\ ctl = Descending(prog.main, EmptyEnv)
    /\ stk = <<>>
    /\ out = <<>>

At(kind) == ctl.mode = "Descending" /\ ctl.e.exp = kind

DescendLiteral ==
    /\ At("Num") \/ At("Bool")
    /\ ctl' = Returning(IF ctl.e.exp = "Num" THEN NumV(ctl.e.n) ELSE BoolV(ctl.e.b))
    /\ UNCHANGED <<prog, stk, out>>

\* "Unbound variable in interpreter! You should catch this in the check function!"
DescendVar ==
    /\ At("Var")
    /\ ctl' = IF ctl.e.x \in DOMAIN ctl.env THEN Returning(ctl.env[ctl.e.x]) ELSE Panicked
    /\ UNCHANGED <<prog, stk, out>>

DescendPrim1 ==
    /\ At("Prim1")
    /\ ctl' = Descending(ctl.e.e, ctl.env)
    /\ Push(FPrim1(ctl.e.op))
    /\ UNCHANGED <<prog, out>>

DescendPrim2 ==
    /\ At("Prim2")
    /\ ctl' = Descending(ctl.e.e1, ctl.env)
    /\ Push(FPrim2L(ctl.e.op, ctl.e.e2, ctl.env))
    /\ UNCHANGED <<prog, out>>

\* The first binding, or the body when there is none
DescendLet ==
    /\ At("Let")
    /\ \/ /\ ctl.e.bindings = <<>>
          /\ ctl' = Descending(ctl.e.body, ctl.env)
          /\ UNCHANGED stk
       \/ /\ ctl.e.bindings # <<>>
          /\ ctl' = Descending(Head(ctl.e.bindings).e, ctl.env)
          /\ Push(FLet(Head(ctl.e.bindings).var, ctl.env, Tail(ctl.e.bindings), ctl.e.body))
    /\ UNCHANGED <<prog, out>>

DescendIf ==
    /\ At("If")
    /\ ctl' = Descending(ctl.e.cond, ctl.env)
    /\ Push(FIf(ctl.e.thn, ctl.e.els, ctl.env))
    /\ UNCHANGED <<prog, out>>

\* The first argument, or the call itself when there is none
DescendCall ==
    /\ At("Call")
    /\ \/ /\ ctl.e.args = <<>>
          /\ ctl' = Enter(ctl.e.f, <<>>)
          /\ UNCHANGED stk
       \/ /\ ctl.e.args # <<>>
          /\ ctl' = Descending(Head(ctl.e.args), ctl.env)
          /\ Push(FCall(ctl.e.f, <<>>, ctl.env, Tail(ctl.e.args)))
    /\ UNCHANGED <<prog, out>>

-----------------------------------------------------------------------------
(* Returning a value to a frame (interp.rs:399-474).                        *)

To(kind) == ctl.mode = "Returning" /\ stk # <<>> /\ Top.fr = kind

\* The ? operator: an error ends the call of machine()
Outcome(r) == IF IsErr(r) THEN Finished(r) ELSE Returning(r)

ReturnDone ==
    /\ ctl.mode = "Returning"
    /\ stk = <<>>
    /\ ctl' = Finished(ctl.v)
    /\ UNCHANGED <<prog, stk, out>>

ReturnPrim1 ==
    /\ To("Prim1")
    /\ Pop
    /\ \/ /\ ctl' = Outcome(InterpretPrim1(Top.op, ctl.v))
          /\ out' = IF Top.op \in Print1 THEN Append(out, ctl.v) ELSE out
       \/ /\ Top.op \in Print1
          /\ ctl' = Finished(WriteErr)
          /\ UNCHANGED out
    /\ UNCHANGED prog

ReturnPrim2L ==
    /\ To("Prim2L")
    /\ ctl' = Descending(Top.e, Top.env)
    /\ Replace(FPrim2R(Top.op, ctl.v))
    /\ UNCHANGED <<prog, out>>

ReturnPrim2RSwapped ==
    /\ To("Prim2R")
    /\ ctl' = Outcome(InterpretPrim2(Top.op, ctl.v, Top.v))
    /\ Pop
    /\ UNCHANGED <<prog, out>>
ReturnPrim2R ==
    /\ To("Prim2R")
    /\ ctl' = Outcome(InterpretPrim2(Top.op, Top.v, ctl.v))
    /\ Pop
    /\ UNCHANGED <<prog, out>>

\* The variable is bound; the next binding, or the body
ReturnLetForgetting ==
    /\ To("Let")
    /\ LET env == Extend(Top.env, Top.var, ctl.v)
       IN  \/ /\ Top.bindings = <<>>
              /\ ctl' = Descending(Top.body, env)
              /\ Pop
           \/ /\ Top.bindings # <<>>
              /\ ctl' = Descending(Head(Top.bindings).e, env)
              /\ Replace(FLet(Head(Top.bindings).var, Top.env, Tail(Top.bindings), Top.body))
    /\ UNCHANGED <<prog, out>>
ReturnLet ==
    /\ To("Let")
    /\ LET env == Extend(Top.env, Top.var, ctl.v)
       IN  \/ /\ Top.bindings = <<>>
              /\ ctl' = Descending(Top.body, env)
              /\ Pop
           \/ /\ Top.bindings # <<>>
              /\ ctl' = Descending(Head(Top.bindings).e, env)
              /\ Replace(FLet(Head(Top.bindings).var, env, Tail(Top.bindings), Top.body))
    /\ UNCHANGED <<prog, out>>

ReturnIf ==
    /\ To("If")
    /\ ctl' = IF ctl.v.t = "Bool"
              THEN Descending(IF ctl.v.b THEN Top.thn ELSE Top.els, Top.env)
              ELSE Finished(ExpectedBool("if", ctl.v))
    /\ Pop
    /\ UNCHANGED <<prog, out>>

\* One more argument; the next one, or the call, which pops its frame first
ReturnCallKeepingFrame ==
    /\ To("Call")
    /\ LET evaled == Append(Top.evaled, ctl.v)
       IN  \/ /\ Top.remaining = <<>>
              /\ ctl' = Enter(Top.f, evaled)
              /\ Replace(FLet(<<"result">>, Top.env, <<>>, Var(<<"result">>)))
           \/ /\ Top.remaining # <<>>
              /\ ctl' = Descending(Head(Top.remaining), Top.env)
              /\ Replace(FCall(Top.f, evaled, Top.env, Tail(Top.remaining)))
    /\ UNCHANGED <<prog, out>>
ReturnCall ==
    /\ To("Call")
    /\ LET evaled == Append(Top.evaled, ctl.v)
       IN  \/ /\ Top.remaining = <<>>
              /\ ctl' = Enter(Top.f, evaled)
              /\ Pop
           \/ /\ Top.remaining # <<>>
              /\ ctl' = Descending(Head(Top.remaining), Top.env)
              /\ Replace(FCall(Top.f, evaled, Top.env, Tail(Top.remaining)))
    /\ UNCHANGED <<prog, out>>

\* machine() has returned or panicked
Ended == ctl.mode \in {"Finished", "Panicked"} /\ UNCHANGED vars

Descend ==
    \/ DescendLiteral \/ DescendVar \/ DescendPrim1 \/ DescendPrim2
    \/ DescendLet \/ DescendIf \/ DescendCall

Return ==
    \/ ReturnDone \/ ReturnPrim1 \/ ReturnPrim2L \/ ReturnPrim2R
    \/ ReturnLet \/ ReturnIf \/ ReturnCall

Next == Descend \/ Return \/ Ended

\* machine() is sequential code: it keeps running
Spec == Init /\ [][Next]_vars /\ WF_vars(Next)

-----------------------------------------------------------------------------
(* Properties.                                                              *)

\* The expressions and values a frame holds
FrameKinds == {"Prim1", "Prim2L", "Prim2R", "If", "Let", "Call"}

EnvOK(env) == \A x \in DOMAIN env : env[x] \in Values

FrameOK(f) ==
    /\ f.fr \in FrameKinds
    /\ f.fr = "Prim2R" => f.v \in Values
    /\ f.fr \in {"Prim2L", "If", "Let", "Call"} => EnvOK(f.env)
    /\ f.fr = "Call" => \A i \in DOMAIN f.evaled : f.evaled[i] \in Values

\* Every value the machine holds anywhere, in its control, in an environment, in
\* a frame or in the output, fits into 63 bits (interp.rs:8): literals because
\* check_prog refused the others, results because snake_arith did.
ValuesFit ==
    /\ ctl.mode = "Descending" => EnvOK(ctl.env)
    /\ ctl.mode = "Returning" => ctl.v \in Values
    /\ ctl.mode = "Finished" => ctl.r \in Values \/ IsErr(ctl.r)
    /\ \A i \in DOMAIN stk : FrameOK(stk[i])
    /\ \A i \in DOMAIN out : out[i] \in Values

\* "You should catch this in the check function!" (interp.rs:324): a program that
\* passed check_prog never makes the machine panic, on a variable that is not
\* bound, a function that is not there or a call of the wrong arity.
NoPanic == ctl.mode # "Panicked"

-----------------------------------------------------------------------------
(* The inductive invariant: whatever is still to be evaluated was accepted  *)
(* in the scope of the environment that is kept for it, and a call that is  *)
(* being prepared will have as many arguments as the function takes.        *)

AcceptedIn(p, e, env) == EnvOK(env) /\ <<e, DOMAIN env, Arities(p)>> \in Accepted

CtlScoped(p, c) ==
    /\ c.mode \in {"Descending", "Returning", "Finished"}
    /\ c.mode = "Descending" => AcceptedIn(p, c.e, c.env)
    /\ c.mode = "Returning" => c.v \in Values
    /\ c.mode = "Finished" => c.r \in Values \/ IsErr(c.r)

FrameScoped(p, f) ==
    \/ f.fr = "Prim1" /\ f.op \in Prim1Ops
    \/ f.fr = "Prim2L" /\ f.op \in Prim2Ops /\ AcceptedIn(p, f.e, f.env)
    \/ f.fr = "Prim2R" /\ f.op \in Prim2Ops /\ f.v \in Values
    \/ f.fr = "If" /\ AcceptedIn(p, f.thn, f.env) /\ AcceptedIn(p, f.els, f.env)
    \/ /\ f.fr = "Let" /\ EnvOK(f.env)
       /\ LetAccepted(f.bindings, f.body, DOMAIN f.env \cup {f.var}, Arities(p))
    \/ /\ f.fr = "Call" /\ EnvOK(f.env)
       /\ f.evaled \in Seq(Values) /\ IsSeq(f.remaining)
       /\ \A i \in DOMAIN f.remaining : AcceptedIn(p, f.remaining[i], f.env)
       /\ <<f.f, Len(f.evaled) + 1 + Len(f.remaining)>> \in Arities(p)

StackScoped(p, s) == IsSeq(s) /\ \A i \in DOMAIN s : FrameScoped(p, s[i])

IInv ==
    /\ prog \in Programs
    /\ CtlScoped(prog, ctl)
    /\ StackScoped(prog, stk)
    /\ out \in Seq(Values)
=============================================================================
