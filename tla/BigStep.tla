------------------------------- MODULE BigStep -------------------------------
(***************************************************************************)
(* The direct-style interpreter that the machine of interp.rs              *)
(* defunctionalizes (interp.rs:263-269), as rules that say which           *)
(* evaluations there are, without recursion: DirectStyle computes what     *)
(* these rules allow.                                                      *)
(*                                                                         *)
(* An evaluation <<p, e, env, r, o>> says that the evaluation of e begins  *)
(* in the course of the program p and may have printed o when it comes to  *)
(* r: a value, an error, or Interrupted while it is still going on.  A     *)
(* program means the evaluations that are in every relation D that keeps   *)
(* the rules.                                                              *)
(***************************************************************************)
EXTENDS Interp

\* Not the end of an evaluation, but passed on like an error
Interrupted == [t |-> "Err", err |-> "Interrupted"]

\* The call of f when its first arguments are evaluated, and args are not
Applied(f, vs, args) == [exp |-> "Applied", f |-> f, vs |-> vs, args |-> args]

Gives(D, p, e, env, r, o) == o \in Seq(Values) /\ <<p, e, env, r, o>> \in D

Begins(D, p, e, env) == Gives(D, p, e, env, Interrupted, <<>>)

\* The evaluation of e starts with that of x, and an error there is final
First(D, p, e, x, env) ==
    /\ Begins(D, p, x, env)
    /\ \A r, o : Gives(D, p, x, env, r, o) /\ IsErr(r) => Gives(D, p, e, env, r, o)

\* When o has been printed, that of e goes on as that of e2
GoesOn(D, p, e, env, o, e2, env2) ==
    /\ Begins(D, p, e2, env2)
    /\ \A r, o2 : Gives(D, p, e2, env2, r, o2) => Gives(D, p, e, env, r, o \o o2)

\* What an operation on v comes to, and what it prints: writing may fail
Performs(op, v, r, o) ==
    IF op \in Print1
    THEN (r \in {InterpretPrim1(op, v), Interrupted} /\ o = <<v>>) \/ (r = WriteErr /\ o = <<>>)
    ELSE r = InterpretPrim1(op, v) /\ o = <<>>

EvalPrim1(D, p, e, env) ==
    /\ First(D, p, e, e.e, env)
    /\ \A v \in Values : \A o : Gives(D, p, e.e, env, v, o) =>
          \A r, o2 : Performs(e.op, v, r, o2) => Gives(D, p, e, env, r, o \o o2)

\* What both operands come to
Combined(op, v, r) == IF IsErr(r) THEN r ELSE InterpretPrim2(op, v, r)

EvalPrim2(D, p, e, env) ==
    /\ First(D, p, e, e.e1, env)
    /\ \A v \in Values : \A o : Gives(D, p, e.e1, env, v, o) =>
          /\ Begins(D, p, e.e2, env)
          /\ \A r, o2 : Gives(D, p, e.e2, env, r, o2) =>
                Gives(D, p, e, env, Combined(e.op, v, r), o \o o2)

EvalIf(D, p, e, env) ==
    /\ First(D, p, e, e.cond, env)
    /\ \A v \in Values : \A o : Gives(D, p, e.cond, env, v, o) =>
          IF v.t = "Bool"
          THEN GoesOn(D, p, e, env, o, IF v.b THEN e.thn ELSE e.els, env)
          ELSE Gives(D, p, e, env, ExpectedBool("if", v), o)

\* The bindings in their order, and then the body
EvalLet(D, p, e, env) ==
    IF e.bindings = <<>> THEN GoesOn(D, p, e, env, <<>>, e.body, env)
    ELSE LET b == Head(e.bindings)
         IN  /\ First(D, p, e, b.e, env)
             /\ \A v \in Values : \A o : Gives(D, p, b.e, env, v, o) =>
                   GoesOn(D, p, e, env, o, Let(Tail(e.bindings), e.body), Extend(env, b.var, v))

\* The parameters have the values of the arguments
Binds(env, params, vs) ==
    /\ env \in [{params[i] : i \in DOMAIN params} -> Values]
    /\ Len(params) = Len(vs)
    /\ \A i \in DOMAIN params : env[params[i]] = vs[i]

\* The arguments from the left, and then the body of the function
EvalApplied(D, p, e, env) ==
    IF e.args = <<>>
    THEN \A i \in DOMAIN p.funs : \A bound :
            p.funs[i].name = e.f /\ Binds(bound, p.funs[i].params, e.vs) =>
                GoesOn(D, p, e, env, <<>>, p.funs[i].body, bound)
    ELSE /\ First(D, p, e, Head(e.args), env)
         /\ \A v \in Values : \A o : Gives(D, p, Head(e.args), env, v, o) =>
               GoesOn(D, p, e, env, o, Applied(e.f, Append(e.vs, v), Tail(e.args)), env)

EvalRule(D, p, e, env) ==
    /\ e.exp = "Num" => Gives(D, p, e, env, NumV(e.n), <<>>)
    /\ e.exp = "Bool" => Gives(D, p, e, env, BoolV(e.b), <<>>)
    /\ e.exp = "Var" /\ e.x \in DOMAIN env => Gives(D, p, e, env, env[e.x], <<>>)
    /\ e.exp = "Prim1" => EvalPrim1(D, p, e, env)
    /\ e.exp = "Prim2" => EvalPrim2(D, p, e, env)
    /\ e.exp = "If" => EvalIf(D, p, e, env)
    /\ e.exp = "Let" => EvalLet(D, p, e, env)
    /\ e.exp = "Call" => GoesOn(D, p, e, env, <<>>, Applied(e.f, <<>>, e.args), env)
    /\ e.exp = "Applied" => EvalApplied(D, p, e, env)

\* A program begins with its main expression, and the rules hold of all that begins
Rules(D) ==
    \A p \in Programs :
        /\ Begins(D, p, p.main, EmptyEnv)
        /\ \A e, env : Begins(D, p, e, env) => EvalRule(D, p, e, env)

Evaluates(p, r, o) == \A D : Rules(D) => Gives(D, p, p.main, EmptyEnv, r, o)

\* The machine prints what the direct-style interpreter prints, in its order, and
\* comes to the same value or error, or to the error of a print that failed
\* (interp.rs:263-269): at every moment what it has printed is what an evaluation
\* of the program may have printed.
Evaluated ==
    /\ Evaluates(prog, Interrupted, out)
    /\ ctl.mode = "Finished" => Evaluates(prog, ctl.r, out)

-----------------------------------------------------------------------------
(* The inductive invariant: for every frame there is a set of results that  *)
(* would be right there, G[k] for the frame k from the bottom; given one of *)
(* them, the frame goes on to what is right for the frame below.  A result  *)
(* is paired with all that has been printed until then.                     *)

\* Whatever e comes to is right
Owes(D, p, e, env, o, R) ==
    /\ Begins(D, p, e, env)
    /\ \A r, o2 : Gives(D, p, e, env, r, o2) => <<r, o \o o2>> \in R

\* Whatever the frame comes to is right, when it is given v after o was printed
Serves(D, p, f, v, o, R) ==
    /\ f.fr = "Prim1" => \A r, o2 : Performs(f.op, v, r, o2) => <<r, o \o o2>> \in R
    /\ f.fr = "Prim2L" =>
          /\ Begins(D, p, f.e, f.env)
          /\ \A r, o2 : Gives(D, p, f.e, f.env, r, o2) => <<Combined(f.op, v, r), o \o o2>> \in R
    /\ f.fr = "Prim2R" => <<InterpretPrim2(f.op, f.v, v), o>> \in R
    /\ f.fr = "If" =>
          IF v.t = "Bool" THEN Owes(D, p, IF v.b THEN f.thn ELSE f.els, f.env, o, R)
          ELSE <<ExpectedBool("if", v), o>> \in R
    /\ f.fr = "Let" => Owes(D, p, Let(f.bindings, f.body), Extend(f.env, f.var, v), o, R)
    /\ f.fr = "Call" => Owes(D, p, Applied(f.f, Append(f.evaled, v), f.remaining), f.env, o, R)

StackServes(D, p, s, G) ==
    /\ \A r, o : <<r, o>> \in G[0] => Gives(D, p, p.main, EmptyEnv, r, o)
    /\ \A k \in 0 .. Len(s) : \A r, o : <<r, o>> \in G[k] /\ IsErr(r) => <<r, o>> \in G[0]
    /\ \A k \in 1 .. Len(s) : \A v \in Values : \A o :
          <<v, o>> \in G[k] => Serves(D, p, s[k], v, o, G[k - 1])

CtlServes(D, p, c, o, R, Whole) ==
    /\ <<Interrupted, o>> \in Whole
    /\ c.mode = "Descending" => Owes(D, p, c.e, c.env, o, R)
    /\ c.mode = "Returning" => <<c.v, o>> \in R
    /\ c.mode = "Finished" => <<c.r, o>> \in Whole

BigStepIInv ==
    \A D : Rules(D) =>
        \E G : StackServes(D, prog, stk, G) /\ CtlServes(D, prog, ctl, out, G[Len(stk)], G[0])
=============================================================================
