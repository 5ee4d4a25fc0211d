----------------------------- MODULE DirectStyle -----------------------------
(***************************************************************************)
(* The direct-style interpreter that the abstract machine of interp.rs     *)
(* defunctionalizes (src/src/interp.rs:263-269): what an expression means, *)
(* by recursion over it.  It is the reference that the machine, and every  *)
(* pass of the compiler, is compared with.                                 *)
(*                                                                         *)
(* The meaning of a program is what it prints and how it ends.  Calls use  *)
(* up fuel; running out of it stands for not ending.                       *)
(***************************************************************************)
EXTENDS Snake

Means(r, printed) == [r |-> r, out |-> printed]

\* Neither a value nor an InterpErr
OutOfFuel == [t |-> "Err", err |-> "OutOfFuel"]

\* First m, and then what follows from its value; an error is final
Then(m, Rest(_)) ==
    IF IsErr(m.r) THEN m
    ELSE LET m2 == Rest(m.r) IN Means(m2.r, m.out \o m2.out)

Bind(env, x, v) == [y \in DOMAIN env \cup {x} |-> IF y = x THEN v ELSE env[y]]

\* Eval(e, env, funs, fuel), where funs gives each name [params, body]
RECURSIVE Eval(_, _, _, _), EvalArgs(_, _, _, _, _)

EvalCall(f, vs, funs, fuel) ==
    IF fuel = 0 THEN Means(OutOfFuel, <<>>)
    ELSE LET d == funs[f]
         IN  Eval(d.body,
                  [x \in {d.params[i] : i \in DOMAIN d.params} |->
                      vs[CHOOSE i \in DOMAIN d.params : d.params[i] = x]],
                  funs, fuel - 1)

\* The arguments from the left, then the call
EvalArgs(e, vs, env, funs, fuel) ==
    IF Len(vs) = Len(e.args) THEN EvalCall(e.f, vs, funs, fuel)
    ELSE Then(Eval(e.args[Len(vs) + 1], env, funs, fuel),
              LAMBDA v : EvalArgs(e, Append(vs, v), env, funs, fuel))

Eval(e, env, funs, fuel) ==
    LET Sub(x) == Eval(x, env, funs, fuel)
    IN  CASE e.exp = "Num" -> Means(NumV(e.n), <<>>)
          [] e.exp = "Bool" -> Means(BoolV(e.b), <<>>)
          [] e.exp = "Var" -> Means(env[e.x], <<>>)
          [] e.exp = "Prim1" ->
                Then(Sub(e.e),
                     LAMBDA v : Means(InterpretPrim1(e.op, v),
                                      IF e.op \in Print1 THEN <<v>> ELSE <<>>))
          [] e.exp = "Prim2" ->
                Then(Sub(e.e1),
                     LAMBDA v1 : Then(Sub(e.e2),
                                      LAMBDA v2 : Means(InterpretPrim2(e.op, v1, v2), <<>>)))
          [] e.exp = "If" ->
                Then(Sub(e.cond),
                     LAMBDA v : IF v.t = "Bool" THEN Sub(IF v.b THEN e.thn ELSE e.els)
                                ELSE Means(ExpectedBool("if", v), <<>>))
          [] e.exp = "Let" ->
                IF e.bindings = <<>> THEN Sub(e.body)
                ELSE Then(Sub(Head(e.bindings).e),
                          LAMBDA v : Eval(Let(Tail(e.bindings), e.body),
                                          Bind(env, Head(e.bindings).var, v), funs, fuel))
          [] e.exp = "Call" -> EvalArgs(e, <<>>, env, funs, fuel)

NoNames == [x \in {} |-> Num(0)]

FunsOf(p) ==
    [f \in {p.funs[i].name : i \in DOMAIN p.funs} |->
        p.funs[CHOOSE i \in DOMAIN p.funs : p.funs[i].name = f]]

\* prog(): the meaning of a program
Meaning(p, fuel) == Eval(p.main, NoNames, FunsOf(p), fuel)
=============================================================================
