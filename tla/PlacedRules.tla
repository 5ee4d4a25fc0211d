----------------------------- MODULE PlacedRules -----------------------------
(***************************************************************************)
(* The evaluation of a sequential program whose local variables live in    *)
(* places, the way compile_with_env reads and writes them                  *)
(* (src/src/compile.rs:1178-1224, 1444-1482), as rules that say which      *)
(* evaluations there are: Placement computes what these rules allow, and   *)
(* BigStep has the rules without places.                                   *)
(*                                                                         *)
(* <<e, frame, st, r, o, st2>> says that the evaluation of e begins in     *)
(* that frame with the places st, and may have printed o and left st2 when *)
(* it comes to r, which is Interrupted while it is still going on.         *)
(***************************************************************************)
EXTENDS BigStep, Analysis

PGives(P, e, frame, st, r, o, st2) == <<e, frame, st, r, o, st2>> \in P

PBegins(P, e, frame, st) == PGives(P, e, frame, st, Interrupted, <<>>, st)

PlacedImm(P, e, frame, st) == PGives(P, e, frame, st, Operand(e, frame, st), <<>>, st)

PlacedPrim1(P, e, frame, st) ==
    \A r, o : Performs(e.op, Operand(e.e, frame, st), r, o) => PGives(P, e, frame, st, r, o, st)

PlacedPrim2(P, e, frame, st) ==
    PGives(P, e, frame, st,
           InterpretPrim2(e.op, Operand(e.e1, frame, st), Operand(e.e2, frame, st)), <<>>, st)

PlacedIf(P, e, frame, st) ==
    LET v == Operand(e.cond, frame, st)
        branch == IF v.b THEN e.thn ELSE e.els
    IN  IF v.t # "Bool" THEN PGives(P, e, frame, st, ExpectedBool("if", v), <<>>, st)
        ELSE /\ PBegins(P, branch, frame, st)
             /\ \A r, o, st2 : PGives(P, branch, frame, st, r, o, st2) =>
                   PGives(P, e, frame, st, r, o, st2)

\* The value of the bound expression is written to the place of the variable
PlacedLet(P, e, frame, st) ==
    LET b == e.bindings[1]
    IN  /\ PBegins(P, b.e, frame, st)
        /\ \A r, o, st2 : PGives(P, b.e, frame, st, r, o, st2) =>
              IF IsErr(r) THEN PGives(P, e, frame, st, r, o, st2)
              ELSE LET st3 == Extend(st2, frame.lcl[b.var], r)
                   IN  /\ PBegins(P, e.body, frame, st3)
                       /\ \A r2, o2, st4 : PGives(P, e.body, frame, st3, r2, o2, st4) =>
                             PGives(P, e, frame, st, r2, o \o o2, st4)

\* The frame of a call: no place has been written yet
Entered(p, lcls, i, vs) == Frame(lcls[i], ParamEnv(p.funs[i].params, vs))

\* The places of the caller are not the callee's
PlacedCall(P, p, lcls, e, frame, st) ==
    LET vs == [k \in DOMAIN e.args |-> Operand(e.args[k], frame, st)]
    IN  \A i \in DOMAIN p.funs : p.funs[i].name = e.f =>
           LET body == p.funs[i].body
               inside == Entered(p, lcls, i, vs)
           IN  /\ PBegins(P, body, inside, EmptyStore)
               /\ \A r, o, st2 : PGives(P, body, inside, EmptyStore, r, o, st2) =>
                     PGives(P, e, frame, st, r, o, st)

PlacedRule(P, p, lcls, e, frame, st) ==
    /\ Immediate(e) => PlacedImm(P, e, frame, st)
    /\ e.exp = "Prim1" => PlacedPrim1(P, e, frame, st)
    /\ e.exp = "Prim2" => PlacedPrim2(P, e, frame, st)
    /\ e.exp = "If" => PlacedIf(P, e, frame, st)
    /\ e.exp = "Let" => PlacedLet(P, e, frame, st)
    /\ e.exp = "Call" => PlacedCall(P, p, lcls, e, frame, st)

MainFrame(p, lcls) == Frame(lcls[Len(p.funs) + 1], EmptyEnv)

\* P keeps the rules of the program p, where lcls has the places of every function
\* and, last, of main
Keeps(P, p, lcls) ==
    /\ PBegins(P, p.main, MainFrame(p, lcls), EmptyStore)
    /\ \A e, frame, st : PBegins(P, e, frame, st) => PlacedRule(P, p, lcls, e, frame, st)

Least(P, p, lcls) == Keeps(P, p, lcls) /\ \A P2 : Keeps(P2, p, lcls) => P \subseteq P2

\* With its variables in their places, p may come to r with o printed
PlacedEvaluates(p, lcls, r, o) ==
    \E P : Least(P, p, lcls)
           /\ \E st : PGives(P, p.main, MainFrame(p, lcls), EmptyStore, r, o, st)

\* Nothing is lost by sharing places: whatever p comes to in the places it was
\* given, it comes to without them (compile.rs:902-989).
PlacedSoundly(p, lcls) ==
    \A r, o : PlacedEvaluates(p, lcls, r, o) => Evaluates(p, r, o)

-----------------------------------------------------------------------------
(* The argument: what an evaluation in places may come to is right for      *)
(* every environment that the places agree with.                            *)

InPlace(x, v, frame, st) == frame.lcl[x] \in DOMAIN st /\ st[frame.lcl[x]] = v

\* What can be read in the places and from the caller is what env says
Agrees(a, env, frame, st) ==
    /\ DOMAIN frame.lcl = Vertices(a.graph) /\ Proper(frame.lcl, a.graph)
    /\ \A x \in a.params : x \in DOMAIN env /\ frame.args[x] = env[x]
    /\ \A x \in a.live : x \in DOMAIN env /\ InPlace(x, env[x], frame, st)
    /\ \A c \in a.equivs : \A x, y \in c \cap DOMAIN env : env[x] = env[y]

\* A value leaves what is live afterwards in its place
Leaves(a, env, frame, r, st2) ==
    IsErr(r) \/ /\ r \in Values
                /\ a.e.exp = "Var" => r = env[a.e.x]
                /\ \A x \in a.out : x \in DOMAIN env /\ InPlace(x, env[x], frame, st2)

Right(D, p, A, e, frame, st, r, o, st2) ==
    \A a \in A : \A env :
        a.e = e /\ Agrees(a, env, frame, st) /\ AcceptedIn(p, e, env) /\ Begins(D, p, e, env) =>
            Gives(D, p, e, env, r, o) /\ Leaves(a, env, frame, r, st2)
=============================================================================
