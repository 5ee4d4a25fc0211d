---------------------------- MODULE LoweringProofs ----------------------------
(***************************************************************************)
(* The passes before register allocation keep what a program means: every  *)
(* evaluation of what seq_prog and uniquify_names make of it, and of that  *)
(* annotated by liveness_p, is one of the program they were given.         *)
(***************************************************************************)
EXTENDS CompilerProofs, Passes

-----------------------------------------------------------------------------
(* What begins was accepted, or is the rest of what was accepted.           *)

Scoped(p, e, env) ==
    /\ EnvOK(env)
    /\ e.exp # "Let" /\ e.exp # "Applied" => AcceptedShape(e, DOMAIN env, Arities(p))
    /\ e.exp = "Let" => LetAccepted(e.bindings, e.body, DOMAIN env, Arities(p))
    /\ e.exp = "Applied" => IsSeq(e.args) /\ \A i \in DOMAIN e.args : AcceptedIn(p, e.args[i], env)

\* What was accepted is.
LEMMA AcceptedIsScoped ==
    ASSUME NEW p, NEW e, NEW env, AcceptedIn(p, e, env)
    PROVE  Scoped(p, e, env)
<1>1. AcceptedShape(e, DOMAIN env, Arities(p)) /\ EnvOK(env)
  BY ShapeOf DEF AcceptedIn
<1> QED
  BY <1>1 DEF Scoped, AcceptedShape

InScopeOnly(D) == {j \in D : j[1] \in Programs => Scoped(j[1], j[2], j[3])}

\* Membership, one evaluation at a time.
LEMMA InScopeOnlyGives ==
    ASSUME NEW D, NEW p \in Programs, NEW e, NEW env, NEW r, NEW o
    PROVE  Gives(InScopeOnly(D), p, e, env, r, o) <=> Gives(D, p, e, env, r, o) /\ Scoped(p, e, env)
<1> DEFINE j == <<p, e, env, r, o>>
<1>1. j[1] = p /\ j[2] = e /\ j[3] = env
  OBVIOUS
<1> HIDE DEF j
<1>2. j \in InScopeOnly(D) <=> j \in D /\ Scoped(p, e, env)
  BY <1>1 DEF InScopeOnly
<1> QED
  BY <1>2 DEF Gives, j

\* The parts of what is in scope are.
LEMMA ScopedParts ==
    ASSUME NEW p, NEW e, NEW env, Scoped(p, e, env)
    PROVE  /\ e.exp = "Prim1" => Scoped(p, e.e, env)
           /\ e.exp = "Prim2" => Scoped(p, e.e1, env) /\ Scoped(p, e.e2, env)
           /\ e.exp = "If" => Scoped(p, e.cond, env) /\ Scoped(p, e.thn, env) /\ Scoped(p, e.els, env)
           /\ e.exp = "Call" => Scoped(p, Applied(e.f, <<>>, e.args), env)
<1>1. e.exp # "Let" /\ e.exp # "Applied" => AcceptedShape(e, DOMAIN env, Arities(p))
  BY DEF Scoped
<1>2. \A x : <<x, DOMAIN env, Arities(p)>> \in Accepted => Scoped(p, x, env) /\ AcceptedIn(p, x, env)
  BY AcceptedIsScoped DEF Scoped, AcceptedIn
<1>3. e.exp = "Prim1" => Scoped(p, e.e, env)
  BY <1>1, <1>2 DEF AcceptedShape
<1>4. e.exp = "Prim2" => Scoped(p, e.e1, env) /\ Scoped(p, e.e2, env)
  BY <1>1, <1>2 DEF AcceptedShape
<1>5. e.exp = "If" => Scoped(p, e.cond, env) /\ Scoped(p, e.thn, env) /\ Scoped(p, e.els, env)
  BY <1>1, <1>2 DEF AcceptedShape
<1>6. ASSUME e.exp = "Call" PROVE Scoped(p, Applied(e.f, <<>>, e.args), env)
  <2> DEFINE c == Applied(e.f, <<>>, e.args)
  <2>1. IsSeq(e.args) /\ \A i \in DOMAIN e.args : AcceptedIn(p, e.args[i], env)
    BY <1>1, <1>2, <1>6 DEF AcceptedShape
  <2>2. c.exp = "Applied" /\ c.args = e.args
    BY DEF Applied
  <2> HIDE DEF c
  <2>3. Scoped(p, c, env)
    BY <2>1, <2>2 DEF Scoped
  <2> QED
    BY <2>3 DEF c
<1> QED
  BY <1>3, <1>4, <1>5, <1>6

\* So are those of a let.
LEMMA ScopedLet ==
    ASSUME NEW p, NEW e, e.exp = "Let", NEW env, Scoped(p, e, env)
    PROVE  /\ IsSeq(e.bindings)
           /\ e.bindings = <<>> => Scoped(p, e.body, env)
           /\ e.bindings # <<>> =>
                 /\ Scoped(p, Head(e.bindings).e, env)
                 /\ \A v \in Values : Scoped(p, Let(Tail(e.bindings), e.body),
                                             Extend(env, Head(e.bindings).var, v))
<1>1. LetAccepted(e.bindings, e.body, DOMAIN env, Arities(p)) /\ EnvOK(env)
  BY DEF Scoped
<1>2. \A x : <<x, DOMAIN env, Arities(p)>> \in Accepted => Scoped(p, x, env)
  BY <1>1, AcceptedIsScoped DEF AcceptedIn
<1>3. IsSeq(e.bindings)
  BY <1>1 DEF LetAccepted
<1>4. e.bindings = <<>> => Scoped(p, e.body, env)
  BY <1>1, <1>2, LetWithout
<1>5. ASSUME e.bindings # <<>>
      PROVE  /\ Scoped(p, Head(e.bindings).e, env)
             /\ \A v \in Values : Scoped(p, Let(Tail(e.bindings), e.body),
                                         Extend(env, Head(e.bindings).var, v))
  <2> DEFINE b == Head(e.bindings)
             rest == Let(Tail(e.bindings), e.body)
  <2>1. /\ <<b.e, DOMAIN env, Arities(p)>> \in Accepted
        /\ LetAccepted(Tail(e.bindings), e.body, DOMAIN env \cup {b.var}, Arities(p))
    BY <1>1, <1>5, LetFirst
  <2>2. rest.exp = "Let" /\ rest.bindings = Tail(e.bindings) /\ rest.body = e.body
    BY DEF Let
  <2> HIDE DEF b, rest
  <2>3. ASSUME NEW v \in Values PROVE Scoped(p, rest, Extend(env, b.var, v))
    <3>1. /\ EnvOK(Extend(env, b.var, v))
          /\ DOMAIN Extend(env, b.var, v) = DOMAIN env \cup {b.var}
      BY <1>1, ExtendOK
    <3> QED
      BY <2>1, <2>2, <3>1 DEF Scoped
  <2> QED
    BY <1>2, <2>1, <2>3 DEF b, rest
<1> QED
  BY <1>3, <1>4, <1>5

\* And those of a call.
LEMMA ScopedApplied ==
    ASSUME NEW p \in Programs, NEW e, e.exp = "Applied", NEW env, Scoped(p, e, env)
    PROVE  /\ IsSeq(e.args)
           /\ e.args = <<>> =>
                 \A i \in DOMAIN p.funs : \A bound :
                    Binds(bound, p.funs[i].params, e.vs) => Scoped(p, p.funs[i].body, bound)
           /\ e.args # <<>> =>
                 /\ Scoped(p, Head(e.args), env)
                 /\ \A v : Scoped(p, Applied(e.f, Append(e.vs, v), Tail(e.args)), env)
<1>1. IsSeq(e.args) /\ (\A i \in DOMAIN e.args : AcceptedIn(p, e.args[i], env)) /\ EnvOK(env)
  BY DEF Scoped
<1>2. ASSUME NEW i \in DOMAIN p.funs, NEW bound, Binds(bound, p.funs[i].params, e.vs)
      PROVE  Scoped(p, p.funs[i].body, bound)
  <2>1. <<p.funs[i].body, ParamSet(p.funs[i]), Arities(p)>> \in Accepted
    BY ProgramsAssumption
  <2>2. DOMAIN bound = ParamSet(p.funs[i]) /\ EnvOK(bound)
    BY <1>2 DEF Binds, EnvOK, ParamSet
  <2>3. AcceptedIn(p, p.funs[i].body, bound)
    BY <2>1, <2>2 DEF AcceptedIn
  <2> QED
    BY <2>3, AcceptedIsScoped
<1>3. ASSUME e.args # <<>>
      PROVE  /\ Scoped(p, Head(e.args), env)
             /\ \A v : Scoped(p, Applied(e.f, Append(e.vs, v), Tail(e.args)), env)
  <2>1. /\ IsSeq(Tail(e.args)) /\ Len(e.args) >= 1 /\ Head(e.args) = e.args[1]
        /\ \A i \in DOMAIN Tail(e.args) : i + 1 \in DOMAIN e.args /\ Tail(e.args)[i] = e.args[i + 1]
    BY <1>1, <1>3, TailOfVector
  <2>2. 1 \in DOMAIN e.args
    BY <1>1, <2>1, IsSeqDomain
  <2>3. Scoped(p, Head(e.args), env)
    BY <1>1, <2>1, <2>2, AcceptedIsScoped
  <2>4. ASSUME NEW v PROVE Scoped(p, Applied(e.f, Append(e.vs, v), Tail(e.args)), env)
    <3> DEFINE c == Applied(e.f, Append(e.vs, v), Tail(e.args))
    <3>1. c.exp = "Applied" /\ c.args = Tail(e.args)
      BY DEF Applied
    <3> HIDE DEF c
    <3>2. Scoped(p, c, env)
      BY <1>1, <2>1, <3>1 DEF Scoped
    <3> QED
      BY <3>2 DEF c
  <2> QED
    BY <2>3, <2>4
<1> QED
  BY <1>1, <1>2, <1>3

\* The evaluations in scope keep every rule.
LEMMA InScopeOnlyKeeps ==
    ASSUME NEW D, Rules(D)
    PROVE  Rules(InScopeOnly(D))
<1> DEFINE X == InScopeOnly(D)
<1>1. ASSUME NEW p \in Programs, NEW e, NEW env, NEW r, NEW o
      PROVE  Gives(X, p, e, env, r, o) <=> Gives(D, p, e, env, r, o) /\ Scoped(p, e, env)
  BY InScopeOnlyGives
<1> HIDE DEF X
<1>2. ASSUME NEW p \in Programs PROVE Begins(X, p, p.main, EmptyEnv)
  <2>1. DOMAIN EmptyEnv = {} /\ EnvOK(EmptyEnv)
    BY DEF EmptyEnv, EnvOK
  <2>2. AcceptedIn(p, p.main, EmptyEnv)
    BY <2>1, ProgramsAssumption DEF AcceptedIn
  <2> QED
    BY <1>1, <2>2, AcceptedIsScoped DEF Rules, Begins
<1>3. ASSUME NEW p \in Programs, NEW e, NEW env, Begins(X, p, e, env) PROVE EvalRule(X, p, e, env)
  <2>1. EvalRule(D, p, e, env) /\ Scoped(p, e, env)
    BY <1>1, <1>3, RuleAt DEF Begins
  <2>2. \A x, env2, r, o : Gives(X, p, x, env2, r, o) <=> Gives(D, p, x, env2, r, o) /\ Scoped(p, x, env2)
    BY <1>1
  <2>3. ASSUME e.exp = "Prim1" PROVE EvalPrim1(X, p, e, env)
    <3>1. Scoped(p, e.e, env) /\ EvalPrim1(D, p, e, env)
      BY <2>1, <2>3, ScopedParts DEF EvalRule
    <3> QED
      BY <2>1, <2>2, <3>1 DEF EvalPrim1, First, Begins
  <2>4. ASSUME e.exp = "Prim2" PROVE EvalPrim2(X, p, e, env)
    <3>1. Scoped(p, e.e1, env) /\ Scoped(p, e.e2, env) /\ EvalPrim2(D, p, e, env)
      BY <2>1, <2>4, ScopedParts DEF EvalRule
    <3> QED
      BY <2>1, <2>2, <3>1 DEF EvalPrim2, First, Begins
  <2>5. ASSUME e.exp = "If" PROVE EvalIf(X, p, e, env)
    <3>1. /\ Scoped(p, e.cond, env) /\ Scoped(p, e.thn, env) /\ Scoped(p, e.els, env)
          /\ EvalIf(D, p, e, env)
      BY <2>1, <2>5, ScopedParts DEF EvalRule
    <3> QED
      BY <2>1, <2>2, <3>1 DEF EvalIf, First, Begins, GoesOn
  <2>6. ASSUME e.exp = "Let" PROVE EvalLet(X, p, e, env)
    <3>1. EvalLet(D, p, e, env)
      BY <2>1, <2>6 DEF EvalRule
    <3>2. CASE e.bindings = <<>>
      <4>1. Scoped(p, e.body, env)
        BY <2>1, <2>6, <3>2, ScopedLet
      <4> QED
        BY <2>1, <2>2, <3>1, <3>2, <4>1 DEF EvalLet, GoesOn, Begins
    <3>3. CASE e.bindings # <<>>
      <4> DEFINE b == Head(e.bindings)
                 rest == Let(Tail(e.bindings), e.body)
      <4>1. Scoped(p, b.e, env) /\ \A v \in Values : Scoped(p, rest, Extend(env, b.var, v))
        BY <2>1, <2>6, <3>3, ScopedLet
      <4>2. /\ First(D, p, e, b.e, env)
            /\ \A v \in Values : \A o : Gives(D, p, b.e, env, v, o) =>
                  GoesOn(D, p, e, env, o, rest, Extend(env, b.var, v))
        BY <3>1, <3>3 DEF EvalLet
      <4> HIDE DEF b, rest
      <4>3. /\ First(X, p, e, b.e, env)
            /\ \A v \in Values : \A o : Gives(X, p, b.e, env, v, o) =>
                  GoesOn(X, p, e, env, o, rest, Extend(env, b.var, v))
        BY <2>1, <2>2, <4>1, <4>2 DEF First, GoesOn, Begins
      <4> QED
        BY <3>3, <4>3 DEF EvalLet, b, rest
    <3> QED
      BY <3>2, <3>3
  <2>7. ASSUME e.exp = "Call" PROVE GoesOn(X, p, e, env, <<>>, Applied(e.f, <<>>, e.args), env)
    <3>1. /\ Scoped(p, Applied(e.f, <<>>, e.args), env)
          /\ GoesOn(D, p, e, env, <<>>, Applied(e.f, <<>>, e.args), env)
      BY <2>1, <2>7, ScopedParts DEF EvalRule
    <3> QED
      BY <2>1, <2>2, <3>1 DEF GoesOn, Begins
  <2>8. ASSUME e.exp = "Applied" PROVE EvalApplied(X, p, e, env)
    <3>1. EvalApplied(D, p, e, env)
      BY <2>1, <2>8 DEF EvalRule
    <3>2. CASE e.args = <<>>
      <4>1. ASSUME NEW i \in DOMAIN p.funs, NEW bound, p.funs[i].name = e.f,
                   Binds(bound, p.funs[i].params, e.vs)
            PROVE  GoesOn(X, p, e, env, <<>>, p.funs[i].body, bound)
        <5>1. Scoped(p, p.funs[i].body, bound)
          BY <2>1, <2>8, <3>2, <4>1, ScopedApplied
        <5>2. GoesOn(D, p, e, env, <<>>, p.funs[i].body, bound)
          BY <3>1, <3>2, <4>1 DEF EvalApplied
        <5> QED
          BY <2>1, <2>2, <5>1, <5>2 DEF GoesOn, Begins
      <4> QED
        BY <3>2, <4>1 DEF EvalApplied
    <3>3. CASE e.args # <<>>
      <4> DEFINE x == Head(e.args)
                 rest(v) == Applied(e.f, Append(e.vs, v), Tail(e.args))
      <4>1. Scoped(p, x, env) /\ \A v : Scoped(p, rest(v), env)
        BY <2>1, <2>8, <3>3, ScopedApplied
      <4>2. /\ First(D, p, e, x, env)
            /\ \A v \in Values : \A o : Gives(D, p, x, env, v, o) =>
                  GoesOn(D, p, e, env, o, rest(v), env)
        BY <3>1, <3>3 DEF EvalApplied
      <4> HIDE DEF x, rest
      <4>3. /\ First(X, p, e, x, env)
            /\ \A v \in Values : \A o : Gives(X, p, x, env, v, o) =>
                  GoesOn(X, p, e, env, o, rest(v), env)
        BY <2>1, <2>2, <4>1, <4>2 DEF First, GoesOn, Begins
      <4> QED
        BY <3>3, <4>3 DEF EvalApplied, x, rest
    <3> QED
      BY <3>2, <3>3
  <2> QED
    BY <2>1, <2>2, <2>3, <2>4, <2>5, <2>6, <2>7, <2>8 DEF EvalRule
<1> QED
  BY <1>2, <1>3 DEF Rules, X

-----------------------------------------------------------------------------
(* Simulation.  A triple <<e, env, G>> of T says that whatever the          *)
(* evaluation of e in the course of p comes to is to be in G.               *)

\* x gives a result of G, when o has been printed before
Continues(T, G, o, x, env) ==
    \E H : <<x, env, H>> \in T /\ \A r, o2 : <<r, o2>> \in H => <<r, o \o o2>> \in G

\* x gives a result of H, and its errors are results of G
Opens(T, G, x, env, H) ==
    <<x, env, H>> \in T /\ \A r, o : <<r, o>> \in H /\ IsErr(r) => <<r, o>> \in G

\* x may give the value v
Reaches(D, p, x, env, H, v, o) ==
    v \in Values /\ o \in Seq(Values) /\ Gives(D, p, x, env, v, o) /\ <<v, o>> \in H

SimPrim1(D, p, T, e, env, G) ==
    \E H : /\ Opens(T, G, e.e, env, H)
          /\ \A v, o : Reaches(D, p, e.e, env, H, v, o) =>
                \A r, o2 : Performs(e.op, v, r, o2) => <<r, o \o o2>> \in G

SimPrim2(D, p, T, e, env, G) ==
    \E H : /\ Opens(T, G, e.e1, env, H)
          /\ \A v, o : Reaches(D, p, e.e1, env, H, v, o) =>
                \E H2 : /\ <<e.e2, env, H2>> \in T
                       /\ \A r, o2 : <<r, o2>> \in H2 => <<Combined(e.op, v, r), o \o o2>> \in G

SimIf(D, p, T, e, env, G) ==
    \E H : /\ Opens(T, G, e.cond, env, H)
          /\ \A v, o : Reaches(D, p, e.cond, env, H, v, o) =>
                IF v.t = "Bool" THEN Continues(T, G, o, IF v.b THEN e.thn ELSE e.els, env)
                ELSE <<ExpectedBool("if", v), o>> \in G

SimLet(D, p, T, e, env, G) ==
    IF e.bindings = <<>> THEN Continues(T, G, <<>>, e.body, env)
    ELSE LET b == Head(e.bindings)
         IN  \E H : /\ Opens(T, G, b.e, env, H)
                   /\ \A v, o : Reaches(D, p, b.e, env, H, v, o) =>
                         Continues(T, G, o, Let(Tail(e.bindings), e.body), Extend(env, b.var, v))

SimApplied(D, p, T, e, env, G) ==
    IF e.args = <<>>
    THEN \A i \in DOMAIN p.funs : \A bound :
            p.funs[i].name = e.f /\ Binds(bound, p.funs[i].params, e.vs) =>
                Continues(T, G, <<>>, p.funs[i].body, bound)
    ELSE \E H : /\ Opens(T, G, Head(e.args), env, H)
               /\ \A v, o : Reaches(D, p, Head(e.args), env, H, v, o) =>
                     Continues(T, G, o, Applied(e.f, Append(e.vs, v), Tail(e.args)), env)

SimRule(D, p, T, e, env, G) ==
    /\ e.exp = "Num" => <<NumV(e.n), <<>>>> \in G
    /\ e.exp = "Bool" => <<BoolV(e.b), <<>>>> \in G
    /\ e.exp = "Var" /\ e.x \in DOMAIN env => <<env[e.x], <<>>>> \in G
    /\ e.exp = "Prim1" => SimPrim1(D, p, T, e, env, G)
    /\ e.exp = "Prim2" => SimPrim2(D, p, T, e, env, G)
    /\ e.exp = "If" => SimIf(D, p, T, e, env, G)
    /\ e.exp = "Let" => SimLet(D, p, T, e, env, G)
    /\ e.exp = "Call" => Continues(T, G, <<>>, Applied(e.f, <<>>, e.args), env)
    /\ e.exp = "Applied" => SimApplied(D, p, T, e, env, G)

Simulated(D, p, T) ==
    \A e, env, G : <<e, env, G>> \in T =>
        <<Interrupted, <<>>>> \in G /\ (Begins(D, p, e, env) => SimRule(D, p, T, e, env, G))

\* The evaluations of p as T says, and all of other programs
AsSimulated(D, p, T) ==
    {j \in D : j[1] = p => \A G : <<j[2], j[3], G>> \in T => <<j[4], j[5]>> \in G}

\* Membership, one evaluation at a time.
LEMMA AsSimulatedGives ==
    ASSUME NEW D, NEW p, NEW T, NEW q, NEW e, NEW env, NEW r, NEW o
    PROVE  Gives(AsSimulated(D, p, T), q, e, env, r, o)
               <=> Gives(D, q, e, env, r, o) /\ (q = p => \A G : <<e, env, G>> \in T => <<r, o>> \in G)
<1> DEFINE j == <<q, e, env, r, o>>
<1>1. j[1] = q /\ j[2] = e /\ j[3] = env /\ j[4] = r /\ j[5] = o
  OBVIOUS
<1> HIDE DEF j
<1>2. j \in AsSimulated(D, p, T) <=> j \in D /\ (q = p => \A G : <<e, env, G>> \in T => <<r, o>> \in G)
  BY <1>1 DEF AsSimulated
<1> QED
  BY <1>2 DEF Gives, j

\* The same evaluations keep the same rule.
LEMMA SameEvaluations ==
    ASSUME NEW D, NEW X, NEW p, NEW e, NEW env, EvalRule(D, p, e, env),
           \A x, env2, r, o : Gives(X, p, x, env2, r, o) <=> Gives(D, p, x, env2, r, o)
    PROVE  EvalRule(X, p, e, env)
<1>1. /\ \A x, env2 : Begins(D, p, x, env2) => Begins(X, p, x, env2)
      /\ \A x : First(D, p, e, x, env) => First(X, p, e, x, env)
      /\ \A o, x, env2 : GoesOn(D, p, e, env, o, x, env2) => GoesOn(X, p, e, env, o, x, env2)
  BY DEF Begins, First, GoesOn
<1>2. e.exp = "Prim1" => EvalPrim1(X, p, e, env)
  BY <1>1 DEF EvalRule, EvalPrim1
<1>3. e.exp = "Prim2" => EvalPrim2(X, p, e, env)
  BY <1>1 DEF EvalRule, EvalPrim2
<1>4. e.exp = "If" => EvalIf(X, p, e, env)
  BY <1>1 DEF EvalRule, EvalIf
<1>5. e.exp = "Let" => EvalLet(X, p, e, env)
  BY <1>1 DEF EvalRule, EvalLet
<1>6. e.exp = "Applied" => EvalApplied(X, p, e, env)
  BY <1>1 DEF EvalRule, EvalApplied
<1> QED
  BY <1>1, <1>2, <1>3, <1>4, <1>5, <1>6 DEF EvalRule

\* A simulation keeps the rules.
LEMMA SimulationKeeps ==
    ASSUME NEW D, Rules(D), NEW p \in Programs, NEW T, Simulated(D, p, T)
    PROVE  Rules(AsSimulated(D, p, T))
<1> DEFINE X == AsSimulated(D, p, T)
<1>1. ASSUME NEW q, NEW e, NEW env, NEW r, NEW o
      PROVE  Gives(X, q, e, env, r, o)
                 <=> Gives(D, q, e, env, r, o) /\ (q = p => \A G : <<e, env, G>> \in T => <<r, o>> \in G)
  BY AsSimulatedGives
<1> HIDE DEF X
<1>2. ASSUME NEW q, NEW e, NEW env, Begins(D, q, e, env) PROVE Begins(X, q, e, env)
  BY <1>1, <1>2 DEF Begins, Simulated
<1>3. ASSUME NEW e, NEW env, Begins(D, p, e, env), EvalRule(D, p, e, env) PROVE EvalRule(X, p, e, env)
  <2>1. \A x, env2 : Begins(D, p, x, env2) => Begins(X, p, x, env2)
    BY <1>2
  <2>2. \A x, env2, r, o : Gives(X, p, x, env2, r, o) =>
            Gives(D, p, x, env2, r, o) /\ o \in Seq(Values)
            /\ \A G : <<x, env2, G>> \in T => <<r, o>> \in G
    BY <1>1 DEF Gives
  <2>3. ASSUME NEW r, NEW o, Gives(D, p, e, env, r, o), \A G : <<e, env, G>> \in T => <<r, o>> \in G
        PROVE  Gives(X, p, e, env, r, o)
    BY <1>1, <2>3
  <2>4. ASSUME NEW G, <<e, env, G>> \in T PROVE SimRule(D, p, T, e, env, G)
    BY <1>3, <2>4 DEF Simulated
  <2>5. ASSUME NEW x, First(D, p, e, x, env),
               \A G : <<e, env, G>> \in T => \E H : Opens(T, G, x, env, H)
        PROVE  First(X, p, e, x, env)
    <3>1. ASSUME NEW r, NEW o, Gives(X, p, x, env, r, o), IsErr(r) PROVE Gives(X, p, e, env, r, o)
      BY <2>2, <2>3, <2>5, <3>1 DEF First, Opens
    <3> QED
      BY <2>1, <2>5, <3>1 DEF First
  <2>6. ASSUME NEW o, NEW x, NEW env2, GoesOn(D, p, e, env, o, x, env2),
               \A G : <<e, env, G>> \in T => Continues(T, G, o, x, env2)
        PROVE  GoesOn(X, p, e, env, o, x, env2)
    <3>1. ASSUME NEW r, NEW o2, Gives(X, p, x, env2, r, o2) PROVE Gives(X, p, e, env, r, o \o o2)
      BY <2>2, <2>3, <2>6, <3>1 DEF GoesOn, Continues
    <3> QED
      BY <2>1, <2>6, <3>1 DEF GoesOn
  <2>7. ASSUME e.exp = "Num" PROVE Gives(X, p, e, env, NumV(e.n), <<>>)
    BY <1>3, <2>3, <2>4, <2>7 DEF EvalRule, SimRule
  <2>8. ASSUME e.exp = "Bool" PROVE Gives(X, p, e, env, BoolV(e.b), <<>>)
    BY <1>3, <2>3, <2>4, <2>8 DEF EvalRule, SimRule
  <2>9. ASSUME e.exp = "Var", e.x \in DOMAIN env PROVE Gives(X, p, e, env, env[e.x], <<>>)
    BY <1>3, <2>3, <2>4, <2>9 DEF EvalRule, SimRule
  <2>10. ASSUME e.exp = "Prim1" PROVE EvalPrim1(X, p, e, env)
    <3>1. EvalPrim1(D, p, e, env) /\ \A G : <<e, env, G>> \in T => SimPrim1(D, p, T, e, env, G)
      BY <1>3, <2>4, <2>10 DEF EvalRule, SimRule
    <3>2. First(X, p, e, e.e, env)
      BY <2>5, <3>1 DEF EvalPrim1, SimPrim1
    <3>3. ASSUME NEW v \in Values, NEW o, Gives(X, p, e.e, env, v, o), NEW r, NEW o2, Performs(e.op, v, r, o2)
          PROVE  Gives(X, p, e, env, r, o \o o2)
      <4>1. Gives(D, p, e, env, r, o \o o2)
        BY <2>2, <3>1, <3>3 DEF EvalPrim1
      <4>2. ASSUME NEW G, <<e, env, G>> \in T PROVE <<r, o \o o2>> \in G
        BY <2>2, <3>1, <3>3, <4>2 DEF SimPrim1, Opens, Reaches
      <4> QED
        BY <2>3, <4>1, <4>2
    <3> QED
      BY <3>2, <3>3 DEF EvalPrim1
  <2>11. ASSUME e.exp = "Prim2" PROVE EvalPrim2(X, p, e, env)
    <3>1. EvalPrim2(D, p, e, env) /\ \A G : <<e, env, G>> \in T => SimPrim2(D, p, T, e, env, G)
      BY <1>3, <2>4, <2>11 DEF EvalRule, SimRule
    <3>2. First(X, p, e, e.e1, env)
      BY <2>5, <3>1 DEF EvalPrim2, SimPrim2
    <3>3. ASSUME NEW v \in Values, NEW o, Gives(X, p, e.e1, env, v, o)
          PROVE  /\ Begins(X, p, e.e2, env)
                 /\ \A r, o2 : Gives(X, p, e.e2, env, r, o2) =>
                       Gives(X, p, e, env, Combined(e.op, v, r), o \o o2)
      <4>1. /\ Begins(X, p, e.e2, env)
            /\ \A r, o2 : Gives(D, p, e.e2, env, r, o2) =>
                  Gives(D, p, e, env, Combined(e.op, v, r), o \o o2)
        BY <2>1, <2>2, <3>1, <3>3 DEF EvalPrim2
      <4>2. ASSUME NEW r, NEW o2, Gives(X, p, e.e2, env, r, o2), NEW G, <<e, env, G>> \in T
            PROVE  <<Combined(e.op, v, r), o \o o2>> \in G
        <5>1. PICK H2 : /\ <<e.e2, env, H2>> \in T
                        /\ \A r3, o3 : <<r3, o3>> \in H2 => <<Combined(e.op, v, r3), o \o o3>> \in G
          BY <2>2, <3>1, <3>3, <4>2 DEF SimPrim2, Opens, Reaches
        <5> QED
          BY <2>2, <4>2, <5>1
      <4> QED
        BY <2>2, <2>3, <4>1, <4>2
    <3> QED
      BY <3>2, <3>3 DEF EvalPrim2
  <2>12. ASSUME e.exp = "If" PROVE EvalIf(X, p, e, env)
    <3>1. EvalIf(D, p, e, env) /\ \A G : <<e, env, G>> \in T => SimIf(D, p, T, e, env, G)
      BY <1>3, <2>4, <2>12 DEF EvalRule, SimRule
    <3>2. First(X, p, e, e.cond, env)
      BY <2>5, <3>1 DEF EvalIf, SimIf
    <3>3. ASSUME NEW v \in Values, NEW o, Gives(X, p, e.cond, env, v, o), NEW G, <<e, env, G>> \in T
          PROVE  IF v.t = "Bool" THEN Continues(T, G, o, IF v.b THEN e.thn ELSE e.els, env)
                 ELSE <<ExpectedBool("if", v), o>> \in G
      BY <2>2, <3>1, <3>3 DEF SimIf, Opens, Reaches
    <3>4. ASSUME NEW v \in Values, NEW o, Gives(X, p, e.cond, env, v, o)
          PROVE  IF v.t = "Bool" THEN GoesOn(X, p, e, env, o, IF v.b THEN e.thn ELSE e.els, env)
                 ELSE Gives(X, p, e, env, ExpectedBool("if", v), o)
      <4>1. IF v.t = "Bool" THEN GoesOn(D, p, e, env, o, IF v.b THEN e.thn ELSE e.els, env)
            ELSE Gives(D, p, e, env, ExpectedBool("if", v), o)
        BY <2>2, <3>1, <3>4 DEF EvalIf
      <4>2. CASE v.t = "Bool"
        BY <2>6, <3>3, <3>4, <4>1, <4>2
      <4>3. CASE v.t # "Bool"
        BY <2>3, <3>3, <3>4, <4>1, <4>3
      <4> QED
        BY <4>2, <4>3
    <3> QED
      BY <3>2, <3>4 DEF EvalIf
  <2>13. ASSUME e.exp = "Let" PROVE EvalLet(X, p, e, env)
    <3>1. EvalLet(D, p, e, env) /\ \A G : <<e, env, G>> \in T => SimLet(D, p, T, e, env, G)
      BY <1>3, <2>4, <2>13 DEF EvalRule, SimRule
    <3>2. CASE e.bindings = <<>>
      <4>1. GoesOn(X, p, e, env, <<>>, e.body, env)
        BY <2>6, <3>1, <3>2 DEF EvalLet, SimLet
      <4> QED
        BY <3>2, <4>1 DEF EvalLet
    <3>3. CASE e.bindings # <<>>
      <4> DEFINE b == Head(e.bindings)
                 rest == Let(Tail(e.bindings), e.body)
      <4>1. /\ First(D, p, e, b.e, env)
            /\ \A v \in Values : \A o : Gives(D, p, b.e, env, v, o) =>
                  GoesOn(D, p, e, env, o, rest, Extend(env, b.var, v))
            /\ \A G : <<e, env, G>> \in T =>
                  \E H : /\ Opens(T, G, b.e, env, H)
                        /\ \A v, o : Reaches(D, p, b.e, env, H, v, o) =>
                              Continues(T, G, o, rest, Extend(env, b.var, v))
        BY <3>1, <3>3 DEF EvalLet, SimLet
      <4> HIDE DEF b, rest
      <4>2. First(X, p, e, b.e, env)
        BY <2>5, <4>1
      <4>3. ASSUME NEW v \in Values, NEW o, Gives(X, p, b.e, env, v, o)
            PROVE  GoesOn(X, p, e, env, o, rest, Extend(env, b.var, v))
        <5>1. ASSUME NEW G, <<e, env, G>> \in T PROVE Continues(T, G, o, rest, Extend(env, b.var, v))
          BY <2>2, <4>1, <4>3, <5>1 DEF Opens, Reaches
        <5>2. GoesOn(D, p, e, env, o, rest, Extend(env, b.var, v))
          BY <2>2, <4>1, <4>3
        <5> QED
          BY <2>6, <5>1, <5>2
      <4> QED
        BY <3>3, <4>2, <4>3 DEF EvalLet, b, rest
    <3> QED
      BY <3>2, <3>3
  <2>14. ASSUME e.exp = "Call" PROVE GoesOn(X, p, e, env, <<>>, Applied(e.f, <<>>, e.args), env)
    BY <1>3, <2>4, <2>6, <2>14 DEF EvalRule, SimRule
  <2>15. ASSUME e.exp = "Applied" PROVE EvalApplied(X, p, e, env)
    <3>1. EvalApplied(D, p, e, env) /\ \A G : <<e, env, G>> \in T => SimApplied(D, p, T, e, env, G)
      BY <1>3, <2>4, <2>15 DEF EvalRule, SimRule
    <3>2. CASE e.args = <<>>
      <4>1. ASSUME NEW i \in DOMAIN p.funs, NEW bound, p.funs[i].name = e.f,
                   Binds(bound, p.funs[i].params, e.vs)
            PROVE  GoesOn(X, p, e, env, <<>>, p.funs[i].body, bound)
        <5>1. GoesOn(D, p, e, env, <<>>, p.funs[i].body, bound)
          BY <3>1, <3>2, <4>1 DEF EvalApplied
        <5>2. ASSUME NEW G, <<e, env, G>> \in T PROVE Continues(T, G, <<>>, p.funs[i].body, bound)
          BY <3>1, <3>2, <4>1, <5>2 DEF SimApplied
        <5> QED
          BY <2>6, <5>1, <5>2
      <4> QED
        BY <3>2, <4>1 DEF EvalApplied
    <3>3. CASE e.args # <<>>
      <4> DEFINE x == Head(e.args)
                 rest(v) == Applied(e.f, Append(e.vs, v), Tail(e.args))
      <4>1. /\ First(D, p, e, x, env)
            /\ \A v \in Values : \A o : Gives(D, p, x, env, v, o) =>
                  GoesOn(D, p, e, env, o, rest(v), env)
            /\ \A G : <<e, env, G>> \in T =>
                  \E H : /\ Opens(T, G, x, env, H)
                        /\ \A v, o : Reaches(D, p, x, env, H, v, o) => Continues(T, G, o, rest(v), env)
        BY <3>1, <3>3 DEF EvalApplied, SimApplied
      <4> HIDE DEF x, rest
      <4>2. First(X, p, e, x, env)
        BY <2>5, <4>1
      <4>3. ASSUME NEW v \in Values, NEW o, Gives(X, p, x, env, v, o)
            PROVE  GoesOn(X, p, e, env, o, rest(v), env)
        <5>1. ASSUME NEW G, <<e, env, G>> \in T PROVE Continues(T, G, o, rest(v), env)
          BY <2>2, <4>1, <4>3, <5>1 DEF Opens, Reaches
        <5>2. GoesOn(D, p, e, env, o, rest(v), env)
          BY <2>2, <4>1, <4>3
        <5> QED
          BY <2>6, <5>1, <5>2
      <4> QED
        BY <3>3, <4>2, <4>3 DEF EvalApplied, x, rest
    <3> QED
      BY <3>2, <3>3
  <2> QED
    BY <2>7, <2>8, <2>9, <2>10, <2>11, <2>12, <2>13, <2>14, <2>15 DEF EvalRule
<1>4. ASSUME NEW q \in Programs, NEW e, NEW env, Begins(X, q, e, env) PROVE EvalRule(X, q, e, env)
  <2>1. Begins(D, q, e, env)
    BY <1>1, <1>4 DEF Begins
  <2>2. EvalRule(D, q, e, env)
    BY <2>1, RuleAt
  <2>3. CASE q = p
    BY <1>3, <2>1, <2>2, <2>3
  <2>4. CASE q # p
    BY <1>1, <2>2, <2>4, SameEvaluations
  <2> QED
    BY <2>3, <2>4
<1> QED
  BY <1>2, <1>4 DEF Rules, X

\* What a program comes to is what a simulation says.
LEMMA SimulationGives ==
    ASSUME NEW D, Rules(D), NEW p \in Programs, NEW T, Simulated(D, p, T),
           NEW G, <<p.main, EmptyEnv, G>> \in T, NEW r, NEW o, Evaluates(p, r, o)
    PROVE  <<r, o>> \in G
<1>1. Gives(AsSimulated(D, p, T), p, p.main, EmptyEnv, r, o)
  BY SimulationKeeps DEF Evaluates
<1> QED
  BY <1>1, AsSimulatedGives

-----------------------------------------------------------------------------
(* Sets of results.                                                         *)

Outcomes(D) == {j[4] : j \in D} \X Seq(Values)

\* Whatever begins, with what it may be expected to come to
Triples(D) == {j[2] : j \in D} \X {j[3] : j \in D} \X SUBSET Outcomes(D)

ResultsOf(D, p, e, env) == {q \in Outcomes(D) : Gives(D, p, e, env, q[1], q[2])}

\* G has all that e comes to
Includes(D, p, e, env, G) ==
    Begins(D, p, e, env) /\ \A r, o : Gives(D, p, e, env, r, o) => <<r, o>> \in G

\* What is to come when o has been printed
After(D, G, o) == {q \in Outcomes(D) : <<q[1], o \o q[2]>> \in G}

\* What is given is an outcome.
LEMMA GivenOutcome ==
    ASSUME NEW D, NEW p, NEW e, NEW env, NEW r, NEW o, Gives(D, p, e, env, r, o)
    PROVE  <<r, o>> \in Outcomes(D)
<1> DEFINE j == <<p, e, env, r, o>>
<1>1. j \in D /\ j[4] = r /\ o \in Seq(Values)
  BY DEF Gives
<1> HIDE DEF j
<1> QED
  BY <1>1 DEF Outcomes

\* What begins makes triples.
LEMMA BegunTriple ==
    ASSUME NEW D, NEW p, NEW e, NEW env, Begins(D, p, e, env), NEW G, G \subseteq Outcomes(D)
    PROVE  <<e, env, G>> \in Triples(D)
<1> DEFINE j == <<p, e, env, Interrupted, <<>>>>
<1>1. j \in D /\ j[2] = e /\ j[3] = env
  BY DEF Begins, Gives
<1> HIDE DEF j
<1> QED
  BY <1>1 DEF Triples

\* The results of what begins are all of them.
LEMMA ResultsIncluded ==
    ASSUME NEW D, NEW p, NEW e, NEW env
    PROVE  /\ ResultsOf(D, p, e, env) \subseteq Outcomes(D)
           /\ \A r, o : <<r, o>> \in ResultsOf(D, p, e, env) <=> Gives(D, p, e, env, r, o)
           /\ Begins(D, p, e, env) => Includes(D, p, e, env, ResultsOf(D, p, e, env))
<1>1. ASSUME NEW r, NEW o
      PROVE  <<r, o>> \in ResultsOf(D, p, e, env) <=> Gives(D, p, e, env, r, o)
  <2> DEFINE q == <<r, o>>
  <2>1. q[1] = r /\ q[2] = o
    OBVIOUS
  <2>2. Gives(D, p, e, env, r, o) => q \in Outcomes(D)
    BY GivenOutcome
  <2> HIDE DEF q
  <2>3. q \in ResultsOf(D, p, e, env) <=> Gives(D, p, e, env, r, o)
    BY <2>1, <2>2 DEF ResultsOf
  <2> QED
    BY <2>3 DEF q
<1>2. ResultsOf(D, p, e, env) \subseteq Outcomes(D)
  BY DEF ResultsOf
<1> QED
  BY <1>1, <1>2 DEF Includes

\* What is to come, and what it makes with what has been printed.
LEMMA AfterPrinting ==
    ASSUME NEW D, NEW G, NEW o
    PROVE  /\ After(D, G, o) \subseteq Outcomes(D)
           /\ \A r, o2 : <<r, o2>> \in After(D, G, o)
                         <=> <<r, o2>> \in Outcomes(D) /\ <<r, o \o o2>> \in G
<1>1. ASSUME NEW r, NEW o2
      PROVE  <<r, o2>> \in After(D, G, o) <=> <<r, o2>> \in Outcomes(D) /\ <<r, o \o o2>> \in G
  <2> DEFINE q == <<r, o2>>
  <2>1. q[1] = r /\ q[2] = o2
    OBVIOUS
  <2> HIDE DEF q
  <2>2. q \in After(D, G, o) <=> q \in Outcomes(D) /\ <<r, o \o o2>> \in G
    BY <2>1 DEF After
  <2> QED
    BY <2>2 DEF q
<1> QED
  BY <1>1 DEF After

\* Going on with all that is to come.
LEMMA GoesOnWithin ==
    ASSUME NEW D, NEW p, NEW e, NEW env, NEW G, Includes(D, p, e, env, G),
           NEW o, NEW x, NEW env2, GoesOn(D, p, e, env, o, x, env2)
    PROVE  Includes(D, p, x, env2, After(D, G, o))
<1>1. ASSUME NEW r, NEW o2, Gives(D, p, x, env2, r, o2) PROVE <<r, o2>> \in After(D, G, o)
  BY <1>1, GivenOutcome, AfterPrinting DEF GoesOn, Includes
<1> QED
  BY <1>1 DEF GoesOn, Includes

\* Continuing with all that is to come.
LEMMA ContinuesAfter ==
    ASSUME NEW D, NEW T, NEW G, NEW o, NEW x, NEW env, <<x, env, After(D, G, o)>> \in T
    PROVE  Continues(T, G, o, x, env)
<1>1. \A r, o2 : <<r, o2>> \in After(D, G, o) => <<r, o \o o2>> \in G
  BY AfterPrinting
<1> QED
  BY <1>1 DEF Continues

\* Opening with the results of what e starts with.
LEMMA OpensWith ==
    ASSUME NEW D, NEW T, NEW p, NEW e, NEW env, NEW G, Includes(D, p, e, env, G),
           NEW x, First(D, p, e, x, env), NEW x2, NEW env2, <<x2, env2, ResultsOf(D, p, x, env)>> \in T
    PROVE  Opens(T, G, x2, env2, ResultsOf(D, p, x, env))
BY ResultsIncluded DEF Opens, First, Includes

-----------------------------------------------------------------------------
(* Programs that differ in the names of variables.                          *)

LikeImm(e2, e1, ren) ==
    \/ e1.exp = "Num" /\ e2.exp = "Num" /\ e2.n = e1.n
    \/ e1.exp = "Bool" /\ e2.exp = "Bool" /\ e2.b = e1.b
    \/ e1.exp = "Var" /\ e2.exp = "Var" /\ e2.x = NameIn(ren, e1.x)

LikeArgs(as2, as1, ren) ==
    DOMAIN as2 = DOMAIN as1 /\ \A i \in DOMAIN as1 : LikeImm(as2[i], as1[i], ren)

\* In the body, x1 is called x2, and nothing else in scope is
Renames(ren, S, x2, x1, ren2, S2) ==
    /\ S \cup {x1} \subseteq S2
    /\ NameIn(ren2, x1) = x2
    /\ \A z \in S \ {x1} : NameIn(ren2, z) = NameIn(ren, z) /\ NameIn(ren, z) # x2

LikeLet(M, e2, e1, ren, S) ==
    \E x2, x1, b2, b1 :
        /\ e2.bindings = <<Binding(x2, b2)>> /\ e1.bindings = <<Binding(x1, b1)>>
        /\ <<b2, b1, ren, S>> \in M
        /\ \E ren2, S2 : Renames(ren, S, x2, x1, ren2, S2) /\ <<e2.body, e1.body, ren2, S2>> \in M

\* e2 is e1 with the names of ren for the variables in S
LikeAt(M, e2, e1, ren, S) ==
    \/ LikeImm(e2, e1, ren)
    \/ e2.exp = "Prim1" /\ e1.exp = "Prim1" /\ e2.op = e1.op /\ LikeImm(e2.e, e1.e, ren)
    \/ /\ e2.exp = "Prim2" /\ e1.exp = "Prim2" /\ e2.op = e1.op
       /\ LikeImm(e2.e1, e1.e1, ren) /\ LikeImm(e2.e2, e1.e2, ren)
    \/ /\ e2.exp = "If" /\ e1.exp = "If" /\ LikeImm(e2.cond, e1.cond, ren)
       /\ <<e2.thn, e1.thn, ren, S>> \in M /\ <<e2.els, e1.els, ren, S>> \in M
    \/ e2.exp = "Call" /\ e1.exp = "Call" /\ e2.f = e1.f /\ LikeArgs(e2.args, e1.args, ren)
    \/ e2.exp = "Let" /\ e1.exp = "Let" /\ LikeLet(M, e2, e1, ren, S)

\* The bodies of p2 are those of p1 but for names, and parameters keep theirs
LikeBodies(M, p2, p1) ==
    \A i \in BodyNumbers(p1) :
        \E ren, S : /\ <<BodyOf(p2, i), BodyOf(p1, i), ren, S>> \in M
                   /\ ParamsOf(p1, i) \subseteq S /\ \A z \in S : NameIn(ren, z) = z

LikePrograms(M, p2, p1) ==
    /\ SameDecls(p2, p1) /\ LikeBodies(M, p2, p1)
    /\ \A e2, e1, ren, S : <<e2, e1, ren, S>> \in M => LikeAt(M, e2, e1, ren, S)

\* As in M, or in the course of a let or of a call
Like(M, e2, e1, ren, S) ==
    \/ LikeAt(M, e2, e1, ren, S)
    \/ /\ e2.exp = "Let" /\ e1.exp = "Let" /\ e2.bindings = <<>> /\ e1.bindings = <<>>
       /\ LikeAt(M, e2.body, e1.body, ren, S)
    \/ /\ e2.exp = "Applied" /\ e1.exp = "Applied" /\ e2.f = e1.f /\ e2.vs = e1.vs
       /\ LikeArgs(e2.args, e1.args, ren)

\* The variables have the same values
EnvLike(env2, env1, ren, S) ==
    /\ DOMAIN env1 \subseteq S
    /\ \A z \in DOMAIN env1 : NameIn(ren, z) \in DOMAIN env2 /\ env2[NameIn(ren, z)] = env1[z]

Renamed(M, e2, env2, e1, env1) == \E ren, S : Like(M, e2, e1, ren, S) /\ EnvLike(env2, env1, ren, S)

\* What p2 begins is to come to what p1 comes to
RenamedTriples(D, M, p) ==
    {t \in Triples(D) : \E e1, env1 : /\ Renamed(M, t[1], t[2], e1, env1)
                                     /\ Includes(D, p, e1, env1, t[3])}

\* Membership.
LEMMA RenamedTriple ==
    ASSUME NEW D, NEW M, NEW p, NEW e2, NEW env2, NEW G
    PROVE  <<e2, env2, G>> \in RenamedTriples(D, M, p)
               <=> /\ <<e2, env2, G>> \in Triples(D)
                   /\ \E e1, env1 : Renamed(M, e2, env2, e1, env1) /\ Includes(D, p, e1, env1, G)
<1> DEFINE t == <<e2, env2, G>>
<1>1. t[1] = e2 /\ t[2] = env2 /\ t[3] = G
  OBVIOUS
<1> HIDE DEF t
<1>2. t \in RenamedTriples(D, M, p)
          <=> /\ t \in Triples(D)
              /\ \E e1, env1 : Renamed(M, e2, env2, e1, env1) /\ Includes(D, p, e1, env1, G)
  BY <1>1 DEF RenamedTriples
<1> QED
  BY <1>2 DEF t

\* A part that begins on both sides, with its results.
LEMMA RenamedOpens ==
    ASSUME NEW D, NEW M, NEW p2, NEW p1, NEW e1, NEW env1, NEW G, Includes(D, p1, e1, env1, G),
           NEW x1, First(D, p1, e1, x1, env1),
           NEW x2, NEW env2, Begins(D, p2, x2, env2), Renamed(M, x2, env2, x1, env1)
    PROVE  Opens(RenamedTriples(D, M, p1), G, x2, env2, ResultsOf(D, p1, x1, env1))
<1> DEFINE H == ResultsOf(D, p1, x1, env1)
<1>1. H \subseteq Outcomes(D) /\ Includes(D, p1, x1, env1, H)
  BY ResultsIncluded DEF First
<1>2. <<x2, env2, H>> \in RenamedTriples(D, M, p1)
  BY <1>1, BegunTriple, RenamedTriple
<1> QED
  BY <1>2, OpensWith

\* What both sides go on with.
LEMMA RenamedContinues ==
    ASSUME NEW D, NEW M, NEW p2, NEW p1, NEW e1, NEW env1, NEW G, Includes(D, p1, e1, env1, G),
           NEW o, NEW x1, NEW env3, GoesOn(D, p1, e1, env1, o, x1, env3),
           NEW x2, NEW env2, Begins(D, p2, x2, env2), Renamed(M, x2, env2, x1, env3)
    PROVE  Continues(RenamedTriples(D, M, p1), G, o, x2, env2)
<1> DEFINE H == After(D, G, o)
<1>1. H \subseteq Outcomes(D) /\ Includes(D, p1, x1, env3, H)
  BY AfterPrinting, GoesOnWithin
<1>2. <<x2, env2, H>> \in RenamedTriples(D, M, p1)
  BY <1>1, BegunTriple, RenamedTriple
<1> QED
  BY <1>2, ContinuesAfter

\* What the proofs by cases know: the evaluations D, and e1 and e2 that begin in them.
AllInScope(D, p2, p1) ==
    /\ Rules(D) /\ p2 \in Programs /\ p1 \in Programs
    /\ \A p \in Programs : \A e, env : Begins(D, p, e, env) => Scoped(p, e, env)

BothBegin(D, p2, p1, e2, env2, e1, env1, G) ==
    /\ AllInScope(D, p2, p1)
    /\ EvalRule(D, p2, e2, env2) /\ Scoped(p2, e2, env2)
    /\ EvalRule(D, p1, e1, env1) /\ Scoped(p1, e1, env1)
    /\ Includes(D, p1, e1, env1, G)

\* They are what begins.
LEMMA BegunOnBothSides ==
    ASSUME NEW D, NEW p2, NEW p1, AllInScope(D, p2, p1), NEW e2, NEW env2, Begins(D, p2, e2, env2),
           NEW e1, NEW env1, NEW G, Includes(D, p1, e1, env1, G)
    PROVE  BothBegin(D, p2, p1, e2, env2, e1, env1, G)
BY RuleAt DEF BothBegin, AllInScope, Includes

\* Immediate expressions that are alike.
LEMMA LikeImmRenamed ==
    ASSUME NEW M, NEW x2, NEW x1, NEW ren, LikeImm(x2, x1, ren), NEW S, NEW env2, NEW env1,
           EnvLike(env2, env1, ren, S)
    PROVE  Renamed(M, x2, env2, x1, env1)
BY DEF Renamed, Like, LikeAt

\* Members of M are alike.
LEMMA MemberRenamed ==
    ASSUME NEW M, \A e2, e1, ren, S : <<e2, e1, ren, S>> \in M => LikeAt(M, e2, e1, ren, S),
           NEW x2, NEW x1, NEW ren, NEW S, <<x2, x1, ren, S>> \in M, NEW env2, NEW env1,
           EnvLike(env2, env1, ren, S)
    PROVE  Renamed(M, x2, env2, x1, env1)
BY DEF Renamed, Like

\* An immediate expression has the same value.
LEMMA SimulatesImm ==
    ASSUME NEW D, NEW p2, NEW p1, NEW e2, NEW env2, NEW e1, NEW env1, NEW G, NEW T,
           BothBegin(D, p2, p1, e2, env2, e1, env1, G), NEW ren, NEW S, EnvLike(env2, env1, ren, S),
           LikeImm(e2, e1, ren)
    PROVE  SimRule(D, p2, T, e2, env2, G)
<1>1. CASE e1.exp = "Num" /\ e2.exp = "Num" /\ e2.n = e1.n
  BY <1>1 DEF SimRule, BothBegin, EvalRule, Includes
<1>2. CASE e1.exp = "Bool" /\ e2.exp = "Bool" /\ e2.b = e1.b
  BY <1>2 DEF SimRule, BothBegin, EvalRule, Includes
<1>3. CASE e1.exp = "Var" /\ e2.exp = "Var" /\ e2.x = NameIn(ren, e1.x)
  <2>1. e1.x \in DOMAIN env1
    BY <1>3 DEF BothBegin, Scoped, AcceptedShape
  <2>2. <<env1[e1.x], <<>>>> \in G
    BY <1>3, <2>1 DEF BothBegin, EvalRule, Includes
  <2>3. env2[e2.x] = env1[e1.x]
    BY <1>3, <2>1 DEF EnvLike
  <2> QED
    BY <1>3, <2>2, <2>3 DEF SimRule
<1> QED
  BY <1>1, <1>2, <1>3 DEF LikeImm

\* An operation on one operand.
LEMMA SimulatesPrim1 ==
    ASSUME NEW D, NEW p2, NEW p1, NEW e2, NEW env2, NEW e1, NEW env1, NEW G, NEW M,
           BothBegin(D, p2, p1, e2, env2, e1, env1, G),
           e2.exp = "Prim1", e1.exp = "Prim1", e2.op = e1.op, Renamed(M, e2.e, env2, e1.e, env1)
    PROVE  SimPrim1(D, p2, RenamedTriples(D, M, p1), e2, env2, G)
<1> DEFINE T == RenamedTriples(D, M, p1)
           H == ResultsOf(D, p1, e1.e, env1)
<1>1. EvalPrim1(D, p2, e2, env2) /\ EvalPrim1(D, p1, e1, env1) /\ Includes(D, p1, e1, env1, G)
  BY DEF BothBegin, EvalRule
<1>2. Begins(D, p2, e2.e, env2) /\ First(D, p1, e1, e1.e, env1)
  BY <1>1 DEF EvalPrim1, First
<1>3. Opens(T, G, e2.e, env2, H)
  BY <1>1, <1>2, RenamedOpens
<1>4. ASSUME NEW v, NEW o, Reaches(D, p2, e2.e, env2, H, v, o), NEW r, NEW o2, Performs(e2.op, v, r, o2)
      PROVE  <<r, o \o o2>> \in G
  <2>1. v \in Values /\ Gives(D, p1, e1.e, env1, v, o)
    BY <1>4, ResultsIncluded DEF Reaches
  <2>2. Gives(D, p1, e1, env1, r, o \o o2)
    BY <1>1, <1>4, <2>1 DEF EvalPrim1
  <2> QED
    BY <1>1, <2>2 DEF Includes
<1> HIDE DEF T, H
<1> QED
  BY <1>3, <1>4 DEF SimPrim1, T

\* And on two.
LEMMA SimulatesPrim2 ==
    ASSUME NEW D, NEW p2, NEW p1, NEW e2, NEW env2, NEW e1, NEW env1, NEW G, NEW M,
           BothBegin(D, p2, p1, e2, env2, e1, env1, G),
           e2.exp = "Prim2", e1.exp = "Prim2", e2.op = e1.op,
           Renamed(M, e2.e1, env2, e1.e1, env1), Renamed(M, e2.e2, env2, e1.e2, env1)
    PROVE  SimPrim2(D, p2, RenamedTriples(D, M, p1), e2, env2, G)
<1> DEFINE T == RenamedTriples(D, M, p1)
           H == ResultsOf(D, p1, e1.e1, env1)
           H2 == ResultsOf(D, p1, e1.e2, env1)
<1>1. EvalPrim2(D, p2, e2, env2) /\ EvalPrim2(D, p1, e1, env1) /\ Includes(D, p1, e1, env1, G)
  BY DEF BothBegin, EvalRule
<1>2. Begins(D, p2, e2.e1, env2) /\ First(D, p1, e1, e1.e1, env1)
  BY <1>1 DEF EvalPrim2, First
<1>3. Opens(T, G, e2.e1, env2, H)
  BY <1>1, <1>2, RenamedOpens
<1>4. ASSUME NEW v, NEW o, Reaches(D, p2, e2.e1, env2, H, v, o)
      PROVE  /\ <<e2.e2, env2, H2>> \in T
             /\ \A r, o2 : <<r, o2>> \in H2 => <<Combined(e2.op, v, r), o \o o2>> \in G
  <2>1. /\ v \in Values /\ Gives(D, p1, e1.e1, env1, v, o)
        /\ Gives(D, p2, e2.e1, env2, v, o)
    BY <1>4, ResultsIncluded DEF Reaches
  <2>2. Begins(D, p2, e2.e2, env2) /\ Begins(D, p1, e1.e2, env1)
    BY <1>1, <2>1 DEF EvalPrim2
  <2>3. H2 \subseteq Outcomes(D) /\ Includes(D, p1, e1.e2, env1, H2)
    BY <2>2, ResultsIncluded
  <2>4. <<e2.e2, env2, H2>> \in Triples(D)
    BY <2>2, <2>3, BegunTriple
  <2>5. <<e2.e2, env2, H2>> \in T
    BY <2>3, <2>4, RenamedTriple
  <2>6. ASSUME NEW r, NEW o2, <<r, o2>> \in H2 PROVE <<Combined(e2.op, v, r), o \o o2>> \in G
    <3>1. Gives(D, p1, e1.e2, env1, r, o2)
      BY <2>6, ResultsIncluded
    <3>2. Gives(D, p1, e1, env1, Combined(e2.op, v, r), o \o o2)
      BY <1>1, <2>1, <3>1 DEF EvalPrim2
    <3> QED
      BY <1>1, <3>2 DEF Includes
  <2> QED
    BY <2>5, <2>6
<1> HIDE DEF T, H, H2
<1> QED
  BY <1>3, <1>4 DEF SimPrim2, T

\* A condition, and the branch that it selects.
LEMMA SimulatesIf ==
    ASSUME NEW D, NEW p2, NEW p1, NEW e2, NEW env2, NEW e1, NEW env1, NEW G, NEW M,
           BothBegin(D, p2, p1, e2, env2, e1, env1, G),
           e2.exp = "If", e1.exp = "If", Renamed(M, e2.cond, env2, e1.cond, env1),
           Renamed(M, e2.thn, env2, e1.thn, env1), Renamed(M, e2.els, env2, e1.els, env1)
    PROVE  SimIf(D, p2, RenamedTriples(D, M, p1), e2, env2, G)
<1> DEFINE T == RenamedTriples(D, M, p1)
           H == ResultsOf(D, p1, e1.cond, env1)
<1>1. EvalIf(D, p2, e2, env2) /\ EvalIf(D, p1, e1, env1) /\ Includes(D, p1, e1, env1, G)
  BY DEF BothBegin, EvalRule
<1>2. Begins(D, p2, e2.cond, env2) /\ First(D, p1, e1, e1.cond, env1)
  BY <1>1 DEF EvalIf, First
<1>3. Opens(T, G, e2.cond, env2, H)
  BY <1>1, <1>2, RenamedOpens
<1>4. ASSUME NEW v, NEW o, Reaches(D, p2, e2.cond, env2, H, v, o)
      PROVE  IF v.t = "Bool" THEN Continues(T, G, o, IF v.b THEN e2.thn ELSE e2.els, env2)
             ELSE <<ExpectedBool("if", v), o>> \in G
  <2>1. /\ v \in Values /\ Gives(D, p1, e1.cond, env1, v, o)
        /\ Gives(D, p2, e2.cond, env2, v, o)
    BY <1>4, ResultsIncluded DEF Reaches
  <2>2. CASE v.t = "Bool"
    <3>1. PICK b2, b1 : b2 = (IF v.b THEN e2.thn ELSE e2.els) /\ b1 = IF v.b THEN e1.thn ELSE e1.els
      OBVIOUS
    <3>2. GoesOn(D, p1, e1, env1, o, b1, env1) /\ GoesOn(D, p2, e2, env2, o, b2, env2)
      BY <1>1, <2>1, <2>2, <3>1 DEF EvalIf
    <3>3. Renamed(M, b2, env2, b1, env1)
      BY <3>1
    <3>4. Begins(D, p2, b2, env2)
      BY <3>2 DEF GoesOn
    <3>5. Continues(T, G, o, b2, env2)
      BY <1>1, <3>2, <3>3, <3>4, RenamedContinues
    <3> QED
      BY <2>2, <3>1, <3>5
  <2>3. CASE v.t # "Bool"
    <3>1. Gives(D, p1, e1, env1, ExpectedBool("if", v), o)
      BY <1>1, <2>1, <2>3 DEF EvalIf
    <3> QED
      BY <1>1, <2>3, <3>1 DEF Includes
  <2> QED
    BY <2>2, <2>3
<1> HIDE DEF T, H
<1> QED
  BY <1>3, <1>4 DEF SimIf, T

\* A vector of one binding.
LEMMA OnlyBinding ==
    ASSUME NEW x, NEW b
    PROVE  LET bs == <<Binding(x, b)>>
           IN  bs # <<>> /\ Head(bs).var = x /\ Head(bs).e = b /\ Tail(bs) = <<>>
<1>1. Binding(x, b).var = x /\ Binding(x, b).e = b
  BY DEF Binding
<1> DEFINE y == Binding(x, b)
<1> HIDE DEF y
<1>2. <<y>> # <<>> /\ Head(<<y>>) = y /\ Tail(<<y>>) = <<>>
  OBVIOUS
<1> QED
  BY <1>1, <1>2 DEF y

\* The variable of a let under its new name.
LEMMA EnvLikeExtended ==
    ASSUME NEW env2, NEW env1, NEW ren, NEW S, EnvLike(env2, env1, ren, S),
           NEW x2, NEW x1, NEW ren2, NEW S2, Renames(ren, S, x2, x1, ren2, S2), NEW v
    PROVE  EnvLike(Extend(env2, x2, v), Extend(env1, x1, v), ren2, S2)
<1>1. /\ DOMAIN Extend(env2, x2, v) = DOMAIN env2 \cup {x2} /\ Extend(env2, x2, v)[x2] = v
      /\ DOMAIN Extend(env1, x1, v) = DOMAIN env1 \cup {x1} /\ Extend(env1, x1, v)[x1] = v
      /\ \A y \in DOMAIN env2 : y # x2 => Extend(env2, x2, v)[y] = env2[y]
      /\ \A y \in DOMAIN env1 : y # x1 => Extend(env1, x1, v)[y] = env1[y]
  BY DEF Extend
<1>2. ASSUME NEW z \in DOMAIN env1 \cup {x1}
      PROVE  /\ NameIn(ren2, z) \in DOMAIN env2 \cup {x2}
             /\ Extend(env2, x2, v)[NameIn(ren2, z)] = Extend(env1, x1, v)[z]
  <2>1. CASE z = x1
    BY <1>1, <2>1 DEF Renames
  <2>2. CASE z # x1
    <3>1. NameIn(ren2, z) = NameIn(ren, z) /\ NameIn(ren, z) # x2
      BY <1>2, <2>2 DEF EnvLike, Renames
    <3> QED
      BY <1>1, <1>2, <2>2, <3>1 DEF EnvLike
  <2> QED
    BY <2>1, <2>2
<1>3. DOMAIN env1 \cup {x1} \subseteq S2
  BY DEF EnvLike, Renames
<1> QED
  BY <1>1, <1>2, <1>3 DEF EnvLike

\* A let.
LEMMA SimulatesLet ==
    ASSUME NEW D, NEW p2, NEW p1, NEW e2, NEW env2, NEW e1, NEW env1, NEW G, NEW M,
           BothBegin(D, p2, p1, e2, env2, e1, env1, G),
           \A x2, x1, ren, S : <<x2, x1, ren, S>> \in M => LikeAt(M, x2, x1, ren, S),
           e2.exp = "Let", e1.exp = "Let", NEW ren, NEW S, EnvLike(env2, env1, ren, S),
           LikeLet(M, e2, e1, ren, S)
    PROVE  SimLet(D, p2, RenamedTriples(D, M, p1), e2, env2, G)
<1>1. PICK x2, x1, b2, b1 :
        /\ e2.bindings = <<Binding(x2, b2)>> /\ e1.bindings = <<Binding(x1, b1)>>
        /\ <<b2, b1, ren, S>> \in M
        /\ \E ren2, S2 : Renames(ren, S, x2, x1, ren2, S2) /\ <<e2.body, e1.body, ren2, S2>> \in M
  BY DEF LikeLet
<1>2. PICK ren2, S2 : Renames(ren, S, x2, x1, ren2, S2) /\ <<e2.body, e1.body, ren2, S2>> \in M
  BY <1>1
<1> DEFINE T == RenamedTriples(D, M, p1)
           H == ResultsOf(D, p1, b1, env1)
           rest2 == Let(<<>>, e2.body)
           rest1 == Let(<<>>, e1.body)
<1>3. /\ e2.bindings # <<>> /\ Head(e2.bindings).var = x2 /\ Head(e2.bindings).e = b2
      /\ Tail(e2.bindings) = <<>>
  BY <1>1, OnlyBinding
<1>4. /\ e1.bindings # <<>> /\ Head(e1.bindings).var = x1 /\ Head(e1.bindings).e = b1
      /\ Tail(e1.bindings) = <<>>
  BY <1>1, OnlyBinding
<1>5. Renamed(M, b2, env2, b1, env1)
  BY <1>1, MemberRenamed
<1>6. ASSUME NEW v PROVE Renamed(M, rest2, Extend(env2, x2, v), rest1, Extend(env1, x1, v))
  <2>1. EnvLike(Extend(env2, x2, v), Extend(env1, x1, v), ren2, S2)
    BY <1>2, EnvLikeExtended
  <2>2. /\ rest2.exp = "Let" /\ rest2.bindings = <<>> /\ rest2.body = e2.body
        /\ rest1.exp = "Let" /\ rest1.bindings = <<>> /\ rest1.body = e1.body
    BY DEF Let
  <2> HIDE DEF rest2, rest1
  <2>3. LikeAt(M, e2.body, e1.body, ren2, S2)
    BY <1>2
  <2>4. Like(M, rest2, rest1, ren2, S2)
    BY <2>2, <2>3 DEF Like
  <2> QED
    BY <2>1, <2>4 DEF Renamed
<1>7. EvalLet(D, p2, e2, env2) /\ EvalLet(D, p1, e1, env1) /\ Includes(D, p1, e1, env1, G)
  BY DEF BothBegin, EvalRule
<1>8. /\ First(D, p2, e2, b2, env2)
      /\ \A v \in Values : \A o : Gives(D, p2, b2, env2, v, o) =>
            GoesOn(D, p2, e2, env2, o, rest2, Extend(env2, x2, v))
  BY <1>3, <1>7 DEF EvalLet
<1>9. /\ First(D, p1, e1, b1, env1)
      /\ \A v \in Values : \A o : Gives(D, p1, b1, env1, v, o) =>
            GoesOn(D, p1, e1, env1, o, rest1, Extend(env1, x1, v))
  BY <1>4, <1>7 DEF EvalLet
<1> HIDE DEF rest1, rest2
<1>10. Opens(T, G, b2, env2, H)
  <2>1. Begins(D, p2, b2, env2)
    BY <1>8 DEF First
  <2> QED
    BY <1>5, <1>7, <1>9, <2>1, RenamedOpens
<1>11. ASSUME NEW v, NEW o, Reaches(D, p2, b2, env2, H, v, o)
       PROVE  Continues(T, G, o, rest2, Extend(env2, x2, v))
  <2>1. /\ v \in Values /\ Gives(D, p1, b1, env1, v, o)
        /\ Gives(D, p2, b2, env2, v, o)
    BY <1>11, ResultsIncluded DEF Reaches
  <2>2. /\ GoesOn(D, p1, e1, env1, o, rest1, Extend(env1, x1, v))
        /\ Begins(D, p2, rest2, Extend(env2, x2, v))
    BY <1>8, <1>9, <2>1 DEF GoesOn
  <2> QED
    BY <1>6, <1>7, <2>2, RenamedContinues
<1> HIDE DEF T, H
<1> QED
  BY <1>3, <1>10, <1>11 DEF SimLet, T, rest2

\* A let whose variable is bound.
LEMMA SimulatesBound ==
    ASSUME NEW D, NEW p2, NEW p1, NEW e2, NEW env2, NEW e1, NEW env1, NEW G, NEW M,
           BothBegin(D, p2, p1, e2, env2, e1, env1, G),
           e2.exp = "Let", e1.exp = "Let", e2.bindings = <<>>, e1.bindings = <<>>,
           NEW ren, NEW S, EnvLike(env2, env1, ren, S), LikeAt(M, e2.body, e1.body, ren, S)
    PROVE  SimLet(D, p2, RenamedTriples(D, M, p1), e2, env2, G)
<1>1. EvalLet(D, p2, e2, env2) /\ EvalLet(D, p1, e1, env1) /\ Includes(D, p1, e1, env1, G)
  BY DEF BothBegin, EvalRule
<1>2. GoesOn(D, p1, e1, env1, <<>>, e1.body, env1) /\ Begins(D, p2, e2.body, env2)
  BY <1>1 DEF EvalLet, GoesOn
<1>3. Renamed(M, e2.body, env2, e1.body, env1)
  BY DEF Renamed, Like
<1>4. Continues(RenamedTriples(D, M, p1), G, <<>>, e2.body, env2)
  BY <1>1, <1>2, <1>3, RenamedContinues
<1> QED
  BY <1>4 DEF SimLet

\* Vectors with the same positions are as long.
LEMMA SameUpTo ==
    ASSUME NEW m \in Nat, NEW n \in Nat, 1 .. m = 1 .. n
    PROVE  m = n
<1>1. CASE m < n
  <2>1. n \in 1 .. n /\ n \notin 1 .. m
    BY <1>1
  <2> QED
    BY <2>1
<1>2. CASE n < m
  <2>1. m \in 1 .. m /\ m \notin 1 .. n
    BY <1>2
  <2> QED
    BY <2>1
<1> QED
  BY <1>1, <1>2

\* What is left of arguments that are alike.
LEMMA LikeTails ==
    ASSUME NEW as2, IsSeq(as2), NEW as1, IsSeq(as1), NEW ren, LikeArgs(as2, as1, ren)
    PROVE  /\ as2 = <<>> <=> as1 = <<>>
           /\ as1 # <<>> => LikeImm(Head(as2), Head(as1), ren) /\ LikeArgs(Tail(as2), Tail(as1), ren)
<1>1. /\ DOMAIN as2 = 1 .. Len(as2) /\ DOMAIN as1 = 1 .. Len(as1)
      /\ Len(as2) \in Nat /\ Len(as1) \in Nat
  BY IsSeqDomain
<1>2. DOMAIN as2 = DOMAIN as1 /\ \A i \in DOMAIN as1 : LikeImm(as2[i], as1[i], ren)
  BY DEF LikeArgs
<1>3. Len(as2) = Len(as1)
  BY <1>1, <1>2, SameUpTo
<1>4. as2 = <<>> <=> as1 = <<>>
  BY <1>1, <1>3, VectorNotEmpty
<1>5. ASSUME as1 # <<>>
      PROVE  LikeImm(Head(as2), Head(as1), ren) /\ LikeArgs(Tail(as2), Tail(as1), ren)
  <2>1. /\ Len(as1) >= 1 /\ Head(as1) = as1[1] /\ Len(Tail(as1)) = Len(as1) - 1 /\ IsSeq(Tail(as1))
        /\ \A i \in DOMAIN Tail(as1) : i + 1 \in DOMAIN as1 /\ Tail(as1)[i] = as1[i + 1]
    BY <1>5, TailOfVector
  <2>2. /\ Head(as2) = as2[1] /\ Len(Tail(as2)) = Len(as2) - 1 /\ IsSeq(Tail(as2))
        /\ \A i \in DOMAIN Tail(as2) : i + 1 \in DOMAIN as2 /\ Tail(as2)[i] = as2[i + 1]
    BY <1>4, <1>5, TailOfVector
  <2>3. 1 \in DOMAIN as1
    BY <1>1, <2>1
  <2>4. DOMAIN Tail(as2) = DOMAIN Tail(as1)
    BY <1>3, <2>1, <2>2, IsSeqDomain
  <2>5. \A i \in DOMAIN Tail(as1) : LikeImm(Tail(as2)[i], Tail(as1)[i], ren)
    BY <1>2, <2>1, <2>2, <2>4
  <2> QED
    BY <1>2, <2>1, <2>2, <2>3, <2>4, <2>5 DEF LikeArgs
<1> QED
  BY <1>4, <1>5

\* The bodies of programs that are alike.
LEMMA LikeBodiesRenamed ==
    ASSUME NEW M, NEW p2 \in Programs, NEW p1 \in Programs, LikePrograms(M, p2, p1)
    PROVE  /\ Renamed(M, p2.main, EmptyEnv, p1.main, EmptyEnv)
           /\ \A i \in DOMAIN p2.funs : \A bound, vs :
                 Binds(bound, p2.funs[i].params, vs) =>
                    /\ i \in DOMAIN p1.funs /\ p1.funs[i].name = p2.funs[i].name
                    /\ Binds(bound, p1.funs[i].params, vs)
                    /\ Renamed(M, p2.funs[i].body, bound, p1.funs[i].body, bound)
<1>1. /\ SameDecls(p2, p1) /\ LikeBodies(M, p2, p1)
      /\ \A e2, e1, ren, S : <<e2, e1, ren, S>> \in M => LikeAt(M, e2, e1, ren, S)
  BY DEF LikePrograms
<1>2. /\ DOMAIN p2.funs = DOMAIN p1.funs
      /\ \A i \in DOMAIN p2.funs : /\ p2.funs[i].name = p1.funs[i].name
                                   /\ p2.funs[i].params = p1.funs[i].params
  BY <1>1 DEF SameDecls
<1>3. Len(p2.funs) = Len(p1.funs)
  <2>1. /\ DOMAIN p2.funs = 1 .. Len(p2.funs) /\ Len(p2.funs) \in Nat
        /\ DOMAIN p1.funs = 1 .. Len(p1.funs) /\ Len(p1.funs) \in Nat
    BY ProgramsAssumption, IsSeqDomain
  <2> QED
    BY <1>2, <2>1, SameUpTo
<1>4. ASSUME NEW i \in BodyNumbers(p1), NEW env, DOMAIN env = ParamsOf(p1, i)
      PROVE  Renamed(M, BodyOf(p2, i), env, BodyOf(p1, i), env)
  <2>1. PICK ren, S : /\ <<BodyOf(p2, i), BodyOf(p1, i), ren, S>> \in M
                      /\ ParamsOf(p1, i) \subseteq S /\ \A z \in S : NameIn(ren, z) = z
    BY <1>1 DEF LikeBodies
  <2>2. EnvLike(env, env, ren, S)
    BY <1>4, <2>1 DEF EnvLike
  <2> QED
    BY <1>1, <2>1, <2>2, MemberRenamed
<1>5. Renamed(M, p2.main, EmptyEnv, p1.main, EmptyEnv)
  <2> DEFINE n == Len(p1.funs) + 1
  <2>1. n \in BodyNumbers(p1) /\ BodyOf(p1, n) = p1.main /\ ParamsOf(p1, n) = {}
    BY BodiesAccepted
  <2>2. BodyOf(p2, n) = p2.main
    BY <1>3, BodiesAccepted
  <2>3. DOMAIN EmptyEnv = {}
    BY DEF EmptyEnv
  <2> HIDE DEF n
  <2> QED
    BY <1>4, <2>1, <2>2, <2>3
<1>6. ASSUME NEW i \in DOMAIN p2.funs, NEW bound, NEW vs, Binds(bound, p2.funs[i].params, vs)
      PROVE  /\ i \in DOMAIN p1.funs /\ p1.funs[i].name = p2.funs[i].name
             /\ Binds(bound, p1.funs[i].params, vs)
             /\ Renamed(M, p2.funs[i].body, bound, p1.funs[i].body, bound)
  <2>1. /\ i \in DOMAIN p1.funs /\ p1.funs[i].name = p2.funs[i].name
        /\ p1.funs[i].params = p2.funs[i].params
    BY <1>2
  <2>2. Binds(bound, p1.funs[i].params, vs)
    BY <1>6, <2>1
  <2>3. DOMAIN bound = ParamSet(p1.funs[i])
    BY <2>2 DEF Binds, ParamSet
  <2>4. /\ i \in BodyNumbers(p1) /\ BodyOf(p1, i) = p1.funs[i].body
        /\ ParamsOf(p1, i) = ParamSet(p1.funs[i]) /\ BodyOf(p2, i) = p2.funs[i].body
    BY <2>1, BodiesAccepted
  <2>5. Renamed(M, BodyOf(p2, i), bound, BodyOf(p1, i), bound)
    BY <1>4, <2>3, <2>4
  <2> QED
    BY <2>1, <2>2, <2>4, <2>5
<1> QED
  BY <1>5, <1>6

\* A call in its course.
LEMMA SimulatesApplied ==
    ASSUME NEW D, NEW p2, NEW p1, NEW e2, NEW env2, NEW e1, NEW env1, NEW G, NEW M,
           BothBegin(D, p2, p1, e2, env2, e1, env1, G), LikePrograms(M, p2, p1),
           e2.exp = "Applied", e1.exp = "Applied", e2.f = e1.f, e2.vs = e1.vs,
           NEW ren, NEW S, EnvLike(env2, env1, ren, S), LikeArgs(e2.args, e1.args, ren)
    PROVE  SimApplied(D, p2, RenamedTriples(D, M, p1), e2, env2, G)
<1> DEFINE T == RenamedTriples(D, M, p1)
<1>1. /\ EvalApplied(D, p2, e2, env2) /\ EvalApplied(D, p1, e1, env1) /\ Includes(D, p1, e1, env1, G)
      /\ p2 \in Programs /\ p1 \in Programs /\ IsSeq(e2.args) /\ IsSeq(e1.args)
  BY DEF BothBegin, EvalRule, AllInScope, Scoped
<1>2. /\ e2.args = <<>> <=> e1.args = <<>>
      /\ e1.args # <<>> => /\ LikeImm(Head(e2.args), Head(e1.args), ren)
                           /\ LikeArgs(Tail(e2.args), Tail(e1.args), ren)
  BY <1>1, LikeTails
<1>3. CASE e2.args = <<>>
  <2>1. ASSUME NEW i \in DOMAIN p2.funs, NEW bound, p2.funs[i].name = e2.f,
               Binds(bound, p2.funs[i].params, e2.vs)
        PROVE  Continues(T, G, <<>>, p2.funs[i].body, bound)
    <3>1. /\ i \in DOMAIN p1.funs /\ p1.funs[i].name = e1.f /\ Binds(bound, p1.funs[i].params, e1.vs)
          /\ Renamed(M, p2.funs[i].body, bound, p1.funs[i].body, bound)
      BY <1>1, <2>1, LikeBodiesRenamed
    <3>2. GoesOn(D, p1, e1, env1, <<>>, p1.funs[i].body, bound)
      BY <1>1, <1>2, <1>3, <3>1 DEF EvalApplied
    <3>3. Begins(D, p2, p2.funs[i].body, bound)
      BY <1>1, <1>3, <2>1 DEF EvalApplied, GoesOn
    <3> QED
      BY <1>1, <3>1, <3>2, <3>3, RenamedContinues
  <2> HIDE DEF T
  <2>2. SimApplied(D, p2, T, e2, env2, G)
    BY <1>3, <2>1 DEF SimApplied
  <2> QED
    BY <2>2 DEF T
<1>4. CASE e2.args # <<>>
  <2> DEFINE x2 == Head(e2.args)
             x1 == Head(e1.args)
             rest2(v) == Applied(e2.f, Append(e2.vs, v), Tail(e2.args))
             rest1(v) == Applied(e1.f, Append(e1.vs, v), Tail(e1.args))
             H == ResultsOf(D, p1, x1, env1)
  <2>1. Renamed(M, x2, env2, x1, env1)
    BY <1>2, <1>4, LikeImmRenamed
  <2>2. ASSUME NEW v PROVE Renamed(M, rest2(v), env2, rest1(v), env1)
    <3>1. PICK c2, c1 : c2 = rest2(v) /\ c1 = rest1(v)
      OBVIOUS
    <3>2. /\ c2.exp = "Applied" /\ c2.f = e2.f /\ c2.vs = Append(e2.vs, v) /\ c2.args = Tail(e2.args)
          /\ c1.exp = "Applied" /\ c1.f = e1.f /\ c1.vs = Append(e1.vs, v) /\ c1.args = Tail(e1.args)
      BY <3>1 DEF Applied
    <3>3. Like(M, c2, c1, ren, S)
      BY <1>2, <1>4, <3>2 DEF Like
    <3>4. Renamed(M, c2, env2, c1, env1)
      BY <3>3 DEF Renamed
    <3> QED
      BY <3>1, <3>4
  <2>3. /\ First(D, p2, e2, x2, env2)
        /\ \A v \in Values : \A o : Gives(D, p2, x2, env2, v, o) =>
              GoesOn(D, p2, e2, env2, o, rest2(v), env2)
    BY <1>1, <1>4 DEF EvalApplied
  <2>4. /\ First(D, p1, e1, x1, env1)
        /\ \A v \in Values : \A o : Gives(D, p1, x1, env1, v, o) =>
              GoesOn(D, p1, e1, env1, o, rest1(v), env1)
    BY <1>1, <1>2, <1>4 DEF EvalApplied
  <2> HIDE DEF x2, x1, rest2, rest1
  <2>5. Opens(T, G, x2, env2, H)
    <3>1. Begins(D, p2, x2, env2)
      BY <2>3 DEF First
    <3> QED
      BY <1>1, <2>1, <2>4, <3>1, RenamedOpens
  <2>6. ASSUME NEW v, NEW o, Reaches(D, p2, x2, env2, H, v, o)
        PROVE  Continues(T, G, o, rest2(v), env2)
    <3>1. /\ v \in Values /\ Gives(D, p1, x1, env1, v, o)
          /\ Gives(D, p2, x2, env2, v, o)
      BY <2>6, ResultsIncluded DEF Reaches
    <3>2. GoesOn(D, p1, e1, env1, o, rest1(v), env1) /\ Begins(D, p2, rest2(v), env2)
      BY <2>3, <2>4, <3>1 DEF GoesOn
    <3>3. PICK c2, c1 : c2 = rest2(v) /\ c1 = rest1(v)
      OBVIOUS
    <3>4. Renamed(M, c2, env2, c1, env1)
      BY <2>2, <3>3
    <3>5. Continues(RenamedTriples(D, M, p1), G, o, c2, env2)
      BY <1>1, <3>2, <3>3, <3>4, RenamedContinues
    <3> QED
      BY <3>3, <3>5
  <2> HIDE DEF T, H
  <2>7. SimApplied(D, p2, T, e2, env2, G)
    BY <1>4, <2>5, <2>6 DEF SimApplied, x2, rest2
  <2> QED
    BY <2>7 DEF T
<1> QED
  BY <1>3, <1>4

\* A call, before its arguments.
LEMMA SimulatesCall ==
    ASSUME NEW D, NEW p2, NEW p1, NEW e2, NEW env2, NEW e1, NEW env1, NEW G, NEW M,
           BothBegin(D, p2, p1, e2, env2, e1, env1, G),
           e2.exp = "Call", e1.exp = "Call", e2.f = e1.f,
           NEW ren, NEW S, EnvLike(env2, env1, ren, S), LikeArgs(e2.args, e1.args, ren)
    PROVE  Continues(RenamedTriples(D, M, p1), G, <<>>, Applied(e2.f, <<>>, e2.args), env2)
<1>1. PICK c2, c1 : c2 = Applied(e2.f, <<>>, e2.args) /\ c1 = Applied(e1.f, <<>>, e1.args)
  OBVIOUS
<1>2. /\ c2.exp = "Applied" /\ c2.f = e2.f /\ c2.vs = <<>> /\ c2.args = e2.args
      /\ c1.exp = "Applied" /\ c1.f = e1.f /\ c1.vs = <<>> /\ c1.args = e1.args
  BY <1>1 DEF Applied
<1>3. Like(M, c2, c1, ren, S)
  BY <1>2 DEF Like
<1>4. Renamed(M, c2, env2, c1, env1)
  BY <1>3 DEF Renamed
<1>5. GoesOn(D, p1, e1, env1, <<>>, c1, env1) /\ Begins(D, p2, c2, env2) /\ Includes(D, p1, e1, env1, G)
  BY <1>1 DEF BothBegin, EvalRule, GoesOn
<1> QED
  BY <1>1, <1>4, <1>5, RenamedContinues

\* Programs that are alike simulate each other.
LEMMA LikeSimulated ==
    ASSUME NEW D, NEW p2, NEW p1, AllInScope(D, p2, p1), NEW M, LikePrograms(M, p2, p1)
    PROVE  Simulated(D, p2, RenamedTriples(D, M, p1))
<1> DEFINE T == RenamedTriples(D, M, p1)
<1> SUFFICES ASSUME NEW e2, NEW env2, NEW G, <<e2, env2, G>> \in T
             PROVE  /\ <<Interrupted, <<>>>> \in G
                    /\ Begins(D, p2, e2, env2) => SimRule(D, p2, T, e2, env2, G)
  BY DEF Simulated
<1>1. PICK e1, env1 : Renamed(M, e2, env2, e1, env1) /\ Includes(D, p1, e1, env1, G)
  BY RenamedTriple
<1>2. <<Interrupted, <<>>>> \in G
  BY <1>1 DEF Includes, Begins
<1>3. ASSUME Begins(D, p2, e2, env2) PROVE SimRule(D, p2, T, e2, env2, G)
  <2>1. BothBegin(D, p2, p1, e2, env2, e1, env1, G)
    BY <1>1, <1>3, BegunOnBothSides
  <2>2. PICK ren, S : Like(M, e2, e1, ren, S) /\ EnvLike(env2, env1, ren, S)
    BY <1>1 DEF Renamed
  <2>3. \A x2, x1, r, U : <<x2, x1, r, U>> \in M => LikeAt(M, x2, x1, r, U)
    BY DEF LikePrograms
  <2>4. CASE LikeImm(e2, e1, ren)
    BY <2>1, <2>2, <2>4, SimulatesImm
  <2>5. CASE e2.exp = "Prim1" /\ e1.exp = "Prim1" /\ e2.op = e1.op /\ LikeImm(e2.e, e1.e, ren)
    <3>1. Renamed(M, e2.e, env2, e1.e, env1)
      BY <2>2, <2>5, LikeImmRenamed
    <3>2. SimPrim1(D, p2, T, e2, env2, G)
      BY <2>1, <2>5, <3>1, SimulatesPrim1
    <3> HIDE DEF T
    <3> QED
      BY <2>5, <3>2 DEF SimRule
  <2>6. CASE /\ e2.exp = "Prim2" /\ e1.exp = "Prim2" /\ e2.op = e1.op
             /\ LikeImm(e2.e1, e1.e1, ren) /\ LikeImm(e2.e2, e1.e2, ren)
    <3>1. Renamed(M, e2.e1, env2, e1.e1, env1) /\ Renamed(M, e2.e2, env2, e1.e2, env1)
      BY <2>2, <2>6, LikeImmRenamed
    <3>2. SimPrim2(D, p2, T, e2, env2, G)
      BY <2>1, <2>6, <3>1, SimulatesPrim2
    <3> HIDE DEF T
    <3> QED
      BY <2>6, <3>2 DEF SimRule
  <2>7. CASE /\ e2.exp = "If" /\ e1.exp = "If" /\ LikeImm(e2.cond, e1.cond, ren)
             /\ <<e2.thn, e1.thn, ren, S>> \in M /\ <<e2.els, e1.els, ren, S>> \in M
    <3>1. /\ Renamed(M, e2.cond, env2, e1.cond, env1)
          /\ Renamed(M, e2.thn, env2, e1.thn, env1) /\ Renamed(M, e2.els, env2, e1.els, env1)
      BY <2>2, <2>3, <2>7, LikeImmRenamed, MemberRenamed
    <3>2. SimIf(D, p2, T, e2, env2, G)
      BY <2>1, <2>7, <3>1, SimulatesIf
    <3> HIDE DEF T
    <3> QED
      BY <2>7, <3>2 DEF SimRule
  <2>8. CASE e2.exp = "Call" /\ e1.exp = "Call" /\ e2.f = e1.f /\ LikeArgs(e2.args, e1.args, ren)
    <3>1. Continues(T, G, <<>>, Applied(e2.f, <<>>, e2.args), env2)
      BY <2>1, <2>2, <2>8, SimulatesCall
    <3> HIDE DEF T
    <3> QED
      BY <2>8, <3>1 DEF SimRule
  <2>9. CASE e2.exp = "Let" /\ e1.exp = "Let" /\ LikeLet(M, e2, e1, ren, S)
    <3>1. SimLet(D, p2, T, e2, env2, G)
      BY <2>1, <2>2, <2>3, <2>9, SimulatesLet
    <3> HIDE DEF T
    <3> QED
      BY <2>9, <3>1 DEF SimRule
  <2>10. CASE /\ e2.exp = "Let" /\ e1.exp = "Let" /\ e2.bindings = <<>> /\ e1.bindings = <<>>
              /\ LikeAt(M, e2.body, e1.body, ren, S)
    <3>1. SimLet(D, p2, T, e2, env2, G)
      BY <2>1, <2>2, <2>10, SimulatesBound
    <3> HIDE DEF T
    <3> QED
      BY <2>10, <3>1 DEF SimRule
  <2>11. CASE /\ e2.exp = "Applied" /\ e1.exp = "Applied" /\ e2.f = e1.f /\ e2.vs = e1.vs
              /\ LikeArgs(e2.args, e1.args, ren)
    <3>1. SimApplied(D, p2, T, e2, env2, G)
      BY <2>1, <2>2, <2>11, SimulatesApplied
    <3> HIDE DEF T
    <3> QED
      BY <2>11, <3>1 DEF SimRule
  <2> QED
    BY <2>2, <2>4, <2>5, <2>6, <2>7, <2>8, <2>9, <2>10, <2>11 DEF Like, LikeAt
<1> QED
  BY <1>2, <1>3

\* A program comes to nothing but what one that is alike comes to.
LEMMA LikeProgramsEvaluate ==
    ASSUME NEW p2 \in Programs, NEW p1 \in Programs, NEW M, LikePrograms(M, p2, p1),
           NEW r, NEW o, Evaluates(p2, r, o)
    PROVE  Evaluates(p1, r, o)
<1> SUFFICES ASSUME NEW D0, Rules(D0) PROVE Gives(D0, p1, p1.main, EmptyEnv, r, o)
  BY DEF Evaluates
<1> DEFINE D == InScopeOnly(D0)
           G == ResultsOf(D, p1, p1.main, EmptyEnv)
           T == RenamedTriples(D, M, p1)
<1>1. Rules(D)
  BY InScopeOnlyKeeps
<1>2. \A p \in Programs : \A e, env, x, o2 :
         Gives(D, p, e, env, x, o2) => Gives(D0, p, e, env, x, o2) /\ Scoped(p, e, env)
  BY InScopeOnlyGives
<1> HIDE DEF D
<1>3. AllInScope(D, p2, p1)
  BY <1>1, <1>2 DEF AllInScope, Begins
<1>4. Begins(D, p2, p2.main, EmptyEnv) /\ Begins(D, p1, p1.main, EmptyEnv)
  BY <1>1 DEF Rules
<1>5. G \subseteq Outcomes(D) /\ Includes(D, p1, p1.main, EmptyEnv, G)
  BY <1>4, ResultsIncluded
<1>6. <<p2.main, EmptyEnv, G>> \in T
  BY <1>4, <1>5, BegunTriple, RenamedTriple, LikeBodiesRenamed
<1>7. <<r, o>> \in G
  <2>1. Simulated(D, p2, T)
    BY <1>3, LikeSimulated
  <2> HIDE DEF T, G
  <2> QED
    BY <1>1, <1>6, <2>1, SimulationGives
<1>8. Gives(D, p1, p1.main, EmptyEnv, r, o)
  BY <1>7, ResultsIncluded
<1> QED
  BY <1>2, <1>8

-----------------------------------------------------------------------------
(* seq_prog.  Before a value there was a moment when the evaluation that    *)
(* gives it was still going on.                                             *)

Interruptible(D) ==
    {j \in D : ~IsErr(j[4]) => <<j[1], j[2], j[3], Interrupted, j[5]>> \in D}

\* Membership, one evaluation at a time.
LEMMA InterruptibleGives ==
    ASSUME NEW D, NEW p, NEW e, NEW env, NEW r, NEW o
    PROVE  Gives(Interruptible(D), p, e, env, r, o)
               <=> Gives(D, p, e, env, r, o) /\ (~IsErr(r) => Gives(D, p, e, env, Interrupted, o))
<1> DEFINE j == <<p, e, env, r, o>>
<1>1. j[1] = p /\ j[2] = e /\ j[3] = env /\ j[4] = r /\ j[5] = o
  OBVIOUS
<1> HIDE DEF j
<1>2. j \in Interruptible(D) <=> j \in D /\ (~IsErr(r) => <<p, e, env, Interrupted, o>> \in D)
  BY <1>1 DEF Interruptible
<1> QED
  BY <1>2 DEF Gives, j

\* No value is an error, nor is an evaluation that is still going on.
LEMMA ValuesAreNotErrors ==
    IsErr(Interrupted) /\ Interrupted \notin Values /\ IsErr(WriteErr) /\ \A v \in Values : ~IsErr(v)
<1>1. \A v \in Values : ~IsErr(v)
  BY ValueKinds DEF IsErr
<1>2. IsErr(Interrupted) /\ IsErr(WriteErr)
  BY DEF IsErr, Interrupted, WriteErr
<1> QED
  BY <1>1, <1>2

\* Printing nothing before or after.
LEMMA NothingPrinted ==
    /\ \A o \in Seq(Values) : <<>> \o o = o /\ o \o <<>> = o
    /\ <<>> \in Seq(Values)
    /\ \A o, o2 \in Seq(Values) : o \o o2 \in Seq(Values)
OBVIOUS

\* They keep every rule.
LEMMA InterruptibleKeeps ==
    ASSUME NEW D, Rules(D)
    PROVE  Rules(Interruptible(D))
<1> DEFINE X == Interruptible(D)
<1>1. ASSUME NEW p, NEW e, NEW env, NEW r, NEW o
      PROVE  Gives(X, p, e, env, r, o)
                 <=> Gives(D, p, e, env, r, o) /\ (~IsErr(r) => Gives(D, p, e, env, Interrupted, o))
  BY InterruptibleGives
<1> HIDE DEF X
<1>2. \A p, e, env : Begins(X, p, e, env) <=> Begins(D, p, e, env)
  BY <1>1, ValuesAreNotErrors DEF Begins
<1>3. ASSUME NEW p \in Programs, NEW e, NEW env, Begins(X, p, e, env) PROVE EvalRule(X, p, e, env)
  <2>1. EvalRule(D, p, e, env) /\ Begins(D, p, e, env)
    BY <1>2, <1>3, RuleAt
  <2>2. \A x, env2, r, o : Gives(X, p, x, env2, r, o) =>
            Gives(D, p, x, env2, r, o) /\ o \in Seq(Values)
            /\ (~IsErr(r) => Gives(D, p, x, env2, Interrupted, o))
    BY <1>1 DEF Gives
  <2>3. ASSUME NEW r, NEW o, Gives(D, p, e, env, r, o), ~IsErr(r) => Gives(D, p, e, env, Interrupted, o)
        PROVE  Gives(X, p, e, env, r, o)
    BY <1>1, <2>3
  <2>5. ASSUME NEW x, First(D, p, e, x, env) PROVE First(X, p, e, x, env)
    BY <1>1, <1>2, <2>5, ValuesAreNotErrors DEF First
  <2>6. ASSUME NEW o, NEW x, NEW env2, GoesOn(D, p, e, env, o, x, env2)
        PROVE  GoesOn(X, p, e, env, o, x, env2)
    BY <1>2, <2>2, <2>3, <2>6 DEF GoesOn
  <2>7. ASSUME NEW r, Gives(D, p, e, env, r, <<>>) PROVE Gives(X, p, e, env, r, <<>>)
    BY <2>1, <2>3, <2>7 DEF Begins
  <2>8. ASSUME e.exp = "Prim1" PROVE EvalPrim1(X, p, e, env)
    <3>1. EvalPrim1(D, p, e, env)
      BY <2>1, <2>8 DEF EvalRule
    <3>2. ASSUME NEW v \in Values, NEW o, Gives(X, p, e.e, env, v, o), NEW r, NEW o2, Performs(e.op, v, r, o2)
          PROVE  Gives(X, p, e, env, r, o \o o2)
      <4>1. Gives(D, p, e, env, r, o \o o2)
        BY <2>2, <3>1, <3>2 DEF EvalPrim1
      <4>2. ASSUME ~IsErr(r) PROVE Gives(D, p, e, env, Interrupted, o \o o2)
        <5>1. CASE e.op \in Print1
          <6>1. Performs(e.op, v, Interrupted, o2)
            BY <3>2, <4>2, <5>1, ValuesAreNotErrors DEF Performs
          <6> QED
            BY <2>2, <3>1, <3>2, <6>1 DEF EvalPrim1
        <5>2. CASE e.op \notin Print1
          <6>1. o2 = <<>> /\ o \o o2 = o
            BY <2>2, <3>2, <5>2, NothingPrinted DEF Performs
          <6>2. Gives(D, p, e.e, env, Interrupted, o)
            BY <2>2, <3>2, ValuesAreNotErrors
          <6> QED
            BY <3>1, <6>1, <6>2, ValuesAreNotErrors DEF EvalPrim1, First
        <5> QED
          BY <5>1, <5>2
      <4> QED
        BY <2>3, <4>1, <4>2
    <3> QED
      BY <2>5, <3>1, <3>2 DEF EvalPrim1
  <2>9. ASSUME e.exp = "Prim2" PROVE EvalPrim2(X, p, e, env)
    <3>1. EvalPrim2(D, p, e, env)
      BY <2>1, <2>9 DEF EvalRule
    <3>2. ASSUME NEW v \in Values, NEW o, Gives(X, p, e.e1, env, v, o)
          PROVE  /\ Begins(X, p, e.e2, env)
                 /\ \A r, o2 : Gives(X, p, e.e2, env, r, o2) =>
                       Gives(X, p, e, env, Combined(e.op, v, r), o \o o2)
      <4>1. /\ Begins(D, p, e.e2, env)
            /\ \A r, o2 : Gives(D, p, e.e2, env, r, o2) =>
                  Gives(D, p, e, env, Combined(e.op, v, r), o \o o2)
        BY <2>2, <3>1, <3>2 DEF EvalPrim2
      <4>2. ASSUME NEW r, NEW o2, Gives(X, p, e.e2, env, r, o2)
            PROVE  Gives(X, p, e, env, Combined(e.op, v, r), o \o o2)
        <5>1. Gives(D, p, e.e2, env, r, o2) /\ (~IsErr(r) => Gives(D, p, e.e2, env, Interrupted, o2))
          BY <2>2, <4>2
        <5>2. Combined(e.op, v, Interrupted) = Interrupted
          BY ValuesAreNotErrors DEF Combined
        <5>3. CASE ~IsErr(r)
          BY <2>3, <4>1, <5>1, <5>2, <5>3
        <5>4. CASE IsErr(r)
          BY <2>3, <4>1, <5>1, <5>4, ValuesAreNotErrors DEF Combined
        <5> QED
          BY <5>3, <5>4
      <4> QED
        BY <1>2, <4>1, <4>2
    <3> QED
      BY <2>5, <3>1, <3>2 DEF EvalPrim2
  <2>10. ASSUME e.exp = "If" PROVE EvalIf(X, p, e, env)
    <3>1. EvalIf(D, p, e, env)
      BY <2>1, <2>10 DEF EvalRule
    <3>2. ASSUME NEW v \in Values, NEW o, Gives(X, p, e.cond, env, v, o)
          PROVE  IF v.t = "Bool" THEN GoesOn(X, p, e, env, o, IF v.b THEN e.thn ELSE e.els, env)
                 ELSE Gives(X, p, e, env, ExpectedBool("if", v), o)
      <4>1. IF v.t = "Bool" THEN GoesOn(D, p, e, env, o, IF v.b THEN e.thn ELSE e.els, env)
            ELSE Gives(D, p, e, env, ExpectedBool("if", v), o)
        BY <2>2, <3>1, <3>2 DEF EvalIf
      <4>2. IsErr(ExpectedBool("if", v))
        BY DEF ExpectedBool, IsErr
      <4> QED
        BY <2>3, <2>6, <4>1, <4>2
    <3> QED
      BY <2>5, <3>1, <3>2 DEF EvalIf
  <2>11. ASSUME e.exp = "Let" PROVE EvalLet(X, p, e, env)
    <3>1. EvalLet(D, p, e, env)
      BY <2>1, <2>11 DEF EvalRule
    <3> QED
      BY <2>2, <2>5, <2>6, <3>1 DEF EvalLet
  <2>12. ASSUME e.exp = "Applied" PROVE EvalApplied(X, p, e, env)
    <3>1. EvalApplied(D, p, e, env)
      BY <2>1, <2>12 DEF EvalRule
    <3> QED
      BY <2>2, <2>5, <2>6, <3>1 DEF EvalApplied
  <2>13. e.exp = "Num" => Gives(X, p, e, env, NumV(e.n), <<>>)
    BY <2>1, <2>7 DEF EvalRule
  <2>14. e.exp = "Bool" => Gives(X, p, e, env, BoolV(e.b), <<>>)
    BY <2>1, <2>7 DEF EvalRule
  <2>15. e.exp = "Var" /\ e.x \in DOMAIN env => Gives(X, p, e, env, env[e.x], <<>>)
    BY <2>1, <2>7 DEF EvalRule
  <2>16. e.exp = "Call" => GoesOn(X, p, e, env, <<>>, Applied(e.f, <<>>, e.args), env)
    BY <2>1, <2>6 DEF EvalRule
  <2> QED
    BY <2>8, <2>9, <2>10, <2>11, <2>12, <2>13, <2>14, <2>15, <2>16 DEF EvalRule
<1>4. ASSUME NEW p \in Programs PROVE Begins(X, p, p.main, EmptyEnv)
  BY <1>2 DEF Rules
<1> QED
  BY <1>3, <1>4 DEF Rules, X

-----------------------------------------------------------------------------
(* The steps of an expression.                                              *)

\* Compound expressions
Formed(e) ==
    /\ e.exp \in {"Prim1", "Prim2", "If", "Let", "Call"}
    /\ e.exp = "Let" => IsSeq(e.bindings)
    /\ e.exp = "Call" => IsSeq(e.args)

\* Their steps are their first children.
LEMMA StepChildren ==
    ASSUME NEW e, Formed(e)
    PROVE  /\ Steps(e) \in Nat /\ 1 .. Steps(e) \subseteq DOMAIN Children(e)
           /\ e.exp # "Let" => \A k \in 1 .. Steps(e) : Operands(e)[k] = Children(e)[k]
           /\ e.exp = "Prim1" => Steps(e) = 1 /\ Children(e)[1] = e.e
           /\ e.exp = "Prim2" => Steps(e) = 2 /\ Children(e)[1] = e.e1 /\ Children(e)[2] = e.e2
           /\ e.exp = "If" => /\ Steps(e) = 1 /\ 2 \in DOMAIN Children(e) /\ 3 \in DOMAIN Children(e)
                              /\ Children(e)[1] = e.cond
                              /\ Children(e)[2] = e.thn /\ Children(e)[3] = e.els
           /\ e.exp = "Call" => Steps(e) = Len(e.args) /\ \A k \in 1 .. Steps(e) : Children(e)[k] = e.args[k]
           /\ e.exp = "Let" => /\ Steps(e) = Len(e.bindings) /\ Len(e.bindings) + 1 \in DOMAIN Children(e)
                               /\ Children(e)[Len(e.bindings) + 1] = e.body
                               /\ \A k \in 1 .. Steps(e) : Children(e)[k] = e.bindings[k].e
<1>1. CASE e.exp = "Prim1"
  <2>1. Children(e) = <<e.e>> /\ Operands(e) = Children(e) /\ Steps(e) = Len(Operands(e))
    BY <1>1 DEF Children, Operands, Steps
  <2> QED
    BY <1>1, <2>1
<1>2. CASE e.exp = "Prim2"
  <2>1. Children(e) = <<e.e1, e.e2>> /\ Operands(e) = Children(e) /\ Steps(e) = Len(Operands(e))
    BY <1>2 DEF Children, Operands, Steps
  <2> QED
    BY <1>2, <2>1
<1>3. CASE e.exp = "If"
  <2>1. /\ Children(e) = <<e.cond, e.thn, e.els>> /\ Operands(e) = <<e.cond>>
        /\ Steps(e) = Len(Operands(e))
    BY <1>3 DEF Children, Operands, Steps
  <2> QED
    BY <1>3, <2>1
<1>4. CASE e.exp = "Call"
  <2>1. Children(e) = e.args /\ Operands(e) = Children(e) /\ Steps(e) = Len(Operands(e))
    BY <1>4 DEF Children, Operands, Steps
  <2>2. Len(e.args) \in Nat /\ DOMAIN e.args = 1 .. Len(e.args)
    BY <1>4, IsSeqDomain DEF Formed
  <2> QED
    BY <1>4, <2>1, <2>2
<1>5. CASE e.exp = "Let"
  <2> DEFINE s == [i \in DOMAIN e.bindings |-> e.bindings[i].e]
             n == Len(e.bindings)
  <2>1. DOMAIN e.bindings = 1 .. n /\ n \in Nat /\ IsSeq(e.bindings)
    BY <1>5, IsSeqDomain DEF Formed
  <2>2. IsSeq(s) /\ Len(s) = n /\ \A i \in 1 .. n : s[i] = e.bindings[i].e
    BY <2>1, MadeVector
  <2>3. IsSeq(<<e.body>>) /\ Len(<<e.body>>) = 1 /\ <<e.body>>[1] = e.body
    BY SingleVector
  <2>4. Children(e) = s \o <<e.body>> /\ Steps(e) = n
    BY <1>5 DEF Children, Steps
  <2> HIDE DEF s, n
  <2>5. /\ DOMAIN Children(e) = 1 .. n + 1
        /\ \A i \in 1 .. n : Children(e)[i] = e.bindings[i].e
        /\ Children(e)[n + 1] = e.body
    BY <2>1, <2>2, <2>3, <2>4, ConcatVectors
  <2>6. n + 1 \in DOMAIN Children(e) /\ 1 .. n \subseteq DOMAIN Children(e)
    BY <2>1, <2>5
  <2> QED
    BY <1>5, <2>1, <2>4, <2>5, <2>6 DEF n
<1> QED
  BY <1>1, <1>2, <1>3, <1>4, <1>5 DEF Formed

\* xs without its first m elements is ys
Remain(xs, m, ys) ==
    /\ IsSeq(xs) /\ IsSeq(ys) /\ m \in Nat /\ Len(ys) + m = Len(xs)
    /\ \A i \in DOMAIN ys : ys[i] = xs[m + i]

\* The first of them, and the others.
LEMMA RemainTail ==
    ASSUME NEW xs, NEW m, NEW ys, Remain(xs, m, ys)
    PROVE  /\ ys = <<>> <=> m = Len(xs)
           /\ ys # <<>> => m + 1 \in DOMAIN xs /\ Head(ys) = xs[m + 1] /\ Remain(xs, m + 1, Tail(ys))
<1>1. /\ IsSeq(xs) /\ IsSeq(ys) /\ m \in Nat /\ Len(ys) + m = Len(xs)
      /\ \A i \in DOMAIN ys : ys[i] = xs[m + i]
  BY DEF Remain
<1>2. /\ Len(xs) \in Nat /\ DOMAIN xs = 1 .. Len(xs) /\ Len(ys) \in Nat /\ DOMAIN ys = 1 .. Len(ys)
      /\ ys # <<>> <=> Len(ys) >= 1
  BY <1>1, IsSeqDomain, VectorNotEmpty
<1>3. ASSUME ys # <<>>
      PROVE  m + 1 \in DOMAIN xs /\ Head(ys) = xs[m + 1] /\ Remain(xs, m + 1, Tail(ys))
  <2>1. /\ IsSeq(Tail(ys)) /\ Len(Tail(ys)) = Len(ys) - 1 /\ Head(ys) = ys[1]
        /\ \A i \in DOMAIN Tail(ys) : i + 1 \in DOMAIN ys /\ Tail(ys)[i] = ys[i + 1]
    BY <1>1, <1>3, TailOfVector
  <2>2. 1 \in DOMAIN ys /\ m + 1 \in DOMAIN xs
    BY <1>1, <1>2, <1>3
  <2>3. ASSUME NEW i \in DOMAIN Tail(ys) PROVE Tail(ys)[i] = xs[(m + 1) + i]
    <3>1. i \in Nat
      BY <2>1, IsSeqDomain
    <3>2. m + (i + 1) = (m + 1) + i
      BY <1>1, <3>1
    <3>3. i + 1 \in DOMAIN ys /\ Tail(ys)[i] = ys[i + 1]
      BY <2>1
    <3>4. ys[i + 1] = xs[m + (i + 1)]
      BY <1>1, <3>3
    <3> QED
      BY <3>2, <3>3, <3>4
  <2>4. Len(Tail(ys)) + (m + 1) = Len(xs) /\ m + 1 \in Nat
    <3>1. PICK a, b, d : a = Len(Tail(ys)) /\ b = Len(ys) /\ d = Len(xs)
      OBVIOUS
    <3>2. a \in Nat /\ b \in Nat /\ d \in Nat /\ m \in Nat
      BY <1>1, <1>2, <2>1, <3>1, IsSeqDomain
    <3>3. a = b - 1 /\ b + m = d
      BY <1>1, <2>1, <3>1
    <3>4. a + (m + 1) = d /\ m + 1 \in Nat
      BY <3>2, <3>3
    <3> QED
      BY <3>1, <3>4
  <2> QED
    BY <1>1, <2>1, <2>2, <2>3, <2>4 DEF Remain
<1> QED
  BY <1>1, <1>2, <1>3

\* All of them.
LEMMA RemainAll ==
    ASSUME NEW xs, IsSeq(xs)
    PROVE  Remain(xs, 0, xs)
<1>1. Len(xs) \in Nat /\ DOMAIN xs = 1 .. Len(xs)
  BY IsSeqDomain
<1>2. \A i \in DOMAIN xs : xs[i] = xs[0 + i]
  BY <1>1
<1> QED
  BY <1>1, <1>2 DEF Remain

-----------------------------------------------------------------------------
(* What becomes of them.                                                    *)

\* The step that is made of a binding, and of an operand.
LEMMA RestOfSteps ==
    ASSUME NEW w, LoweringKnown(w), NEW j \in w.asked, Formed(j[1]), NEW k \in 1 .. Steps(j[1])
    PROVE  /\ j[1].exp = "Let" => w.rest[<<j, k>>] = LetIn(j[1].bindings[k].var, w.made[w.parts[j][k]],
                                                       w.rest[<<j, k + 1>>])
           /\ j[1].exp # "Let" /\ Stays(j[1], k) => w.rest[<<j, k>>] = w.rest[<<j, k + 1>>]
           /\ j[1].exp # "Let" /\ ~Stays(j[1], k) =>
                w.rest[<<j, k>>] = LetIn(Temp(j[1], w.tag[j], k), w.made[w.parts[j][k]],
                                         w.rest[<<j, k + 1>>])
<1>1. ~Immediate(j[1]) /\ Steps(j[1]) \in Nat
  BY StepChildren DEF Immediate, Formed
<1>2. k \in 1 .. Steps(j[1]) + 1 /\ k # Steps(j[1]) + 1
  BY <1>1
<1>3. w.rest[<<j, k>>] = RestFrom(w, j, k)
  BY <1>1, <1>2 DEF LoweringKnown
<1>4. RestFrom(w, j, k) = StepArm(LAMBDA i : LoweredPart(w, j, i), j[1], w.tag[j], k, w.rest[<<j, k + 1>>])
  BY <1>2 DEF RestFrom
<1>5. CASE j[1].exp = "Let"
  BY <1>3, <1>4, <1>5 DEF StepArm, LoweredPart
<1>6. CASE j[1].exp # "Let" /\ Stays(j[1], k)
  BY <1>3, <1>4, <1>6 DEF StepArm, LoweredPart
<1>7. CASE j[1].exp # "Let" /\ ~Stays(j[1], k)
  BY <1>3, <1>4, <1>7 DEF StepArm, LoweredPart
<1> QED
  BY <1>5, <1>6, <1>7

\* And what is left when they have been made.
LEMMA RestOfLast ==
    ASSUME NEW w, LoweringKnown(w), NEW j \in w.asked, Formed(j[1])
    PROVE  LET e == j[1]
               ann == w.tag[j]
               x == w.rest[<<j, Steps(e) + 1>>]
           IN  /\ e.exp = "Prim1" => x = Prim1(e.op, AsOperand(e, ann, 1))
               /\ e.exp = "Prim2" => x = Prim2(e.op, AsOperand(e, ann, 1), AsOperand(e, ann, 2))
               /\ e.exp = "If" => x = If(AsOperand(e, ann, 1), w.made[w.parts[j][2]], w.made[w.parts[j][3]])
               /\ e.exp = "Call" => x = Call(e.f, [i \in DOMAIN e.args |-> AsOperand(e, ann, i)])
               /\ e.exp = "Let" => x = w.made[w.parts[j][Len(e.bindings) + 1]]
<1>1. ~Immediate(j[1]) /\ Steps(j[1]) \in Nat
  BY StepChildren DEF Immediate, Formed
<1>2. Steps(j[1]) + 1 \in 1 .. Steps(j[1]) + 1
  BY <1>1
<1> DEFINE x == w.rest[<<j, Steps(j[1]) + 1>>]
<1>3. x = RestFrom(w, j, Steps(j[1]) + 1)
  BY <1>1, <1>2 DEF LoweringKnown
<1>4. x = LastArm(LAMBDA i : LoweredPart(w, j, i), j[1], w.tag[j])
  BY <1>3 DEF RestFrom
<1> HIDE DEF x
<1>5. CASE j[1].exp = "Prim1"
  BY <1>4, <1>5 DEF LastArm, OnOperands, x
<1>6. CASE j[1].exp = "Prim2"
  BY <1>4, <1>6 DEF LastArm, OnOperands, x
<1>7. CASE j[1].exp = "If"
  BY <1>4, <1>7 DEF LastArm, OnOperands, LoweredPart, x
<1>8. CASE j[1].exp = "Call"
  BY <1>4, <1>8 DEF LastArm, OnOperands, x
<1>9. CASE j[1].exp = "Let"
  BY <1>4, <1>9 DEF LastArm, LoweredPart, x
<1> QED
  BY <1>5, <1>6, <1>7, <1>8, <1>9 DEF Formed

-----------------------------------------------------------------------------
(* Between its steps, an expression waits for the values of the others.     *)

\* When the first steps of e gave vs, whatever e comes to is in G
Awaits(D, q, e, vs, env, G) ==
    /\ <<Interrupted, <<>>>> \in G
    /\ e.exp \in {"Prim1", "Prim2", "If"} /\ Len(vs) = 0 => Includes(D, q, e, env, G)
    /\ e.exp = "Prim1" /\ Len(vs) = 1 => \A r, o : Performs(e.op, vs[1], r, o) => <<r, o>> \in G
    /\ e.exp = "Prim2" /\ Len(vs) = 1 =>
          /\ Begins(D, q, e.e2, env)
          /\ \A r, o : Gives(D, q, e.e2, env, r, o) => <<Combined(e.op, vs[1], r), o>> \in G
    /\ e.exp = "Prim2" /\ Len(vs) = 2 => <<InterpretPrim2(e.op, vs[1], vs[2]), <<>>>> \in G
    /\ e.exp = "If" /\ Len(vs) = 1 =>
          IF vs[1].t = "Bool" THEN Includes(D, q, IF vs[1].b THEN e.thn ELSE e.els, env, G)
          ELSE <<ExpectedBool("if", vs[1]), <<>>>> \in G
    /\ e.exp = "Let" =>
          \E c : /\ c.exp = "Let" /\ c.body = e.body /\ Remain(e.bindings, Len(vs), c.bindings)
                 /\ Includes(D, q, c, env, G)
    /\ e.exp = "Call" =>
          \E c : /\ c.exp = "Applied" /\ c.f = e.f /\ c.vs = vs /\ Remain(e.args, Len(vs), c.args)
                 /\ Includes(D, q, c, env, G)

\* The variables in scope after the next step
EnvAfter(e, k, env, v) == IF e.exp = "Let" THEN Extend(env, e.bindings[k].var, v) ELSE env

\* What is in G when o has been printed is in G2 without o
PassesOn(G, o, G2) ==
    \A r : \A o2 \in Seq(Values) : <<r, o \o o2>> \in G => <<r, o2>> \in G2

\* Whatever is to come after o does so.
LEMMA AfterPassesOn ==
    ASSUME NEW D, NEW G, G \subseteq Outcomes(D), NEW o
    PROVE  PassesOn(G, o, After(D, G, o))
<1> SUFFICES ASSUME NEW r, NEW o2 \in Seq(Values), <<r, o \o o2>> \in G
             PROVE  <<r, o2>> \in After(D, G, o)
  BY DEF PassesOn
<1>1. <<r, o \o o2>> \in Outcomes(D)
  OBVIOUS
<1>2. <<r, o2>> \in Outcomes(D)
  BY <1>1 DEF Outcomes
<1> QED
  BY <1>2, AfterPrinting

\* So does all when nothing was printed.
LEMMA SamePassesOn ==
    ASSUME NEW G
    PROVE  PassesOn(G, <<>>, G)
BY NothingPrinted DEF PassesOn

\* Going on with all that passes on.
LEMMA GoesOnPassing ==
    ASSUME NEW D, NEW p, NEW e, NEW env, NEW G, Includes(D, p, e, env, G),
           NEW o, NEW x, NEW env2, GoesOn(D, p, e, env, o, x, env2), NEW G2, PassesOn(G, o, G2)
    PROVE  Includes(D, p, x, env2, G2)
<1>1. ASSUME NEW r, NEW o2, Gives(D, p, x, env2, r, o2) PROVE <<r, o2>> \in G2
  <2>1. Gives(D, p, e, env, r, o \o o2) /\ o2 \in Seq(Values)
    BY <1>1 DEF GoesOn, Gives
  <2> QED
    BY <2>1 DEF Includes, PassesOn
<1> QED
  BY <1>1 DEF GoesOn, Includes

\* What the proofs about steps know.
Stepwise(D, s, q) ==
    /\ AllInScope(D, s, q)
    /\ \A p, e, env, r, o : Gives(D, p, e, env, r, o) /\ ~IsErr(r) => Gives(D, p, e, env, Interrupted, o)

\* The next step begins, and its errors are those of the whole.
LEMMA AwaitsOpens ==
    ASSUME NEW D, NEW s, NEW q, Stepwise(D, s, q), NEW e, Formed(e), NEW vs \in Seq(Values),
           Len(vs) < Steps(e), NEW env, NEW G, Awaits(D, q, e, vs, env, G),
           NEW x, x = Children(e)[Len(vs) + 1]
    PROVE  /\ Begins(D, q, x, env)
           /\ \A r, o : Gives(D, q, x, env, r, o) /\ IsErr(r) => <<r, o>> \in G
<1>1. Rules(D) /\ q \in Programs /\ Len(vs) \in Nat
  BY DEF Stepwise, AllInScope
<1>2. \A c, env2 : Includes(D, q, c, env2, G) => EvalRule(D, q, c, env2)
  BY <1>1, RuleAt DEF Includes
<1>3. ASSUME NEW c, NEW env2, Includes(D, q, c, env2, G), First(D, q, c, x, env2), env2 = env
      PROVE  /\ Begins(D, q, x, env)
             /\ \A r, o : Gives(D, q, x, env, r, o) /\ IsErr(r) => <<r, o>> \in G
  BY <1>3 DEF First, Includes
<1>4. CASE e.exp = "Prim1"
  <2>1. Len(vs) = 0 /\ x = e.e
    BY <1>1, <1>4, StepChildren
  <2>2. Includes(D, q, e, env, G)
    BY <1>4, <2>1 DEF Awaits
  <2>3. First(D, q, e, x, env)
    BY <1>2, <1>4, <2>1, <2>2 DEF EvalRule, EvalPrim1
  <2> QED
    BY <1>3, <2>2, <2>3
<1>5. CASE e.exp = "Prim2" /\ Len(vs) = 0
  <2>1. x = e.e1
    BY <1>5, StepChildren
  <2>2. Includes(D, q, e, env, G)
    BY <1>5 DEF Awaits
  <2>3. First(D, q, e, x, env)
    BY <1>2, <1>5, <2>1, <2>2 DEF EvalRule, EvalPrim2
  <2> QED
    BY <1>3, <2>2, <2>3
<1>6. CASE e.exp = "Prim2" /\ Len(vs) # 0
  <2>1. Len(vs) = 1 /\ x = e.e2
    <3>1. Steps(e) = 2 /\ Children(e)[2] = e.e2
      BY <1>6, StepChildren
    <3>2. PICK k : k = Len(vs)
      OBVIOUS
    <3>3. k \in Nat /\ k # 0 /\ k < 2
      BY <1>1, <1>6, <3>1, <3>2
    <3>4. k = 1
      BY <3>3
    <3> QED
      BY <3>1, <3>2, <3>4
  <2> QED
    BY <1>6, <2>1 DEF Awaits, Combined
<1>7. CASE e.exp = "If"
  <2>1. Len(vs) = 0 /\ x = e.cond
    BY <1>1, <1>7, StepChildren
  <2>2. Includes(D, q, e, env, G)
    BY <1>7, <2>1 DEF Awaits
  <2>3. First(D, q, e, x, env)
    BY <1>2, <1>7, <2>1, <2>2 DEF EvalRule, EvalIf
  <2> QED
    BY <1>3, <2>2, <2>3
<1>8. CASE e.exp = "Let"
  <2>1. PICK c : /\ c.exp = "Let" /\ c.body = e.body /\ Remain(e.bindings, Len(vs), c.bindings)
                 /\ Includes(D, q, c, env, G)
    BY <1>8 DEF Awaits
  <2>2. Len(vs) < Len(e.bindings) /\ x = e.bindings[Len(vs) + 1].e
    BY <1>1, <1>8, StepChildren
  <2>3. c.bindings # <<>> /\ Head(c.bindings) = e.bindings[Len(vs) + 1]
    <3>1. Len(vs) # Len(e.bindings)
      BY <1>1, <2>2
    <3>2. /\ c.bindings = <<>> <=> Len(vs) = Len(e.bindings)
          /\ c.bindings # <<>> => /\ Head(c.bindings) = e.bindings[Len(vs) + 1]
                                  /\ Remain(e.bindings, Len(vs) + 1, Tail(c.bindings))
      BY ONLY <2>1, RemainTail
    <3> QED
      BY <2>2, <3>1, <3>2
  <2>4. First(D, q, c, x, env)
    BY <1>2, <2>1, <2>2, <2>3 DEF EvalRule, EvalLet
  <2> QED
    BY <1>3, <2>1, <2>4
<1>9. CASE e.exp = "Call"
  <2>1. PICK c : /\ c.exp = "Applied" /\ c.f = e.f /\ c.vs = vs /\ Remain(e.args, Len(vs), c.args)
                 /\ Includes(D, q, c, env, G)
    BY <1>9 DEF Awaits
  <2>2. Len(vs) < Len(e.args) /\ x = e.args[Len(vs) + 1]
    BY <1>1, <1>9, StepChildren
  <2>3. c.args # <<>> /\ Head(c.args) = x
    <3>1. Len(vs) # Len(e.args)
      BY <1>1, <2>2
    <3>2. Remain(e.args, Len(vs), c.args)
      BY <2>1
    <3>3. c.args # <<>> /\ Head(c.args) = e.args[Len(vs) + 1]
      BY <3>1, <3>2, RemainTail
    <3> QED
      BY <2>2, <3>3
  <2>4. First(D, q, c, x, env)
    BY <1>2, <2>1, <2>3 DEF EvalRule, EvalApplied
  <2> QED
    BY <1>3, <2>1, <2>4
<1> QED
  BY <1>4, <1>5, <1>6, <1>7, <1>8, <1>9 DEF Formed

\* When it has given a value, the expression waits for the steps that remain.
LEMMA AwaitsNext ==
    ASSUME NEW D, NEW s, NEW q, Stepwise(D, s, q), NEW e, Formed(e), NEW vs \in Seq(Values),
           Len(vs) < Steps(e), NEW env, NEW G, Awaits(D, q, e, vs, env, G),
           NEW x, x = Children(e)[Len(vs) + 1], NEW v \in Values, NEW o, Gives(D, q, x, env, v, o),
           NEW G2, PassesOn(G, o, G2)
    PROVE  Awaits(D, q, e, Append(vs, v), EnvAfter(e, Len(vs) + 1, env, v), G2)
<1> DEFINE vs2 == Append(vs, v)
<1>1. Rules(D) /\ q \in Programs /\ Len(vs) \in Nat /\ o \in Seq(Values)
  BY DEF Stepwise, AllInScope, Gives
<1>2. \A c, env2 : Includes(D, q, c, env2, G) => EvalRule(D, q, c, env2)
  BY <1>1, RuleAt DEF Includes
<1>3. Len(vs2) = Len(vs) + 1 /\ vs2[Len(vs) + 1] = v /\ \A i \in 1 .. Len(vs) : vs2[i] = vs[i]
  OBVIOUS
<1> HIDE DEF vs2
<1>4. <<Interrupted, <<>>>> \in G2
  <2>1. Gives(D, q, x, env, Interrupted, o)
    BY ValuesAreNotErrors DEF Stepwise
  <2>2. <<Interrupted, o>> \in G
    BY <2>1, AwaitsOpens, ValuesAreNotErrors
  <2>3. o \o <<>> = o /\ <<>> \in Seq(Values)
    BY <1>1, NothingPrinted
  <2> QED
    BY <2>2, <2>3 DEF PassesOn
<1>5. CASE e.exp = "Prim1"
  <2>1. Len(vs) = 0 /\ x = e.e /\ vs2[1] = v /\ Len(vs2) = 1
    BY <1>1, <1>3, <1>5, StepChildren
  <2>2. Includes(D, q, e, env, G)
    BY <1>5, <2>1 DEF Awaits
  <2>3. EvalPrim1(D, q, e, env)
    BY <1>2, <1>5, <2>2 DEF EvalRule
  <2>4. ASSUME NEW r, NEW o2, Performs(e.op, v, r, o2) PROVE <<r, o2>> \in G2
    <3>1. Gives(D, q, e, env, r, o \o o2)
      BY <2>1, <2>3, <2>4 DEF EvalPrim1
    <3>2. <<v>> \in Seq(Values) /\ <<>> \in Seq(Values)
      OBVIOUS
    <3>3. o2 \in Seq(Values)
      BY <2>4, <3>2 DEF Performs
    <3> QED
      BY <2>2, <3>1, <3>3 DEF Includes, PassesOn
  <2>5. Awaits(D, q, e, vs2, env, G2)
    BY <1>4, <1>5, <2>1, <2>4 DEF Awaits
  <2> QED
    BY <1>5, <2>5 DEF EnvAfter, vs2
<1>6. CASE e.exp = "Prim2" /\ Len(vs) = 0
  <2>1. x = e.e1 /\ vs2[1] = v /\ Len(vs2) = 1
    BY <1>1, <1>3, <1>6, StepChildren
  <2>2. Includes(D, q, e, env, G)
    BY <1>6 DEF Awaits
  <2>3. /\ Begins(D, q, e.e2, env)
        /\ \A r, o2 : Gives(D, q, e.e2, env, r, o2) => Gives(D, q, e, env, Combined(e.op, v, r), o \o o2)
    <3>1. EvalPrim2(D, q, e, env)
      BY <1>2, <1>6, <2>2 DEF EvalRule
    <3> QED
      BY <2>1, <3>1 DEF EvalPrim2
  <2>4. ASSUME NEW r, NEW o2, Gives(D, q, e.e2, env, r, o2) PROVE <<Combined(e.op, v, r), o2>> \in G2
    <3>1. Gives(D, q, e, env, Combined(e.op, v, r), o \o o2) /\ o2 \in Seq(Values)
      BY <2>3, <2>4 DEF Gives
    <3> QED
      BY <2>2, <3>1 DEF Includes, PassesOn
  <2>5. Awaits(D, q, e, vs2, env, G2)
    BY <1>4, <1>6, <2>1, <2>3, <2>4 DEF Awaits
  <2> QED
    BY <1>6, <2>5 DEF EnvAfter, vs2
<1>7. CASE e.exp = "Prim2" /\ Len(vs) # 0
  <2>1. Len(vs) = 1 /\ x = e.e2 /\ Len(vs2) = 2 /\ vs2[1] = vs[1] /\ vs2[2] = v
    <3>1. Steps(e) = 2 /\ Children(e)[2] = e.e2
      BY <1>7, StepChildren
    <3>2. Len(vs) \in Nat /\ Len(vs) # 0 /\ Len(vs) < 2
      BY <1>1, <1>7, <3>1
    <3>3. Len(vs) = 1
      <4>1. \A n \in Nat : n # 0 /\ n < 2 => n = 1
        OBVIOUS
      <4> QED
        BY <3>2, <4>1
    <3>4. x = e.e2
      BY <3>1, <3>3
    <3> QED
      BY <1>3, <3>3, <3>4
  <2>2. <<Combined(e.op, vs[1], v), o>> \in G
    BY <1>7, <2>1 DEF Awaits
  <2>3. Combined(e.op, vs[1], v) = InterpretPrim2(e.op, vs[1], v)
    BY ValuesAreNotErrors DEF Combined
  <2>4. o \o <<>> = o /\ <<>> \in Seq(Values)
    BY <1>1, NothingPrinted
  <2>5. <<InterpretPrim2(e.op, vs2[1], vs2[2]), <<>>>> \in G2
    BY <2>1, <2>2, <2>3, <2>4 DEF PassesOn
  <2>6. Awaits(D, q, e, vs2, env, G2)
    BY <1>4, <1>7, <2>1, <2>5 DEF Awaits
  <2> QED
    BY <1>7, <2>6 DEF EnvAfter, vs2
<1>8. CASE e.exp = "If"
  <2>1. Len(vs) = 0 /\ x = e.cond /\ vs2[1] = v /\ Len(vs2) = 1
    BY <1>1, <1>3, <1>8, StepChildren
  <2>2. Includes(D, q, e, env, G)
    BY <1>8, <2>1 DEF Awaits
  <2>3. IF v.t = "Bool" THEN GoesOn(D, q, e, env, o, IF v.b THEN e.thn ELSE e.els, env)
        ELSE Gives(D, q, e, env, ExpectedBool("if", v), o)
    BY <1>2, <1>8, <2>1, <2>2 DEF EvalRule, EvalIf
  <2>4. CASE v.t = "Bool"
    <3>1. Includes(D, q, IF v.b THEN e.thn ELSE e.els, env, G2)
      BY <2>2, <2>3, <2>4, GoesOnPassing
    <3>2. Awaits(D, q, e, vs2, env, G2)
      BY <1>4, <1>8, <2>1, <2>4, <3>1 DEF Awaits
    <3> QED
      BY <1>8, <3>2 DEF EnvAfter, vs2
  <2>5. CASE v.t # "Bool"
    <3>1. o \o <<>> = o /\ <<>> \in Seq(Values)
      BY <1>1, NothingPrinted
    <3>2. <<ExpectedBool("if", v), <<>>>> \in G2
      BY <2>2, <2>3, <2>5, <3>1 DEF Includes, PassesOn
    <3>3. Awaits(D, q, e, vs2, env, G2)
      BY <1>4, <1>8, <2>1, <2>5, <3>2 DEF Awaits
    <3> QED
      BY <1>8, <3>3 DEF EnvAfter, vs2
  <2> QED
    BY <2>4, <2>5
<1>9. CASE e.exp = "Let"
  <2>1. PICK c : /\ c.exp = "Let" /\ c.body = e.body /\ Remain(e.bindings, Len(vs), c.bindings)
                 /\ Includes(D, q, c, env, G)
    BY <1>9 DEF Awaits
  <2>2. Len(vs) < Len(e.bindings) /\ x = e.bindings[Len(vs) + 1].e
    BY <1>1, <1>9, StepChildren
  <2>3. /\ c.bindings # <<>> /\ Head(c.bindings) = e.bindings[Len(vs) + 1]
        /\ Remain(e.bindings, Len(vs) + 1, Tail(c.bindings))
    <3>1. Len(vs) # Len(e.bindings)
      BY <1>1, <2>2
    <3>2. /\ c.bindings = <<>> <=> Len(vs) = Len(e.bindings)
          /\ c.bindings # <<>> => /\ Head(c.bindings) = e.bindings[Len(vs) + 1]
                                  /\ Remain(e.bindings, Len(vs) + 1, Tail(c.bindings))
      BY ONLY <2>1, RemainTail
    <3> QED
      BY <2>2, <3>1, <3>2
  <2>4. PICK c2 : c2 = Let(Tail(c.bindings), c.body)
    OBVIOUS
  <2>5. PICK env2 : env2 = Extend(env, e.bindings[Len(vs) + 1].var, v)
    OBVIOUS
  <2>6. GoesOn(D, q, c, env, o, c2, env2)
    BY <1>2, <2>1, <2>2, <2>3, <2>4, <2>5 DEF EvalRule, EvalLet
  <2>7. Includes(D, q, c2, env2, G2)
    BY <2>1, <2>6, GoesOnPassing
  <2>8. c2.exp = "Let" /\ c2.body = e.body /\ c2.bindings = Tail(c.bindings)
    BY <2>1, <2>4 DEF Let
  <2>9. Awaits(D, q, e, vs2, env2, G2)
    BY <1>3, <1>4, <1>9, <2>3, <2>7, <2>8 DEF Awaits
  <2> QED
    BY <1>9, <2>5, <2>9 DEF EnvAfter, vs2
<1>10. CASE e.exp = "Call"
  <2>1. PICK c : /\ c.exp = "Applied" /\ c.f = e.f /\ c.vs = vs /\ Remain(e.args, Len(vs), c.args)
                 /\ Includes(D, q, c, env, G)
    BY <1>10 DEF Awaits
  <2>2. Len(vs) < Len(e.args) /\ x = e.args[Len(vs) + 1]
    BY <1>1, <1>10, StepChildren
  <2>3. c.args # <<>> /\ Head(c.args) = x /\ Remain(e.args, Len(vs) + 1, Tail(c.args))
    <3>1. Len(vs) # Len(e.args)
      BY <1>1, <2>2
    <3>2. /\ c.args = <<>> <=> Len(vs) = Len(e.args)
          /\ c.args # <<>> => /\ Head(c.args) = e.args[Len(vs) + 1]
                              /\ Remain(e.args, Len(vs) + 1, Tail(c.args))
      BY ONLY <2>1, RemainTail
    <3> QED
      BY <2>2, <3>1, <3>2
  <2>4. PICK c2 : c2 = Applied(c.f, Append(c.vs, v), Tail(c.args))
    OBVIOUS
  <2>5. GoesOn(D, q, c, env, o, c2, env)
    BY <1>2, <2>1, <2>3, <2>4 DEF EvalRule, EvalApplied
  <2>6. Includes(D, q, c2, env, G2)
    BY <2>1, <2>5, GoesOnPassing
  <2>7. c2.exp = "Applied" /\ c2.f = e.f /\ c2.vs = vs2 /\ c2.args = Tail(c.args)
    BY <2>1, <2>4 DEF Applied, vs2
  <2>8. Awaits(D, q, e, vs2, env, G2)
    BY <1>3, <1>4, <1>10, <2>3, <2>6, <2>7 DEF Awaits
  <2> QED
    BY <1>10, <2>8 DEF EnvAfter, vs2
<1> QED
  BY <1>5, <1>6, <1>7, <1>8, <1>9, <1>10 DEF Formed

\* An expression that begins waits for all its steps.
LEMMA AwaitsAll ==
    ASSUME NEW D, NEW s, NEW q, Stepwise(D, s, q), NEW e, Formed(e), NEW env, NEW G,
           Includes(D, q, e, env, G)
    PROVE  Awaits(D, q, e, <<>>, env, G)
<1>1. Rules(D) /\ q \in Programs
  BY DEF Stepwise, AllInScope
<1>2. EvalRule(D, q, e, env) /\ <<Interrupted, <<>>>> \in G
  BY <1>1, RuleAt DEF Includes, Begins
<1>3. Len(<<>>) = 0
  OBVIOUS
<1>4. CASE e.exp \in {"Prim1", "Prim2", "If"}
  BY <1>2, <1>3, <1>4 DEF Awaits
<1>5. CASE e.exp = "Let"
  <2>1. Remain(e.bindings, 0, e.bindings)
    BY <1>5, RemainAll DEF Formed
  <2> QED
    BY <1>2, <1>3, <1>5, <2>1 DEF Awaits
<1>6. CASE e.exp = "Call"
  <2>1. Remain(e.args, 0, e.args)
    BY <1>6, RemainAll DEF Formed
  <2>2. PICK c : c = Applied(e.f, <<>>, e.args)
    OBVIOUS
  <2>3. c.exp = "Applied" /\ c.f = e.f /\ c.vs = <<>> /\ c.args = e.args
    BY <2>2 DEF Applied
  <2>4. GoesOn(D, q, e, env, <<>>, c, env)
    BY <1>2, <1>6, <2>2 DEF EvalRule
  <2>5. Includes(D, q, c, env, G)
    BY <2>4, GoesOnPassing, SamePassesOn
  <2> QED
    BY <1>2, <1>3, <1>6, <2>1, <2>3, <2>5 DEF Awaits
<1> QED
  BY <1>4, <1>5, <1>6 DEF Formed

-----------------------------------------------------------------------------
(* What the lowered program begins, and what it is for.                     *)

\* The immediate expression x has the value v
ImmValue(x, env, v) ==
    \/ x.exp = "Num" /\ v = NumV(x.n)
    \/ x.exp = "Bool" /\ v = BoolV(x.b)
    \/ x.exp = "Var" /\ x.x \in DOMAIN env /\ v = env[x.x]

\* The variables of the source, and among others the temporaries
SourceIn(env1, env2) ==
    \A x \in DOMAIN env1 : Written(x) /\ x \in DOMAIN env2 /\ env2[x] = env1[x]

\* The operands have the values vs: those that stay, and those that were bound
OperandsAre(e, ann, vs, env1, env2) ==
    \A i \in 1 .. Len(vs) :
        IF Stays(e, i) THEN ImmValue(Operands(e)[i], env1, vs[i])
        ELSE Temp(e, ann, i) \in DOMAIN env2 /\ env2[Temp(e, ann, i)] = vs[i]

\* The first steps of the expression of j have given vs
Waits(D, w, q, j, vs, env1, env2, G) ==
    /\ j \in w.asked /\ Formed(j[1])
    /\ vs \in Seq(Values) /\ Len(vs) <= Steps(j[1])
    /\ Awaits(D, q, j[1], vs, env1, G) /\ SourceIn(env1, env2)
    /\ j[1].exp # "Let" => OperandsAre(j[1], w.tag[j], vs, env1, env2)

\* x comes to a value that is in G
HasValue(x, env, G) ==
    \E v \in Values : ImmValue(x, env, v) /\ <<v, <<>>>> \in G /\ <<Interrupted, <<>>>> \in G

\* x2 is made of an expression, or of what comes from one of its steps on
Entering(D, w, q, x2, env2, G) ==
    \/ HasValue(x2, env2, G)
    \/ \E j, env1 : Waits(D, w, q, j, <<>>, env1, env2, G) /\ x2 = w.rest[<<j, 1>>]

Part(D, w, q, x2, env2, G) ==
    \/ HasValue(x2, env2, G)
    \/ \E j, vs, env1 : Waits(D, w, q, j, vs, env1, env2, G) /\ x2 = w.rest[<<j, Len(vs) + 1>>]

\* An immediate expression that begins has a value.
LEMMA ImmediateValue ==
    ASSUME NEW D, NEW s, NEW q, AllInScope(D, s, q), NEW x, Immediate(x), NEW env, Begins(D, q, x, env)
    PROVE  \E v \in Values : ImmValue(x, env, v) /\ Gives(D, q, x, env, v, <<>>)
<1>1. EvalRule(D, q, x, env) /\ Scoped(q, x, env)
  BY RuleAt DEF AllInScope
<1>2. x.exp = "Num" \/ x.exp = "Bool" \/ x.exp = "Var"
  BY ImmediateKinds
<1>3. AcceptedShape(x, DOMAIN env, Arities(q)) /\ EnvOK(env)
  BY <1>1, <1>2 DEF Scoped
<1>4. CASE x.exp = "Num"
  <2>1. NumV(x.n) \in Values
    BY <1>3, <1>4 DEF AcceptedShape, Values, NumV
  <2> QED
    BY <1>1, <1>4, <2>1 DEF EvalRule, ImmValue
<1>5. CASE x.exp = "Bool"
  <2>1. BoolV(x.b) \in Values
    BY <1>3, <1>5, BoolIsValue DEF AcceptedShape
  <2> QED
    BY <1>1, <1>5, <2>1 DEF EvalRule, ImmValue
<1>6. CASE x.exp = "Var"
  <2>1. x.x \in DOMAIN env /\ env[x.x] \in Values
    BY <1>3, <1>6 DEF AcceptedShape, EnvOK
  <2> QED
    BY <1>1, <1>6, <2>1 DEF EvalRule, ImmValue
<1> QED
  BY <1>2, <1>4, <1>5, <1>6

\* It has that value among the temporaries, too.
LEMMA ImmWithin ==
    ASSUME NEW x, NEW env1, NEW env2, SourceIn(env1, env2), NEW v, ImmValue(x, env1, v)
    PROVE  ImmValue(x, env2, v)
BY DEF ImmValue, SourceIn

\* What an expression that begins becomes.
LEMMA Enters ==
    ASSUME NEW D, NEW s, NEW q, Stepwise(D, s, q), NEW w, LoweringKnown(w), NEW y \in w.asked,
           NEW env1, NEW env2, SourceIn(env1, env2), NEW G, Includes(D, q, y[1], env1, G)
    PROVE  Entering(D, w, q, w.made[y], env2, G)
<1>1. /\ AllInScope(D, s, q) /\ q \in Programs /\ Begins(D, q, y[1], env1)
      /\ Scoped(q, y[1], env1) /\ y[1].exp # "Applied"
  BY DEF Stepwise, AllInScope, Includes, LoweringKnown
<1>2. CASE Immediate(y[1])
  <2>1. w.made[y] = y[1]
    BY <1>2 DEF LoweringKnown
  <2>2. PICK v \in Values : ImmValue(y[1], env1, v) /\ Gives(D, q, y[1], env1, v, <<>>)
    BY <1>1, <1>2, ImmediateValue
  <2>3. ImmValue(y[1], env2, v) /\ <<v, <<>>>> \in G /\ <<Interrupted, <<>>>> \in G
    BY <2>2, ImmWithin DEF Includes, Begins
  <2> QED
    BY <2>1, <2>3 DEF Entering, HasValue
<1>3. CASE ~Immediate(y[1])
  <2>1. w.made[y] = w.rest[<<y, 1>>]
    BY <1>3 DEF LoweringKnown
  <2>2. Formed(y[1])
    <3>1. CASE y[1].exp = "Let"
      BY <1>1, <3>1 DEF Scoped, LetAccepted, Formed
    <3>2. CASE y[1].exp # "Let"
      <4>1. AcceptedShape(y[1], DOMAIN env1, Arities(q))
        BY <1>1, <3>2 DEF Scoped
      <4>2. y[1].exp # "Num" /\ y[1].exp # "Bool" /\ y[1].exp # "Var"
        BY <1>3, ImmediateKinds
      <4> QED
        BY <3>2, <4>1, <4>2 DEF AcceptedShape, Formed
    <3> QED
      BY <3>1, <3>2
  <2>3. Awaits(D, q, y[1], <<>>, env1, G)
    BY <2>2, AwaitsAll
  <2>4. /\ <<>> \in Seq(Values) /\ Len(<<>>) = 0 /\ 0 <= Steps(y[1])
        /\ OperandsAre(y[1], w.tag[y], <<>>, env1, env2)
    BY <2>2, StepChildren DEF OperandsAre
  <2>5. Waits(D, w, q, y, <<>>, env1, env2, G)
    BY <2>2, <2>3, <2>4 DEF Waits
  <2> QED
    BY <2>1, <2>5 DEF Entering
<1> QED
  BY <1>2, <1>3

\* It is a part.
LEMMA EnteredPart ==
    ASSUME NEW D, NEW w, NEW q, NEW x2, NEW env2, NEW G, Entering(D, w, q, x2, env2, G)
    PROVE  Part(D, w, q, x2, env2, G)
<1>1. Len(<<>>) + 1 = 1
  OBVIOUS
<1> QED
  BY <1>1 DEF Entering, Part

-----------------------------------------------------------------------------
(* The temporaries.                                                         *)

\* No temporary has the name of a variable, or that of another operand.
LEMMA TempsApart ==
    ASSUME NEW e, Formed(e), e.exp # "Let", NEW ann, NEW k \in 1 .. Steps(e)
    PROVE  /\ ~Written(Temp(e, ann, k))
           /\ \A i \in 1 .. k - 1 : ~Stays(e, i) => Temp(e, ann, i) # Temp(e, ann, k)
<1>1. Steps(e) \in Nat
  BY StepChildren
<1>2. CASE e.exp = "Prim1"
  <2>1. k = 1
    BY <1>2, StepChildren
  <2>2. Temp(e, ann, k) = <<"#prim1", ann>>
    BY <1>2 DEF Temp
  <2> QED
    BY <2>1, <2>2 DEF Written
<1>3. CASE e.exp = "If"
  <2>1. k = 1
    BY <1>3, StepChildren
  <2>2. Temp(e, ann, k) = <<"#if", ann>>
    BY <1>3 DEF Temp
  <2> QED
    BY <2>1, <2>2 DEF Written
<1>4. CASE e.exp = "Prim2"
  <2>1. (k = 1 \/ k = 2) /\ Children(e)[1] = e.e1 /\ Operands(e)[1] = e.e1
    BY <1>4, StepChildren
  <2>2. Temp(e, ann, 1) = <<"#prim2", 1, ann>>
    BY <1>4 DEF Temp
  <2>3. Temp(e, ann, 2) = <<"#prim2", IF Immediate(e.e1) THEN 1 ELSE 2, ann>>
    BY <1>4 DEF Temp, SecondTemp
  <2>4. ~Stays(e, 1) => Temp(e, ann, 1) # Temp(e, ann, 2)
    BY <1>4, <2>1, <2>2, <2>3 DEF Stays
  <2>5. ~Written(Temp(e, ann, 1)) /\ ~Written(Temp(e, ann, 2))
    BY <2>2, <2>3 DEF Written
  <2>6. CASE k = 1
    BY <2>5, <2>6
  <2>7. CASE k = 2
    <3>1. \A i \in 1 .. 2 - 1 : i = 1
      OBVIOUS
    <3> QED
      BY <2>4, <2>5, <2>7, <3>1
  <2> QED
    BY <2>1, <2>6, <2>7
<1>5. CASE e.exp = "Call"
  <2>1. \A i : Temp(e, ann, i) = <<"#call", ann, i - 1>>
    BY <1>5 DEF Temp
  <2>2. ~Written(Temp(e, ann, k))
    BY <2>1 DEF Written
  <2>3. ASSUME NEW i \in 1 .. k - 1 PROVE Temp(e, ann, i) # Temp(e, ann, k)
    <3>1. i - 1 # k - 1
      BY <1>1
    <3> QED
      BY <2>1, <3>1
  <2> QED
    BY <2>2, <2>3
<1> QED
  BY <1>2, <1>3, <1>4, <1>5 DEF Formed

-----------------------------------------------------------------------------
(* From one step to the next.                                               *)

\* The operands hold their values, and so does the next.
LEMMA HeldNext ==
    ASSUME NEW e, Formed(e), e.exp # "Let", NEW ann, NEW vs \in Seq(Values), Len(vs) < Steps(e),
           NEW env1, NEW env2, OperandsAre(e, ann, vs, env1, env2), NEW v \in Values, NEW env3,
           IF Stays(e, Len(vs) + 1)
           THEN ImmValue(Operands(e)[Len(vs) + 1], env1, v) /\ env3 = env2
           ELSE env3 = Extend(env2, Temp(e, ann, Len(vs) + 1), v)
    PROVE  OperandsAre(e, ann, Append(vs, v), env1, env3)
<1>1. Len(vs) \in Nat /\ Steps(e) \in Nat
  BY StepChildren
<1> DEFINE n == Len(vs)
           vs2 == Append(vs, v)
<1>2. Len(vs2) = n + 1 /\ vs2[n + 1] = v /\ \A i \in 1 .. n : vs2[i] = vs[i]
  OBVIOUS
<1>3. n + 1 \in 1 .. Steps(e) /\ (n + 1) - 1 = n
  BY <1>1
<1> HIDE DEF n, vs2
<1>4. ASSUME NEW i \in 1 .. n
      PROVE  IF Stays(e, i) THEN ImmValue(Operands(e)[i], env1, vs2[i])
             ELSE Temp(e, ann, i) \in DOMAIN env3 /\ env3[Temp(e, ann, i)] = vs2[i]
  <2>1. IF Stays(e, i) THEN ImmValue(Operands(e)[i], env1, vs[i])
        ELSE Temp(e, ann, i) \in DOMAIN env2 /\ env2[Temp(e, ann, i)] = vs[i]
    BY <1>4 DEF OperandsAre, n
  <2>2. CASE Stays(e, i)
    BY <1>2, <2>1, <2>2
  <2>3. CASE ~Stays(e, i) /\ Stays(e, n + 1)
    BY <1>2, <2>1, <2>3 DEF n
  <2>4. CASE ~Stays(e, i) /\ ~Stays(e, n + 1)
    <3>1. i \in 1 .. (n + 1) - 1
      BY <1>3, <1>4
    <3>2. Temp(e, ann, i) # Temp(e, ann, n + 1)
      BY <1>3, <2>4, <3>1, TempsApart
    <3>3. env3 = Extend(env2, Temp(e, ann, n + 1), v)
      BY <2>4 DEF n
    <3>4. /\ DOMAIN env3 = DOMAIN env2 \cup {Temp(e, ann, n + 1)}
          /\ \A y \in DOMAIN env2 : y # Temp(e, ann, n + 1) => env3[y] = env2[y]
      BY <3>3 DEF Extend
    <3> QED
      BY <1>2, <2>1, <2>4, <3>2, <3>4
  <2> QED
    BY <2>2, <2>3, <2>4
<1>5. IF Stays(e, n + 1) THEN ImmValue(Operands(e)[n + 1], env1, vs2[n + 1])
      ELSE Temp(e, ann, n + 1) \in DOMAIN env3 /\ env3[Temp(e, ann, n + 1)] = vs2[n + 1]
  <2>1. CASE Stays(e, n + 1)
    BY <1>2, <2>1 DEF n
  <2>2. CASE ~Stays(e, n + 1)
    <3>1. env3 = Extend(env2, Temp(e, ann, n + 1), v)
      BY <2>2 DEF n
    <3>2. /\ DOMAIN env3 = DOMAIN env2 \cup {Temp(e, ann, n + 1)}
          /\ env3[Temp(e, ann, n + 1)] = v
      BY <3>1 DEF Extend
    <3> QED
      BY <1>2, <2>2, <3>2
  <2> QED
    BY <2>1, <2>2
<1>6. \A i \in 1 .. n + 1 : i \in 1 .. n \/ i = n + 1
  BY <1>1 DEF n
<1>7. \A i \in 1 .. Len(vs2) :
        IF Stays(e, i) THEN ImmValue(Operands(e)[i], env1, vs2[i])
        ELSE Temp(e, ann, i) \in DOMAIN env3 /\ env3[Temp(e, ann, i)] = vs2[i]
  BY <1>2, <1>4, <1>5, <1>6
<1> QED
  BY <1>7 DEF OperandsAre, vs2

\* The variables of the source stay apart from the temporaries.
LEMMA WithinNext ==
    ASSUME NEW w, LoweringKnown(w), NEW j \in w.asked, Formed(j[1]), NEW k \in 1 .. Steps(j[1]),
           NEW env1, NEW env2, SourceIn(env1, env2), NEW v, NEW env3,
           \/ j[1].exp = "Let" /\ env3 = Extend(env2, j[1].bindings[k].var, v)
           \/ j[1].exp # "Let" /\ (env3 = env2 \/ env3 = Extend(env2, Temp(j[1], w.tag[j], k), v))
    PROVE  SourceIn(EnvAfter(j[1], k, env1, v), env3)
<1>1. CASE j[1].exp = "Let"
  <2>1. PICK x : x = j[1].bindings[k].var
    OBVIOUS
  <2>2. k \in DOMAIN j[1].bindings
    BY <1>1, StepChildren, IsSeqDomain DEF Formed
  <2>3. Written(x)
    BY <1>1, <2>1, <2>2 DEF LoweringKnown
  <2>4. SourceIn(Extend(env1, x, v), Extend(env2, x, v))
    <3>1. PICK f1, f2 : f1 = Extend(env1, x, v) /\ f2 = Extend(env2, x, v)
      OBVIOUS
    <3>2. /\ DOMAIN f1 = DOMAIN env1 \cup {x} /\ f1[x] = v /\ \A y \in DOMAIN env1 : y # x => f1[y] = env1[y]
          /\ DOMAIN f2 = DOMAIN env2 \cup {x} /\ f2[x] = v /\ \A y \in DOMAIN env2 : y # x => f2[y] = env2[y]
      BY <3>1 DEF Extend
    <3>3. SourceIn(f1, f2)
      BY <2>3, <3>2 DEF SourceIn
    <3> QED
      BY <3>1, <3>3
  <2> QED
    BY <1>1, <2>1, <2>4 DEF EnvAfter
<1>2. CASE j[1].exp # "Let" /\ env3 = env2
  BY <1>2 DEF EnvAfter
<1>3. CASE j[1].exp # "Let" /\ env3 = Extend(env2, Temp(j[1], w.tag[j], k), v)
  <2>1. PICK x : x = Temp(j[1], w.tag[j], k)
    OBVIOUS
  <2>2. ~Written(x)
    BY <1>3, <2>1, TempsApart
  <2>3. SourceIn(env1, Extend(env2, x, v))
    <3>1. PICK f2 : f2 = Extend(env2, x, v)
      OBVIOUS
    <3>2. DOMAIN f2 = DOMAIN env2 \cup {x} /\ \A y \in DOMAIN env2 : y # x => f2[y] = env2[y]
      BY <3>1 DEF Extend
    <3>3. SourceIn(env1, f2)
      BY <2>2, <3>2 DEF SourceIn
    <3> QED
      BY <3>1, <3>3
  <2> QED
    BY <1>3, <2>1, <2>3 DEF EnvAfter
<1> QED
  BY <1>1, <1>2, <1>3

\* One step further.
LEMMA WaitsNext ==
    ASSUME NEW D, NEW s, NEW q, Stepwise(D, s, q), NEW w, LoweringKnown(w),
           NEW j, NEW vs, NEW env1, NEW env2, NEW G, Waits(D, w, q, j, vs, env1, env2, G),
           Len(vs) < Steps(j[1]), NEW x, x = Children(j[1])[Len(vs) + 1],
           NEW v \in Values, NEW o, Gives(D, q, x, env1, v, o), NEW G2, PassesOn(G, o, G2), NEW env3,
           \/ j[1].exp = "Let" /\ env3 = Extend(env2, j[1].bindings[Len(vs) + 1].var, v)
           \/ /\ j[1].exp # "Let" /\ Stays(j[1], Len(vs) + 1) /\ env3 = env2
              /\ ImmValue(x, env1, v)
           \/ /\ j[1].exp # "Let" /\ ~Stays(j[1], Len(vs) + 1)
              /\ env3 = Extend(env2, Temp(j[1], w.tag[j], Len(vs) + 1), v)
    PROVE  Waits(D, w, q, j, Append(vs, v), EnvAfter(j[1], Len(vs) + 1, env1, v), env3, G2)
<1>1. /\ j \in w.asked /\ Formed(j[1]) /\ vs \in Seq(Values)
      /\ Awaits(D, q, j[1], vs, env1, G) /\ SourceIn(env1, env2)
      /\ j[1].exp # "Let" => OperandsAre(j[1], w.tag[j], vs, env1, env2)
  BY DEF Waits
<1>2. Len(vs) \in Nat /\ Steps(j[1]) \in Nat
  BY <1>1, StepChildren
<1>3. Len(vs) + 1 \in 1 .. Steps(j[1])
  BY <1>2
<1>4. Awaits(D, q, j[1], Append(vs, v), EnvAfter(j[1], Len(vs) + 1, env1, v), G2)
  BY <1>1, AwaitsNext
<1>5. SourceIn(EnvAfter(j[1], Len(vs) + 1, env1, v), env3)
  BY <1>1, <1>3, WithinNext
<1>6. ASSUME j[1].exp # "Let" PROVE OperandsAre(j[1], w.tag[j], Append(vs, v), env1, env3)
  <2>1. Operands(j[1])[Len(vs) + 1] = x
    BY <1>1, <1>3, <1>6, StepChildren
  <2> QED
    BY <1>1, <1>6, <2>1, HeldNext
<1>7. j[1].exp # "Let" => EnvAfter(j[1], Len(vs) + 1, env1, v) = env1
  BY DEF EnvAfter
<1>8. Append(vs, v) \in Seq(Values) /\ Len(Append(vs, v)) = Len(vs) + 1
  BY <1>1
<1>9. Len(Append(vs, v)) <= Steps(j[1])
  BY <1>2, <1>8
<1> QED
  BY <1>1, <1>4, <1>5, <1>6, <1>7, <1>8, <1>9 DEF Waits

-----------------------------------------------------------------------------
(* Immediate operands make no step.                                         *)

\* The lowered program is at a step, or there is none left
Settled(j, vs) ==
    IF j[1].exp = "Let" THEN Len(vs) < Steps(j[1])
    ELSE Len(vs) < Steps(j[1]) => ~Stays(j[1], Len(vs) + 1)

\* x2 is what comes from there on
SettlesAs(D, w, q, x2, env2, G) ==
    \E j, vs, env1 : /\ Waits(D, w, q, j, vs, env1, env2, G) /\ Settled(j, vs)
                     /\ x2 = w.rest[<<j, Len(vs) + 1>>]

\* Over an operand that stays.
LEMMA SkipsOne ==
    ASSUME NEW D, NEW s, NEW q, Stepwise(D, s, q), NEW w, LoweringKnown(w),
           NEW j, NEW vs, NEW env1, NEW env2, NEW G, Waits(D, w, q, j, vs, env1, env2, G),
           Len(vs) < Steps(j[1]), j[1].exp # "Let", Stays(j[1], Len(vs) + 1)
    PROVE  \E v \in Values :
              /\ Waits(D, w, q, j, Append(vs, v), env1, env2, G)
              /\ w.rest[<<j, Len(Append(vs, v)) + 1>>] = w.rest[<<j, Len(vs) + 1>>]
<1>1. j \in w.asked /\ Formed(j[1]) /\ vs \in Seq(Values) /\ Awaits(D, q, j[1], vs, env1, G)
  BY DEF Waits
<1>2. Len(vs) \in Nat /\ Len(vs) + 1 \in 1 .. Steps(j[1])
  BY <1>1, StepChildren
<1>3. PICK x : x = Children(j[1])[Len(vs) + 1]
  OBVIOUS
<1>4. Begins(D, q, x, env1)
  BY <1>1, <1>3, AwaitsOpens
<1>5. Immediate(x)
  BY <1>1, <1>2, <1>3, StepChildren DEF Stays
<1>6. PICK v \in Values : ImmValue(x, env1, v) /\ Gives(D, q, x, env1, v, <<>>)
  BY <1>4, <1>5, ImmediateValue DEF Stepwise
<1>7. Waits(D, w, q, j, Append(vs, v), EnvAfter(j[1], Len(vs) + 1, env1, v), env2, G)
  BY <1>3, <1>6, SamePassesOn, WaitsNext
<1>8. EnvAfter(j[1], Len(vs) + 1, env1, v) = env1
  BY DEF EnvAfter
<1>9. Len(Append(vs, v)) = Len(vs) + 1
  BY <1>1
<1>10. w.rest[<<j, Len(vs) + 1>>] = w.rest[<<j, (Len(vs) + 1) + 1>>]
  BY <1>1, <1>2, RestOfSteps
<1> QED
  BY <1>7, <1>8, <1>9, <1>10

\* And over all that come next.
LEMMA SkipsAll ==
    ASSUME NEW D, NEW s, NEW q, Stepwise(D, s, q), NEW w, LoweringKnown(w),
           NEW j, NEW vs, NEW env1, NEW env2, NEW G, Waits(D, w, q, j, vs, env1, env2, G),
           j[1].exp # "Let"
    PROVE  SettlesAs(D, w, q, w.rest[<<j, Len(vs) + 1>>], env2, G)
<1> DEFINE P(us) == /\ Waits(D, w, q, j, us, env1, env2, G)
                    /\ w.rest[<<j, Len(us) + 1>>] = w.rest[<<j, Len(vs) + 1>>]
           S == {n \in Nat : \E us : P(us) /\ n = Steps(j[1]) - Len(us)}
<1>1. ASSUME NEW us, P(us)
      PROVE  us \in Seq(Values) /\ Len(us) \in Nat /\ Steps(j[1]) \in Nat /\ Steps(j[1]) - Len(us) \in Nat
  <2>1. us \in Seq(Values) /\ Len(us) <= Steps(j[1]) /\ Formed(j[1])
    BY <1>1 DEF Waits
  <2>2. Len(us) \in Nat /\ Steps(j[1]) \in Nat
    BY <2>1, StepChildren
  <2> QED
    BY <2>1, <2>2
<1>2. S \subseteq Nat /\ S # {}
  <2>1. P(vs)
    OBVIOUS
  <2>2. Steps(j[1]) - Len(vs) \in S
    BY <1>1, <2>1
  <2> QED
    BY <2>2
<1>3. PICK n \in S : \A m \in S : n <= m
  <2> HIDE DEF S
  <2> QED
    BY <1>2, LeastElement
<1>4. PICK us : P(us) /\ n = Steps(j[1]) - Len(us)
  BY <1>3
<1>5. ASSUME Len(us) < Steps(j[1]), Stays(j[1], Len(us) + 1) PROVE FALSE
  <2>1. PICK v \in Values : P(Append(us, v))
    BY <1>4, <1>5, SkipsOne
  <2>2. Len(Append(us, v)) = Len(us) + 1
    BY <1>1, <1>4
  <2>3. Steps(j[1]) - Len(Append(us, v)) \in S
    BY <1>1, <2>1
  <2>4. n <= Steps(j[1]) - Len(Append(us, v))
    BY <1>3, <2>3
  <2> HIDE DEF P, S
  <2>5. Len(us) \in Nat /\ Steps(j[1]) \in Nat
    BY <1>1, <1>4
  <2> QED
    BY <1>4, <2>2, <2>4, <2>5
<1> QED
  BY <1>4, <1>5 DEF Settled, SettlesAs

\* When a let has bound its variables it is its body.
LEMMA BodyEntered ==
    ASSUME NEW D, NEW s, NEW q, Stepwise(D, s, q), NEW w, LoweringKnown(w),
           NEW j, NEW vs, NEW env1, NEW env2, NEW G, Waits(D, w, q, j, vs, env1, env2, G),
           j[1].exp = "Let", Len(vs) = Steps(j[1])
    PROVE  Entering(D, w, q, w.rest[<<j, Len(vs) + 1>>], env2, G)
<1>1. /\ j \in w.asked /\ Formed(j[1]) /\ vs \in Seq(Values) /\ Awaits(D, q, j[1], vs, env1, G)
      /\ SourceIn(env1, env2)
  BY DEF Waits
<1>2. PICK c : /\ c.exp = "Let" /\ c.body = j[1].body /\ Remain(j[1].bindings, Len(vs), c.bindings)
               /\ Includes(D, q, c, env1, G)
  BY <1>1 DEF Awaits
<1>3. Len(vs) = Len(j[1].bindings)
  BY <1>1, StepChildren
<1>4. c.bindings = <<>>
  BY <1>2, <1>3, RemainTail
<1>5. EvalRule(D, q, c, env1)
  BY <1>2, RuleAt DEF Stepwise, AllInScope, Includes
<1>6. GoesOn(D, q, c, env1, <<>>, j[1].body, env1)
  BY <1>2, <1>4, <1>5 DEF EvalRule, EvalLet
<1>7. Includes(D, q, j[1].body, env1, G)
  BY <1>2, <1>6, GoesOnPassing, SamePassesOn
<1> DEFINE n == Len(j[1].bindings)
           y == w.parts[j][n + 1]
<1>8. n + 1 \in DOMAIN Children(j[1]) /\ Children(j[1])[n + 1] = j[1].body
  BY <1>1, StepChildren
<1>9. y \in w.asked /\ y[1] = j[1].body
  BY <1>1, <1>8 DEF LoweringKnown
<1>10. w.rest[<<j, Len(vs) + 1>>] = w.made[y]
  BY <1>1, <1>3, RestOfLast
<1> HIDE DEF y, n
<1>11. Includes(D, q, y[1], env1, G)
  BY <1>7, <1>9
<1>12. Entering(D, w, q, w.made[y], env2, G)
  BY <1>1, <1>9, <1>11, Enters
<1> QED
  BY <1>10, <1>12

\* A part is a value, or settled.
LEMMA PartSettled ==
    ASSUME NEW D, NEW s, NEW q, Stepwise(D, s, q), NEW w, LoweringKnown(w),
           NEW x2, NEW env2, NEW G, Part(D, w, q, x2, env2, G)
    PROVE  HasValue(x2, env2, G) \/ SettlesAs(D, w, q, x2, env2, G)
<1>1. ASSUME NEW j, NEW vs, NEW env1, Waits(D, w, q, j, vs, env1, env2, G),
             x2 = w.rest[<<j, Len(vs) + 1>>], j[1].exp # "Let"
      PROVE  SettlesAs(D, w, q, x2, env2, G)
  BY <1>1, SkipsAll
<1>2. ASSUME NEW j, NEW env1, Waits(D, w, q, j, <<>>, env1, env2, G), x2 = w.rest[<<j, 1>>]
      PROVE  SettlesAs(D, w, q, x2, env2, G)
  <2>1. Len(<<>>) = 0 /\ Len(<<>>) + 1 = 1
    OBVIOUS
  <2>2. CASE j[1].exp # "Let"
    BY <1>1, <1>2, <2>1, <2>2
  <2>3. CASE j[1].exp = "Let"
    <3>1. j \in w.asked /\ Formed(j[1])
      BY <1>2 DEF Waits
    <3>2. j[1].bindings # <<>> /\ IsSeq(j[1].bindings)
      BY <2>3, <3>1 DEF LoweringKnown, Formed
    <3>3. Len(j[1].bindings) >= 1 /\ Steps(j[1]) = Len(j[1].bindings) /\ Len(j[1].bindings) \in Nat
      BY <2>3, <3>1, <3>2, VectorNotEmpty, StepChildren, IsSeqDomain
    <3>4. Settled(j, <<>>)
      BY <2>1, <2>3, <3>3 DEF Settled
    <3>5. PICK us : us = <<>> /\ Len(us) + 1 = 1
      BY <2>1
    <3>6. Waits(D, w, q, j, us, env1, env2, G) /\ Settled(j, us) /\ x2 = w.rest[<<j, Len(us) + 1>>]
      BY <1>2, <3>4, <3>5
    <3> QED
      BY <3>6 DEF SettlesAs
  <2> QED
    BY <2>2, <2>3
<1>3. CASE HasValue(x2, env2, G)
  BY <1>3
<1>4. ASSUME NEW j, NEW vs, NEW env1, Waits(D, w, q, j, vs, env1, env2, G),
             x2 = w.rest[<<j, Len(vs) + 1>>]
      PROVE  \/ HasValue(x2, env2, G)
             \/ SettlesAs(D, w, q, x2, env2, G)
  <2>1. CASE j[1].exp # "Let"
    BY <1>1, <1>4, <2>1
  <2>2. CASE j[1].exp = "Let" /\ Len(vs) = Steps(j[1])
    <3>1. Entering(D, w, q, x2, env2, G)
      BY <1>4, <2>2, BodyEntered
    <3> QED
      BY <1>2, <3>1 DEF Entering
  <2>3. CASE j[1].exp = "Let" /\ Len(vs) # Steps(j[1])
    <3>1. Len(vs) \in Nat /\ Steps(j[1]) \in Nat /\ Len(vs) <= Steps(j[1])
      BY <1>4, StepChildren DEF Waits
    <3>2. Len(vs) < Steps(j[1])
      BY <2>3, <3>1
    <3> QED
      BY <1>4, <2>3, <3>2 DEF Settled, SettlesAs
  <2> QED
    BY <2>1, <2>2, <2>3
<1> QED
  BY <1>3, <1>4 DEF Part

-----------------------------------------------------------------------------
(* The simulation.                                                          *)

\* The arguments of the call have the values of that of c: the first are evaluated
ArgumentsAre(x2, env2, c) ==
    /\ x2.exp = "Applied" /\ c.exp = "Applied" /\ x2.f = c.f /\ c.args = <<>>
    /\ c.vs \in Seq(Values) /\ IsSeq(x2.vs) /\ IsSeq(x2.args) /\ Len(x2.vs) + Len(x2.args) = Len(c.vs)
    /\ \A i \in 1 .. Len(x2.vs) : x2.vs[i] = c.vs[i]
    /\ \A i \in DOMAIN x2.args : ImmValue(x2.args[i], env2, c.vs[Len(x2.vs) + i])

Calls(D, q, x2, env2, G) == \E c, env1 : ArgumentsAre(x2, env2, c) /\ Includes(D, q, c, env1, G)

\* A part, one whose variable has just been bound, or a call in its course
Stands(D, w, q, x2, env2, G) ==
    \/ Part(D, w, q, x2, env2, G)
    \/ x2.exp = "Let" /\ x2.bindings = <<>> /\ Part(D, w, q, x2.body, env2, G)
    \/ Calls(D, q, x2, env2, G)

LoweredTriples(D, w, q) == {t \in Triples(D) : Stands(D, w, q, t[1], t[2], t[3])}

\* Membership.
LEMMA LoweredTriple ==
    ASSUME NEW D, NEW w, NEW q, NEW x2, NEW env2, NEW G
    PROVE  <<x2, env2, G>> \in LoweredTriples(D, w, q)
               <=> <<x2, env2, G>> \in Triples(D) /\ Stands(D, w, q, x2, env2, G)
<1> DEFINE t == <<x2, env2, G>>
<1>1. t[1] = x2 /\ t[2] = env2 /\ t[3] = G
  OBVIOUS
<1> HIDE DEF t
<1>2. t \in LoweredTriples(D, w, q) <=> t \in Triples(D) /\ Stands(D, w, q, x2, env2, G)
  BY <1>1 DEF LoweredTriples
<1> QED
  BY <1>2 DEF t

\* What the results of a triple are.
LEMMA TripleOutcomes ==
    ASSUME NEW D, NEW x2, NEW env2, NEW G, <<x2, env2, G>> \in Triples(D)
    PROVE  G \subseteq Outcomes(D)
BY DEF Triples

\* What begins, and stands for something.
LEMMA StandingTriple ==
    ASSUME NEW D, NEW w, NEW q, NEW p, NEW x2, NEW env2, Begins(D, p, x2, env2),
           NEW G, G \subseteq Outcomes(D), Stands(D, w, q, x2, env2, G)
    PROVE  <<x2, env2, G>> \in LoweredTriples(D, w, q)
BY BegunTriple, LoweredTriple

\* Going on with the same results.
LEMMA ContinuesSame ==
    ASSUME NEW D, NEW T, NEW G, G \subseteq Outcomes(D), NEW x, NEW env, <<x, env, G>> \in T
    PROVE  Continues(T, G, <<>>, x, env)
<1>1. ASSUME NEW r, NEW o2, <<r, o2>> \in G PROVE <<r, <<>> \o o2>> \in G
  <2>1. <<r, o2>> \in Outcomes(D)
    BY <1>1
  <2>2. o2 \in Seq(Values)
    BY <2>1 DEF Outcomes
  <2>3. <<>> \o o2 = o2
    BY <2>2, NothingPrinted
  <2> QED
    BY <1>1, <2>3
<1> QED
  BY <1>1 DEF Continues

\* x comes to v or to nothing yet, and prints nothing
OpensAs(T, G, x, env, v) ==
    \E H : /\ Opens(T, G, x, env, H)
          /\ \A r, o : <<r, o>> \in H => o = <<>> /\ (r = v \/ r = Interrupted)

\* An immediate expression that has the value v comes to v.
LEMMA ImmOpens ==
    ASSUME NEW D, NEW s, NEW q, Stepwise(D, s, q), NEW w, NEW x, NEW env2, Begins(D, s, x, env2),
           NEW v \in Values, ImmValue(x, env2, v), NEW G, <<Interrupted, <<>>>> \in G
    PROVE  OpensAs(LoweredTriples(D, w, q), G, x, env2, v)
<1> DEFINE H == {y \in Outcomes(D) : y = <<v, <<>>>> \/ y = <<Interrupted, <<>>>>}
<1>1. EvalRule(D, s, x, env2)
  BY RuleAt DEF Stepwise, AllInScope
<1>2. Gives(D, s, x, env2, v, <<>>) /\ Gives(D, s, x, env2, Interrupted, <<>>)
  BY <1>1 DEF EvalRule, ImmValue, Begins
<1>3. <<v, <<>>>> \in H /\ <<Interrupted, <<>>>> \in H
  BY <1>2, GivenOutcome
<1>4. \A r, o : <<r, o>> \in H => o = <<>> /\ (r = v \/ r = Interrupted)
  OBVIOUS
<1>5. H \subseteq Outcomes(D)
  OBVIOUS
<1> HIDE DEF H
<1>6. HasValue(x, env2, H)
  BY <1>3 DEF HasValue
<1>7. <<x, env2, H>> \in LoweredTriples(D, w, q)
  BY <1>5, <1>6, StandingTriple DEF Stands, Part
<1>8. \A r, o : <<r, o>> \in H /\ IsErr(r) => <<r, o>> \in G
  BY <1>4, ValuesAreNotErrors
<1>9. Opens(LoweredTriples(D, w, q), G, x, env2, H)
  BY <1>7, <1>8 DEF Opens
<1> QED
  BY <1>4, <1>9 DEF OpensAs

\* An operand that has been evaluated has its value.
LEMMA OperandValue ==
    ASSUME NEW e, NEW ann, NEW vs, NEW env1, NEW env2, OperandsAre(e, ann, vs, env1, env2),
           SourceIn(env1, env2), NEW i \in 1 .. Len(vs)
    PROVE  ImmValue(AsOperand(e, ann, i), env2, vs[i])
<1>1. CASE Stays(e, i)
  <2>1. ImmValue(Operands(e)[i], env1, vs[i])
    BY <1>1 DEF OperandsAre
  <2>2. AsOperand(e, ann, i) = Operands(e)[i]
    BY <1>1 DEF AsOperand
  <2> QED
    BY <2>1, <2>2, ImmWithin
<1>2. CASE ~Stays(e, i)
  <2>1. Temp(e, ann, i) \in DOMAIN env2 /\ env2[Temp(e, ann, i)] = vs[i]
    BY <1>2 DEF OperandsAre
  <2>2. AsOperand(e, ann, i) = Var(Temp(e, ann, i))
    BY <1>2 DEF AsOperand
  <2>3. PICK a : a = AsOperand(e, ann, i)
    OBVIOUS
  <2>4. a.exp = "Var" /\ a.x = Temp(e, ann, i)
    BY <2>2, <2>3 DEF Var
  <2>5. ImmValue(a, env2, vs[i])
    BY <2>1, <2>4 DEF ImmValue
  <2> QED
    BY <2>3, <2>5
<1> QED
  BY <1>1, <1>2

\* What the cases know: x2 begins in the lowered program, and comes from there on.
StandsAt(D, w, s, q, j, vs, env1, x2, env2, G) ==
    /\ Stepwise(D, s, q) /\ LoweringKnown(w)
    /\ Waits(D, w, q, j, vs, env1, env2, G) /\ Settled(j, vs) /\ x2 = w.rest[<<j, Len(vs) + 1>>]
    /\ EvalRule(D, s, x2, env2) /\ G \subseteq Outcomes(D)

\* A step binds a variable, or a temporary.
LEMMA StepSimulated ==
    ASSUME NEW D, NEW w, NEW s, NEW q, NEW j, NEW vs, NEW env1, NEW x2, NEW env2, NEW G,
           StandsAt(D, w, s, q, j, vs, env1, x2, env2, G), Len(vs) < Steps(j[1])
    PROVE  x2.exp = "Let" /\ SimLet(D, s, LoweredTriples(D, w, q), x2, env2, G)
<1> DEFINE T == LoweredTriples(D, w, q)
<1>1. /\ Stepwise(D, s, q) /\ LoweringKnown(w) /\ Waits(D, w, q, j, vs, env1, env2, G)
      /\ Settled(j, vs) /\ x2 = w.rest[<<j, Len(vs) + 1>>]
      /\ EvalRule(D, s, x2, env2) /\ G \subseteq Outcomes(D)
  BY DEF StandsAt
<1>2. /\ j \in w.asked /\ Formed(j[1]) /\ vs \in Seq(Values) /\ Awaits(D, q, j[1], vs, env1, G)
      /\ SourceIn(env1, env2)
  BY <1>1 DEF Waits
<1>3. Len(vs) \in Nat /\ Len(vs) + 1 \in 1 .. Steps(j[1])
  BY <1>2, StepChildren
<1>4. PICK k, x, y, rest : /\ k = Len(vs) + 1 /\ x = Children(j[1])[k] /\ y = w.parts[j][k]
                           /\ rest = w.rest[<<j, k + 1>>]
  OBVIOUS
<1>5. y \in w.asked /\ y[1] = x
  BY <1>2, <1>3, <1>4, StepChildren DEF LoweringKnown, StandsAt
<1>6. PICK z : /\ x2 = LetIn(z, w.made[y], rest)
               /\ j[1].exp = "Let" => z = j[1].bindings[k].var
               /\ j[1].exp # "Let" => z = Temp(j[1], w.tag[j], k) /\ ~Stays(j[1], k)
  <2>1. CASE j[1].exp = "Let"
    BY <1>1, <1>2, <1>3, <1>4, <2>1, RestOfSteps
  <2>2. CASE j[1].exp # "Let"
    <3>1. ~Stays(j[1], k)
      BY <1>1, <1>4, <2>2 DEF Settled
    <3>2. x2 = LetIn(Temp(j[1], w.tag[j], k), w.made[y], rest)
      BY <1>1, <1>2, <1>3, <1>4, <2>2, <3>1, RestOfSteps
    <3> QED
      BY <2>2, <3>1, <3>2
  <2> QED
    BY <2>1, <2>2
<1>7. PICK b2 : b2 = w.made[y]
  OBVIOUS
<1>8. x2.exp = "Let" /\ x2.bindings = <<Binding(z, b2)>> /\ x2.body = rest
  BY <1>6, <1>7 DEF LetIn, Let
<1>9. /\ x2.bindings # <<>> /\ Head(x2.bindings).var = z /\ Head(x2.bindings).e = b2
      /\ Tail(x2.bindings) = <<>>
  BY <1>8, OnlyBinding
<1>10. EvalLet(D, s, x2, env2)
  BY <1>1, <1>8 DEF EvalRule
<1> DEFINE H == ResultsOf(D, q, x, env1)
           then == Let(<<>>, rest)
<1>11. /\ First(D, s, x2, b2, env2)
       /\ \A v \in Values : \A o : Gives(D, s, b2, env2, v, o) =>
             GoesOn(D, s, x2, env2, o, then, Extend(env2, z, v))
  BY <1>8, <1>9, <1>10 DEF EvalLet
<1>12. /\ Begins(D, q, x, env1)
       /\ \A r, o : Gives(D, q, x, env1, r, o) /\ IsErr(r) => <<r, o>> \in G
  BY <1>1, <1>2, <1>4, AwaitsOpens
<1>13. /\ H \subseteq Outcomes(D) /\ Includes(D, q, x, env1, H)
       /\ \A r, o : <<r, o>> \in H <=> Gives(D, q, x, env1, r, o)
  BY <1>12, ResultsIncluded
<1> HIDE DEF H, then
<1>14. Opens(T, G, b2, env2, H)
  <2>1. Entering(D, w, q, b2, env2, H)
    BY <1>1, <1>2, <1>5, <1>7, <1>13, Enters
  <2>2. Stands(D, w, q, b2, env2, H)
    BY <2>1, EnteredPart DEF Stands
  <2>3. <<b2, env2, H>> \in T
    BY <1>11, <1>13, <2>2, StandingTriple DEF First
  <2> HIDE DEF T
  <2> QED
    BY <1>12, <1>13, <2>3 DEF Opens
<1>15. ASSUME NEW v, NEW o, Reaches(D, s, b2, env2, H, v, o)
       PROVE  Continues(T, G, o, then, Extend(env2, z, v))
  <2>1. v \in Values /\ Gives(D, s, b2, env2, v, o) /\ Gives(D, q, x, env1, v, o)
    BY <1>13, <1>15 DEF Reaches
  <2>2. PICK env3, G2, vs2, env4 : /\ env3 = Extend(env2, z, v) /\ G2 = After(D, G, o)
                                   /\ vs2 = Append(vs, v) /\ env4 = EnvAfter(j[1], Len(vs) + 1, env1, v)
    OBVIOUS
  <2>3. PassesOn(G, o, G2) /\ G2 \subseteq Outcomes(D)
    BY <1>1, <2>2, AfterPassesOn, AfterPrinting
  <2>4. Waits(D, w, q, j, vs2, env4, env3, G2)
    <3>1. CASE j[1].exp = "Let"
      <4>1. env3 = Extend(env2, j[1].bindings[Len(vs) + 1].var, v)
        BY <1>4, <1>6, <2>2, <3>1
      <4> QED
        BY <1>1, <1>4, <2>1, <2>2, <2>3, <3>1, <4>1, WaitsNext
    <3>2. CASE j[1].exp # "Let"
      <4>1. /\ ~Stays(j[1], Len(vs) + 1)
            /\ env3 = Extend(env2, Temp(j[1], w.tag[j], Len(vs) + 1), v)
        BY <1>4, <1>6, <2>2, <3>2
      <4> QED
        BY <1>1, <1>4, <2>1, <2>2, <2>3, <3>2, <4>1, WaitsNext
    <3> QED
      BY <3>1, <3>2
  <2>5. Len(vs2) + 1 = k + 1
    BY <1>2, <1>4, <2>2
  <2>6. Part(D, w, q, rest, env3, G2)
    BY <1>4, <2>4, <2>5 DEF Part
  <2>7. then.exp = "Let" /\ then.bindings = <<>> /\ then.body = rest
    BY DEF then, Let
  <2>8. Stands(D, w, q, then, env3, G2)
    BY <2>6, <2>7 DEF Stands
  <2>9. Begins(D, s, then, env3)
    BY <1>11, <2>1, <2>2 DEF GoesOn
  <2>10. <<then, env3, G2>> \in T
    BY <2>3, <2>8, <2>9, StandingTriple
  <2> HIDE DEF T
  <2> QED
    BY <2>2, <2>10, ContinuesAfter
<1> HIDE DEF T
<1>16. SimLet(D, s, T, x2, env2, G)
  BY <1>8, <1>9, <1>14, <1>15 DEF SimLet, then
<1> QED
  BY <1>8, <1>16 DEF T

-----------------------------------------------------------------------------
(* When all operands have their values.                                     *)

\* What the cases know then
StandsDone(D, w, s, q, j, vs, env1, x2, env2, G) ==
    /\ Stepwise(D, s, q) /\ LoweringKnown(w) /\ j \in w.asked /\ Formed(j[1])
    /\ vs \in Seq(Values) /\ Len(vs) = Steps(j[1])
    /\ Awaits(D, q, j[1], vs, env1, G) /\ SourceIn(env1, env2)
    /\ EvalRule(D, s, x2, env2) /\ G \subseteq Outcomes(D) /\ <<Interrupted, <<>>>> \in G
    /\ x2 = w.rest[<<j, Steps(j[1]) + 1>>]
    /\ \A i \in 1 .. Steps(j[1]) :
          vs[i] \in Values /\ ImmValue(AsOperand(j[1], w.tag[j], i), env2, vs[i])

\* When there is no step left.
LEMMA LastStands ==
    ASSUME NEW D, NEW w, NEW s, NEW q, NEW j, NEW vs, NEW env1, NEW x2, NEW env2, NEW G,
           StandsAt(D, w, s, q, j, vs, env1, x2, env2, G), Len(vs) = Steps(j[1]), j[1].exp # "Let"
    PROVE  StandsDone(D, w, s, q, j, vs, env1, x2, env2, G)
<1>1. /\ Stepwise(D, s, q) /\ LoweringKnown(w) /\ Waits(D, w, q, j, vs, env1, env2, G)
      /\ EvalRule(D, s, x2, env2) /\ G \subseteq Outcomes(D)
      /\ x2 = w.rest[<<j, Steps(j[1]) + 1>>]
  BY DEF StandsAt
<1>2. /\ j \in w.asked /\ Formed(j[1]) /\ vs \in Seq(Values) /\ Awaits(D, q, j[1], vs, env1, G)
      /\ SourceIn(env1, env2) /\ OperandsAre(j[1], w.tag[j], vs, env1, env2)
  BY <1>1 DEF Waits
<1>3. <<Interrupted, <<>>>> \in G
  BY <1>2 DEF Awaits
<1>4. \A i \in 1 .. Len(vs) : vs[i] \in Values
  BY <1>2
<1>5. \A i \in 1 .. Len(vs) : ImmValue(AsOperand(j[1], w.tag[j], i), env2, vs[i])
  BY <1>2, OperandValue
<1> QED
  BY <1>1, <1>2, <1>3, <1>4, <1>5 DEF StandsDone

\* What is printed is a sequence of values.
LEMMA SilentFirst ==
    ASSUME NEW D, NEW G, G \subseteq Outcomes(D), NEW r, NEW o, <<r, o>> \in G
    PROVE  <<>> \o o = o
<1>1. <<r, o>> \in Outcomes(D)
  OBVIOUS
<1>2. o \in Seq(Values)
  BY <1>1 DEF Outcomes
<1> QED
  BY <1>2, NothingPrinted

\* A value that such an operand reaches is its own.
LEMMA ReachesItsOwn ==
    ASSUME NEW D, NEW p, NEW x, NEW env, NEW H, NEW u,
           \A r, o : <<r, o>> \in H => o = <<>> /\ (r = u \/ r = Interrupted),
           NEW v, NEW o, Reaches(D, p, x, env, H, v, o)
    PROVE  v = u /\ o = <<>>
BY ValuesAreNotErrors DEF Reaches

\* An operation on one operand.
LEMMA Prim1Last ==
    ASSUME NEW D, NEW w, NEW s, NEW q, NEW j, NEW vs, NEW env1, NEW x2, NEW env2, NEW G,
           StandsDone(D, w, s, q, j, vs, env1, x2, env2, G), j[1].exp = "Prim1"
    PROVE  x2.exp = "Prim1" /\ SimPrim1(D, s, LoweredTriples(D, w, q), x2, env2, G)
<1>1. /\ Stepwise(D, s, q) /\ LoweringKnown(w) /\ j \in w.asked /\ Formed(j[1])
      /\ Awaits(D, q, j[1], vs, env1, G) /\ EvalRule(D, s, x2, env2) /\ G \subseteq Outcomes(D)
      /\ <<Interrupted, <<>>>> \in G /\ x2 = w.rest[<<j, Steps(j[1]) + 1>>]
      /\ \A i \in 1 .. Steps(j[1]) :
            vs[i] \in Values /\ ImmValue(AsOperand(j[1], w.tag[j], i), env2, vs[i])
  BY DEF StandsDone
<1>2. Steps(j[1]) = 1 /\ Len(vs) = 1
  BY <1>1, StepChildren DEF StandsDone
<1>3. PICK a : a = AsOperand(j[1], w.tag[j], 1)
  OBVIOUS
<1>4. x2 = Prim1(j[1].op, a)
  BY <1>1, <1>3, RestOfLast
<1>5. x2.exp = "Prim1" /\ x2.op = j[1].op /\ x2.e = a
  BY <1>4 DEF Prim1
<1>6. vs[1] \in Values /\ ImmValue(a, env2, vs[1])
  BY <1>1, <1>2, <1>3
<1>7. Begins(D, s, a, env2)
  BY <1>1, <1>5 DEF EvalRule, EvalPrim1, First
<1>8. OpensAs(LoweredTriples(D, w, q), G, a, env2, vs[1])
  BY <1>1, <1>6, <1>7, ImmOpens
<1>9. PICK H : /\ Opens(LoweredTriples(D, w, q), G, a, env2, H)
               /\ \A r, o : <<r, o>> \in H => o = <<>> /\ (r = vs[1] \/ r = Interrupted)
  BY <1>8 DEF OpensAs
<1>10. ASSUME NEW v, NEW o, Reaches(D, s, a, env2, H, v, o), NEW r, NEW o2, Performs(j[1].op, v, r, o2)
       PROVE  <<r, o \o o2>> \in G
  <2>1. v = vs[1] /\ o = <<>>
    BY <1>9, <1>10, ReachesItsOwn
  <2>2. <<r, o2>> \in G
    BY <1>1, <1>2, <1>10, <2>1 DEF Awaits
  <2>3. <<>> \o o2 = o2
    BY <1>1, <2>2, SilentFirst
  <2> QED
    BY <2>1, <2>2, <2>3
<1>11. SimPrim1(D, s, LoweredTriples(D, w, q), x2, env2, G)
  BY <1>5, <1>9, <1>10 DEF SimPrim1
<1> QED
  BY <1>5, <1>11

\* And on two.
LEMMA Prim2Last ==
    ASSUME NEW D, NEW w, NEW s, NEW q, NEW j, NEW vs, NEW env1, NEW x2, NEW env2, NEW G,
           StandsDone(D, w, s, q, j, vs, env1, x2, env2, G), j[1].exp = "Prim2"
    PROVE  x2.exp = "Prim2" /\ SimPrim2(D, s, LoweredTriples(D, w, q), x2, env2, G)
<1>1. /\ Stepwise(D, s, q) /\ LoweringKnown(w) /\ j \in w.asked /\ Formed(j[1])
      /\ Awaits(D, q, j[1], vs, env1, G) /\ EvalRule(D, s, x2, env2) /\ G \subseteq Outcomes(D)
      /\ <<Interrupted, <<>>>> \in G /\ x2 = w.rest[<<j, Steps(j[1]) + 1>>]
      /\ \A i \in 1 .. Steps(j[1]) :
            vs[i] \in Values /\ ImmValue(AsOperand(j[1], w.tag[j], i), env2, vs[i])
  BY DEF StandsDone
<1>2. Steps(j[1]) = 2 /\ Len(vs) = 2
  BY <1>1, StepChildren DEF StandsDone
<1>3. PICK a, b : a = AsOperand(j[1], w.tag[j], 1) /\ b = AsOperand(j[1], w.tag[j], 2)
  OBVIOUS
<1>4. x2 = Prim2(j[1].op, a, b)
  BY <1>1, <1>3, RestOfLast
<1>5. x2.exp = "Prim2" /\ x2.op = j[1].op /\ x2.e1 = a /\ x2.e2 = b
  BY <1>4 DEF Prim2
<1>6. /\ vs[1] \in Values /\ ImmValue(a, env2, vs[1]) /\ vs[2] \in Values /\ ImmValue(b, env2, vs[2])
  BY <1>1, <1>2, <1>3
<1>7. EvalPrim2(D, s, x2, env2)
  BY <1>1, <1>5 DEF EvalRule
<1>8. OpensAs(LoweredTriples(D, w, q), G, a, env2, vs[1])
  <2>1. Begins(D, s, a, env2)
    BY <1>5, <1>7 DEF EvalPrim2, First
  <2> QED
    BY <1>1, <1>6, <2>1, ImmOpens
<1>9. PICK H : /\ Opens(LoweredTriples(D, w, q), G, a, env2, H)
               /\ \A r, o : <<r, o>> \in H => o = <<>> /\ (r = vs[1] \/ r = Interrupted)
  BY <1>8 DEF OpensAs
<1>10. ASSUME NEW v, NEW o, Reaches(D, s, a, env2, H, v, o)
       PROVE  \E H2 : /\ <<b, env2, H2>> \in LoweredTriples(D, w, q)
                     /\ \A r, o2 : <<r, o2>> \in H2 => <<Combined(j[1].op, v, r), o \o o2>> \in G
  <2>1. v = vs[1] /\ o = <<>>
    BY <1>9, <1>10, ReachesItsOwn
  <2>2. Begins(D, s, b, env2)
    BY <1>5, <1>7, <1>10 DEF EvalPrim2, Reaches
  <2>3. OpensAs(LoweredTriples(D, w, q), G, b, env2, vs[2])
    BY <1>1, <1>6, <2>2, ImmOpens
  <2>4. PICK H2 : /\ Opens(LoweredTriples(D, w, q), G, b, env2, H2)
                  /\ \A r, o2 : <<r, o2>> \in H2 => o2 = <<>> /\ (r = vs[2] \/ r = Interrupted)
    BY <2>3 DEF OpensAs
  <2>5. ASSUME NEW r, NEW o2, <<r, o2>> \in H2 PROVE <<Combined(j[1].op, v, r), o \o o2>> \in G
    <3>1. o2 = <<>> /\ o \o o2 = <<>>
      BY <2>1, <2>4, <2>5, NothingPrinted
    <3>2. CASE r = vs[2]
      <4>1. Combined(j[1].op, v, r) = InterpretPrim2(j[1].op, vs[1], vs[2])
        BY <1>6, <2>1, <3>2, ValuesAreNotErrors DEF Combined
      <4>2. <<InterpretPrim2(j[1].op, vs[1], vs[2]), <<>>>> \in G
        BY <1>1, <1>2 DEF Awaits
      <4> QED
        BY <3>1, <4>1, <4>2
    <3>3. CASE r = Interrupted
      <4>1. Combined(j[1].op, v, r) = Interrupted
        BY <3>3, ValuesAreNotErrors DEF Combined
      <4> QED
        BY <1>1, <3>1, <4>1
    <3> QED
      BY <2>4, <2>5, <3>2, <3>3
  <2> QED
    BY <2>4, <2>5 DEF Opens
<1>11. SimPrim2(D, s, LoweredTriples(D, w, q), x2, env2, G)
  BY <1>5, <1>9, <1>10 DEF SimPrim2
<1> QED
  BY <1>5, <1>11

\* A condition, and the branch that it selects.
LEMMA IfLast ==
    ASSUME NEW D, NEW w, NEW s, NEW q, NEW j, NEW vs, NEW env1, NEW x2, NEW env2, NEW G,
           StandsDone(D, w, s, q, j, vs, env1, x2, env2, G), j[1].exp = "If"
    PROVE  x2.exp = "If" /\ SimIf(D, s, LoweredTriples(D, w, q), x2, env2, G)
<1>1. /\ Stepwise(D, s, q) /\ LoweringKnown(w) /\ j \in w.asked /\ Formed(j[1])
      /\ Awaits(D, q, j[1], vs, env1, G) /\ EvalRule(D, s, x2, env2) /\ G \subseteq Outcomes(D)
      /\ <<Interrupted, <<>>>> \in G /\ x2 = w.rest[<<j, Steps(j[1]) + 1>>]
      /\ SourceIn(env1, env2)
      /\ \A i \in 1 .. Steps(j[1]) :
            vs[i] \in Values /\ ImmValue(AsOperand(j[1], w.tag[j], i), env2, vs[i])
  BY DEF StandsDone
<1>2. /\ Steps(j[1]) = 1 /\ Len(vs) = 1 /\ 2 \in DOMAIN Children(j[1]) /\ 3 \in DOMAIN Children(j[1])
      /\ Children(j[1])[2] = j[1].thn /\ Children(j[1])[3] = j[1].els
  BY <1>1, StepChildren DEF StandsDone
<1>3. PICK a, y, z : /\ a = AsOperand(j[1], w.tag[j], 1)
                     /\ y = w.parts[j][2] /\ z = w.parts[j][3]
  OBVIOUS
<1>4. y \in w.asked /\ y[1] = j[1].thn /\ z \in w.asked /\ z[1] = j[1].els
  BY <1>1, <1>2, <1>3 DEF LoweringKnown
<1>5. x2 = If(a, w.made[y], w.made[z])
  BY <1>1, <1>3, RestOfLast
<1>6. x2.exp = "If" /\ x2.cond = a /\ x2.thn = w.made[y] /\ x2.els = w.made[z]
  BY <1>5 DEF If
<1>7. vs[1] \in Values /\ ImmValue(a, env2, vs[1])
  BY <1>1, <1>2, <1>3
<1>8. EvalIf(D, s, x2, env2)
  BY <1>1, <1>6 DEF EvalRule
<1>9. OpensAs(LoweredTriples(D, w, q), G, a, env2, vs[1])
  <2>1. Begins(D, s, a, env2)
    BY <1>6, <1>8 DEF EvalIf, First
  <2> QED
    BY <1>1, <1>7, <2>1, ImmOpens
<1>10. PICK H : /\ Opens(LoweredTriples(D, w, q), G, a, env2, H)
                /\ \A r, o : <<r, o>> \in H => o = <<>> /\ (r = vs[1] \/ r = Interrupted)
  BY <1>9 DEF OpensAs
<1>11. ASSUME NEW v, NEW o, Reaches(D, s, a, env2, H, v, o)
       PROVE  IF v.t = "Bool"
              THEN Continues(LoweredTriples(D, w, q), G, o, IF v.b THEN x2.thn ELSE x2.els, env2)
              ELSE <<ExpectedBool("if", v), o>> \in G
  <2>1. v = vs[1] /\ o = <<>>
    BY <1>10, <1>11, ReachesItsOwn
  <2>2. CASE v.t = "Bool"
    <3>1. PICK c : c = IF v.b THEN y ELSE z
      OBVIOUS
    <3>2. c \in w.asked /\ c[1] = IF v.b THEN j[1].thn ELSE j[1].els
      BY <1>4, <3>1
    <3>3. Includes(D, q, c[1], env1, G)
      BY <1>1, <1>2, <2>1, <2>2, <3>2 DEF Awaits
    <3>4. Entering(D, w, q, w.made[c], env2, G)
      BY <1>1, <3>2, <3>3, Enters
    <3>5. w.made[c] = IF v.b THEN x2.thn ELSE x2.els
      BY <1>6, <3>1
    <3>6. Begins(D, s, w.made[c], env2)
      BY <1>6, <1>8, <1>11, <2>2, <3>5 DEF EvalIf, GoesOn, Reaches
    <3>7. Stands(D, w, q, w.made[c], env2, G)
      BY <3>4, EnteredPart DEF Stands
    <3>8. <<w.made[c], env2, G>> \in LoweredTriples(D, w, q)
      BY <1>1, <3>6, <3>7, StandingTriple
    <3>9. Continues(LoweredTriples(D, w, q), G, <<>>, w.made[c], env2)
      BY <1>1, <3>8, ContinuesSame
    <3> QED
      BY <2>1, <2>2, <3>5, <3>9
  <2>3. CASE v.t # "Bool"
    BY <1>1, <1>2, <2>1, <2>3 DEF Awaits
  <2> QED
    BY <2>2, <2>3
<1>12. SimIf(D, s, LoweredTriples(D, w, q), x2, env2, G)
  BY <1>6, <1>10, <1>11 DEF SimIf
<1> QED
  BY <1>6, <1>12

-----------------------------------------------------------------------------
(* Calls.                                                                   *)

\* Vectors with the same elements are the same.
LEMMA SameVectors ==
    ASSUME NEW s, IsSeq(s), NEW t, IsSeq(t), Len(s) = Len(t), \A i \in 1 .. Len(s) : s[i] = t[i]
    PROVE  s = t
<1>1. DOMAIN s = 1 .. Len(s) /\ DOMAIN t = 1 .. Len(s)
  BY IsSeqDomain
<1>2. s = [i \in 1 .. Len(s) |-> s[i]]
  <2>1. s \in Seq({s[i] : i \in DOMAIN s})
    BY IsSeqDomain
  <2> QED
    BY <1>1, <2>1, LenProperties
<1>3. t = [i \in 1 .. Len(s) |-> t[i]]
  <2>1. t \in Seq({t[i] : i \in DOMAIN t})
    BY IsSeqDomain
  <2> QED
    BY <1>1, <2>1, LenProperties
<1> QED
  BY <1>2, <1>3

\* A call has its arguments.
LEMMA CallLast ==
    ASSUME NEW D, NEW w, NEW s, NEW q, NEW j, NEW vs, NEW env1, NEW x2, NEW env2, NEW G,
           StandsDone(D, w, s, q, j, vs, env1, x2, env2, G), j[1].exp = "Call"
    PROVE  /\ x2.exp = "Call"
           /\ Continues(LoweredTriples(D, w, q), G, <<>>, Applied(x2.f, <<>>, x2.args), env2)
<1>1. /\ Stepwise(D, s, q) /\ LoweringKnown(w) /\ j \in w.asked /\ Formed(j[1]) /\ vs \in Seq(Values)
      /\ Awaits(D, q, j[1], vs, env1, G) /\ EvalRule(D, s, x2, env2) /\ G \subseteq Outcomes(D)
      /\ x2 = w.rest[<<j, Steps(j[1]) + 1>>] /\ Len(vs) = Steps(j[1])
      /\ \A i \in 1 .. Steps(j[1]) :
            vs[i] \in Values /\ ImmValue(AsOperand(j[1], w.tag[j], i), env2, vs[i])
  BY DEF StandsDone
<1>2. Steps(j[1]) = Len(j[1].args) /\ IsSeq(j[1].args)
  BY <1>1, StepChildren DEF Formed
<1>3. PICK as : as = [i \in DOMAIN j[1].args |-> AsOperand(j[1], w.tag[j], i)]
  OBVIOUS
<1>4. IsSeq(as) /\ Len(as) = Len(vs) /\ DOMAIN as = 1 .. Len(vs) /\ Len(vs) \in Nat
  <2>1. DOMAIN as = DOMAIN j[1].args /\ as = [i \in DOMAIN j[1].args |-> as[i]]
    BY <1>3
  <2>2. IsSeq(as) /\ Len(as) = Len(j[1].args)
    BY <1>2, <2>1, MadeVector
  <2> QED
    BY <1>1, <1>2, <2>2, IsSeqDomain
<1>5. x2 = Call(j[1].f, as)
  BY <1>1, <1>3, RestOfLast
<1>6. x2.exp = "Call" /\ x2.f = j[1].f /\ x2.args = as
  BY <1>5 DEF Call
<1>7. PICK c : /\ c.exp = "Applied" /\ c.f = j[1].f /\ c.vs = vs /\ Remain(j[1].args, Len(vs), c.args)
               /\ Includes(D, q, c, env1, G)
  BY <1>1 DEF Awaits
<1>8. c.args = <<>>
  BY <1>1, <1>2, <1>7, RemainTail
<1>9. PICK y : y = Applied(x2.f, <<>>, x2.args)
  OBVIOUS
<1>10. y.exp = "Applied" /\ y.f = c.f /\ y.vs = <<>> /\ y.args = as
  BY <1>6, <1>7, <1>9 DEF Applied
<1>11. ASSUME NEW i \in DOMAIN as PROVE ImmValue(as[i], env2, vs[0 + i])
  <2>1. i \in 1 .. Steps(j[1]) /\ 0 + i = i /\ i \in DOMAIN j[1].args
    BY <1>1, <1>2, <1>4, IsSeqDomain
  <2>2. as[i] = AsOperand(j[1], w.tag[j], i)
    BY <1>3, <2>1
  <2> QED
    BY <1>1, <2>1, <2>2
<1>12. ArgumentsAre(y, env2, c)
  <2>1. Len(<<>>) = 0 /\ IsSeq(<<>>) /\ Len(<<>>) + Len(as) = Len(vs)
    <3>1. Len(<<>>) = 0 /\ <<>> \in Seq({})
      OBVIOUS
    <3>2. IsSeq(<<>>)
      BY <3>1, SeqIsSeq
    <3>3. 0 + Len(as) = Len(vs)
      <4>1. \A n \in Nat : 0 + n = n
        OBVIOUS
      <4> QED
        BY <1>4, <4>1
    <3> QED
      BY <3>1, <3>2, <3>3
  <2>2. \A i \in 1 .. Len(<<>>) : FALSE
    BY <2>1
  <2> QED
    BY <1>1, <1>4, <1>7, <1>8, <1>10, <1>11, <2>1, <2>2 DEF ArgumentsAre
<1>13. Stands(D, w, q, y, env2, G)
  BY <1>7, <1>12 DEF Stands, Calls
<1>14. Begins(D, s, y, env2)
  BY <1>1, <1>6, <1>9 DEF EvalRule, GoesOn
<1>15. <<y, env2, G>> \in LoweredTriples(D, w, q)
  BY <1>1, <1>13, <1>14, StandingTriple
<1>16. Continues(LoweredTriples(D, w, q), G, <<>>, y, env2)
  BY <1>1, <1>15, ContinuesSame
<1> QED
  BY <1>6, <1>9, <1>16

\* One argument further.
LEMMA ArgumentsNext ==
    ASSUME NEW x2, NEW env2, NEW c, ArgumentsAre(x2, env2, c), x2.args # <<>>,
           NEW y, y = Applied(x2.f, Append(x2.vs, c.vs[Len(x2.vs) + 1]), Tail(x2.args))
    PROVE  /\ c.vs[Len(x2.vs) + 1] \in Values
           /\ ImmValue(Head(x2.args), env2, c.vs[Len(x2.vs) + 1])
           /\ ArgumentsAre(y, env2, c)
<1>1. PICK n, m, as, us : n = Len(x2.vs) /\ m = Len(c.vs) /\ as = x2.args /\ us = Append(x2.vs, c.vs[n + 1])
  OBVIOUS
<1>2. /\ x2.exp = "Applied" /\ c.exp = "Applied" /\ x2.f = c.f /\ c.args = <<>>
      /\ c.vs \in Seq(Values) /\ IsSeq(x2.vs) /\ IsSeq(as) /\ n + Len(as) = m
      /\ \A i \in 1 .. n : x2.vs[i] = c.vs[i]
      /\ \A i \in DOMAIN as : ImmValue(as[i], env2, c.vs[n + i])
  BY <1>1 DEF ArgumentsAre
<1>3. /\ IsSeq(Tail(as)) /\ Len(as) >= 1 /\ Len(Tail(as)) = Len(as) - 1 /\ Head(as) = as[1]
      /\ \A i \in DOMAIN Tail(as) : i + 1 \in DOMAIN as /\ Tail(as)[i] = as[i + 1]
  BY <1>1, <1>2, TailOfVector
<1>4. n \in Nat /\ m \in Nat /\ Len(as) \in Nat /\ DOMAIN as = 1 .. Len(as)
  BY <1>1, <1>2, IsSeqDomain
<1>5. n + 1 \in 1 .. m /\ 1 \in DOMAIN as
  <2>1. PICK b : b = Len(as)
    OBVIOUS
  <2>2. b \in Nat /\ b >= 1 /\ n + b = m
    BY <1>2, <1>3, <1>4, <2>1
  <2>3. n + 1 \in 1 .. m /\ 1 \in 1 .. b
    BY <1>4, <2>2
  <2> QED
    BY <1>4, <2>1, <2>3
<1>6. c.vs[n + 1] \in Values /\ ImmValue(Head(as), env2, c.vs[n + 1])
  BY <1>1, <1>2, <1>3, <1>5
<1>7. IsSeq(us) /\ Len(us) = n + 1 /\ us[n + 1] = c.vs[n + 1] /\ \A i \in 1 .. n : us[i] = x2.vs[i]
  BY <1>1, <1>2, PushedVector
<1>8. y.exp = "Applied" /\ y.f = c.f /\ y.vs = us /\ y.args = Tail(as)
  BY <1>1, <1>2 DEF Applied
<1>9. (n + 1) + Len(Tail(as)) = m
  <2>1. PICK a, b : a = Len(Tail(as)) /\ b = Len(as)
    OBVIOUS
  <2>2. a = b - 1 /\ n + b = m /\ b \in Nat
    BY <1>2, <1>3, <1>4, <2>1
  <2>3. (n + 1) + a = m
    BY <1>4, <2>2
  <2> QED
    BY <2>1, <2>3
<1>10. \A i \in 1 .. n + 1 : us[i] = c.vs[i]
  <2>1. \A i \in 1 .. n + 1 : i \in 1 .. n \/ i = n + 1
    BY <1>4
  <2> QED
    BY <1>2, <1>7, <2>1
<1>11. ASSUME NEW i \in DOMAIN Tail(as) PROVE ImmValue(Tail(as)[i], env2, c.vs[(n + 1) + i])
  <2>1. i \in Nat /\ n + (i + 1) = (n + 1) + i
    BY <1>3, <1>4, IsSeqDomain
  <2> QED
    BY <1>2, <1>3, <2>1
<1>12. ArgumentsAre(y, env2, c)
  <2>1. IsSeq(y.vs) /\ IsSeq(y.args) /\ Len(y.vs) + Len(y.args) = Len(c.vs)
    BY <1>1, <1>3, <1>7, <1>8, <1>9
  <2>2. \A i \in 1 .. Len(y.vs) : y.vs[i] = c.vs[i]
    BY <1>7, <1>8, <1>10
  <2>3. \A i \in DOMAIN y.args : ImmValue(y.args[i], env2, c.vs[Len(y.vs) + i])
    BY <1>7, <1>8, <1>11
  <2> QED
    BY <1>2, <1>8, <2>1, <2>2, <2>3 DEF ArgumentsAre
<1> QED
  BY <1>1, <1>6, <1>12

\* The bodies of the lowered program.
LEMMA LoweredBodies ==
    ASSUME NEW w, NEW s \in Programs, NEW q \in Programs, LoweredBy(w, q, s)
    PROVE  /\ \A i \in DOMAIN s.funs :
                 /\ i \in DOMAIN q.funs /\ q.funs[i].name = s.funs[i].name
                 /\ q.funs[i].params = s.funs[i].params
                 /\ w.bodies[i] \in w.asked /\ w.bodies[i][1] = q.funs[i].body
                 /\ s.funs[i].body = w.made[w.bodies[i]]
                 /\ \A x \in ParamSet(q.funs[i]) : Written(x)
           /\ \E y \in w.asked : y[1] = q.main /\ s.main = w.made[y]
<1>1. /\ SameDecls(s, q)
      /\ \A i \in BodyNumbers(q) :
            /\ w.bodies[i] \in w.asked /\ w.bodies[i][1] = BodyOf(q, i)
            /\ BodyOf(s, i) = w.made[w.bodies[i]]
            /\ \A x \in ParamsOf(q, i) : Written(x)
  BY DEF LoweredBy
<1>2. /\ DOMAIN s.funs = DOMAIN q.funs
      /\ \A i \in DOMAIN s.funs : s.funs[i].name = q.funs[i].name /\ s.funs[i].params = q.funs[i].params
  BY <1>1 DEF SameDecls
<1>3. Len(s.funs) = Len(q.funs)
  <2>1. /\ DOMAIN s.funs = 1 .. Len(s.funs) /\ Len(s.funs) \in Nat
        /\ DOMAIN q.funs = 1 .. Len(q.funs) /\ Len(q.funs) \in Nat
    BY ProgramsAssumption, IsSeqDomain
  <2> QED
    BY <1>2, <2>1, SameUpTo
<1>4. ASSUME NEW i \in DOMAIN s.funs
      PROVE  /\ i \in DOMAIN q.funs /\ q.funs[i].name = s.funs[i].name
             /\ q.funs[i].params = s.funs[i].params
             /\ w.bodies[i] \in w.asked /\ w.bodies[i][1] = q.funs[i].body
             /\ s.funs[i].body = w.made[w.bodies[i]]
             /\ \A x \in ParamSet(q.funs[i]) : Written(x)
  <2>1. i \in DOMAIN q.funs /\ q.funs[i].name = s.funs[i].name /\ q.funs[i].params = s.funs[i].params
    BY <1>2, <1>4
  <2>2. /\ i \in BodyNumbers(q) /\ BodyOf(q, i) = q.funs[i].body /\ ParamsOf(q, i) = ParamSet(q.funs[i])
    BY <2>1, BodiesAccepted
  <2>3. BodyOf(s, i) = s.funs[i].body
    BY <1>4, BodiesAccepted
  <2> QED
    BY <1>1, <2>1, <2>2, <2>3
<1>5. \E y \in w.asked : y[1] = q.main /\ s.main = w.made[y]
  <2> DEFINE n == Len(q.funs) + 1
  <2>1. n \in BodyNumbers(q) /\ BodyOf(q, n) = q.main
    BY BodiesAccepted
  <2>2. BodyOf(s, n) = s.main
    BY <1>3, BodiesAccepted
  <2> HIDE DEF n
  <2> QED
    BY <1>1, <2>1, <2>2
<1> QED
  BY <1>4, <1>5

\* A call in its course.
LEMMA CallSimulated ==
    ASSUME NEW D, NEW w, NEW s, NEW q, Stepwise(D, s, q), LoweredBy(w, q, s),
           NEW x2, NEW env2, EvalRule(D, s, x2, env2), NEW G, G \subseteq Outcomes(D),
           Calls(D, q, x2, env2, G)
    PROVE  x2.exp = "Applied" /\ SimApplied(D, s, LoweredTriples(D, w, q), x2, env2, G)
<1>1. PICK c, env1 : ArgumentsAre(x2, env2, c) /\ Includes(D, q, c, env1, G)
  BY DEF Calls
<1>2. /\ x2.exp = "Applied" /\ c.exp = "Applied" /\ x2.f = c.f /\ c.args = <<>>
      /\ c.vs \in Seq(Values) /\ IsSeq(x2.vs) /\ IsSeq(x2.args) /\ Len(x2.vs) + Len(x2.args) = Len(c.vs)
      /\ \A i \in 1 .. Len(x2.vs) : x2.vs[i] = c.vs[i]
  BY <1>1 DEF ArgumentsAre
<1>3. /\ Rules(D) /\ s \in Programs /\ q \in Programs /\ EvalApplied(D, s, x2, env2)
      /\ <<Interrupted, <<>>>> \in G /\ LoweringKnown(w)
  BY <1>1, <1>2 DEF Stepwise, AllInScope, EvalRule, Includes, Begins, LoweredBy
<1>4. EvalApplied(D, q, c, env1)
  BY <1>1, <1>2, <1>3, RuleAt DEF Includes, EvalRule
<1>5. CASE x2.args = <<>>
  <2>1. x2.vs = c.vs
    <3>1. Len(x2.vs) = Len(c.vs)
      <4>1. Len(<<>>) = 0 /\ Len(x2.vs) \in Nat
        BY <1>2, IsSeqDomain
      <4> QED
        BY <1>2, <1>5, <4>1
    <3>2. IsSeq(c.vs)
      BY <1>2, SeqIsSeq
    <3> QED
      BY <1>2, <3>1, <3>2, SameVectors
  <2>2. ASSUME NEW i \in DOMAIN s.funs, NEW bound, s.funs[i].name = x2.f,
               Binds(bound, s.funs[i].params, x2.vs)
        PROVE  Continues(LoweredTriples(D, w, q), G, <<>>, s.funs[i].body, bound)
    <3>1. PICK y : y = w.bodies[i]
      OBVIOUS
    <3>2. /\ i \in DOMAIN q.funs /\ q.funs[i].name = c.f /\ q.funs[i].params = s.funs[i].params
          /\ y \in w.asked /\ y[1] = q.funs[i].body /\ s.funs[i].body = w.made[y]
          /\ \A x \in ParamSet(q.funs[i]) : Written(x)
      BY <1>2, <1>3, <2>2, <3>1, LoweredBodies
    <3>3. GoesOn(D, q, c, env1, <<>>, y[1], bound)
      BY <1>2, <1>4, <2>1, <2>2, <3>2 DEF EvalApplied
    <3>4. Includes(D, q, y[1], bound, G)
      BY <1>1, <3>3, GoesOnPassing, SamePassesOn
    <3>5. SourceIn(bound, bound)
      <4>1. DOMAIN bound = ParamSet(q.funs[i])
        BY <2>2, <3>2 DEF Binds, ParamSet
      <4> QED
        BY <3>2, <4>1 DEF SourceIn
    <3>6. Entering(D, w, q, w.made[y], bound, G)
      BY <1>3, <3>2, <3>4, <3>5, Enters
    <3>7. Stands(D, w, q, w.made[y], bound, G)
      BY <3>6, EnteredPart DEF Stands
    <3>8. Begins(D, s, w.made[y], bound)
      BY <1>3, <1>5, <2>2, <3>2 DEF EvalApplied, GoesOn
    <3>9. <<w.made[y], bound, G>> \in LoweredTriples(D, w, q)
      BY <3>7, <3>8, StandingTriple
    <3> QED
      BY <3>2, <3>9, ContinuesSame
  <2>3. SimApplied(D, s, LoweredTriples(D, w, q), x2, env2, G)
    BY <1>5, <2>2 DEF SimApplied
  <2> QED
    BY <1>2, <2>3
<1>6. CASE x2.args # <<>>
  <2>1. PICK u, a, y : /\ u = c.vs[Len(x2.vs) + 1] /\ a = Head(x2.args)
                       /\ y = Applied(x2.f, Append(x2.vs, u), Tail(x2.args))
    OBVIOUS
  <2>2. u \in Values /\ ImmValue(a, env2, u) /\ ArgumentsAre(y, env2, c)
    BY <1>1, <1>6, <2>1, ArgumentsNext
  <2>3. Begins(D, s, a, env2)
    BY <1>3, <1>6, <2>1 DEF EvalApplied, First
  <2>4. OpensAs(LoweredTriples(D, w, q), G, a, env2, u)
    BY <1>3, <2>2, <2>3, ImmOpens
  <2>5. PICK H : /\ Opens(LoweredTriples(D, w, q), G, a, env2, H)
                 /\ \A r, o : <<r, o>> \in H => o = <<>> /\ (r = u \/ r = Interrupted)
    BY <2>4 DEF OpensAs
  <2>6. ASSUME NEW v, NEW o, Reaches(D, s, a, env2, H, v, o)
        PROVE  Continues(LoweredTriples(D, w, q), G, o, Applied(x2.f, Append(x2.vs, v), Tail(x2.args)),
                         env2)
    <3>1. v = u /\ o = <<>>
      <4>1. v \in Values /\ <<v, o>> \in H
        BY <2>6 DEF Reaches
      <4>2. o = <<>> /\ (v = u \/ v = Interrupted)
        BY <2>5, <4>1
      <4> QED
        BY <4>1, <4>2, ValuesAreNotErrors
    <3>2. Applied(x2.f, Append(x2.vs, v), Tail(x2.args)) = y
      BY <2>1, <3>1
    <3>3. Begins(D, s, y, env2)
      BY <1>3, <1>6, <2>1, <2>6, <3>2 DEF EvalApplied, GoesOn, Reaches
    <3>4. Stands(D, w, q, y, env2, G)
      BY <1>1, <2>2 DEF Stands, Calls
    <3>5. <<y, env2, G>> \in LoweredTriples(D, w, q)
      BY <3>3, <3>4, StandingTriple
    <3>6. Continues(LoweredTriples(D, w, q), G, <<>>, y, env2)
      BY <3>5, ContinuesSame
    <3> QED
      BY <3>1, <3>2, <3>6
  <2>7. SimApplied(D, s, LoweredTriples(D, w, q), x2, env2, G)
    BY <1>6, <2>1, <2>5, <2>6 DEF SimApplied
  <2> QED
    BY <1>2, <2>7
<1> QED
  BY <1>5, <1>6

-----------------------------------------------------------------------------
(* All cases.                                                               *)

\* A value.
LEMMA ValueSimulated ==
    ASSUME NEW D, NEW s, NEW T, NEW x2, NEW env2, NEW G, HasValue(x2, env2, G)
    PROVE  SimRule(D, s, T, x2, env2, G)
<1>1. PICK v : ImmValue(x2, env2, v) /\ <<v, <<>>>> \in G
  BY DEF HasValue
<1> QED
  BY <1>1 DEF ImmValue, SimRule

\* What comes from a step on.
LEMMA SettledSimulated ==
    ASSUME NEW D, NEW w, NEW s, NEW q, Stepwise(D, s, q), LoweringKnown(w),
           NEW x2, NEW env2, EvalRule(D, s, x2, env2), NEW G, G \subseteq Outcomes(D),
           SettlesAs(D, w, q, x2, env2, G)
    PROVE  SimRule(D, s, LoweredTriples(D, w, q), x2, env2, G)
<1>1. PICK j, vs, env1 : /\ Waits(D, w, q, j, vs, env1, env2, G) /\ Settled(j, vs)
                         /\ x2 = w.rest[<<j, Len(vs) + 1>>]
  BY DEF SettlesAs
<1>2. StandsAt(D, w, s, q, j, vs, env1, x2, env2, G)
  BY <1>1 DEF StandsAt
<1>3. Formed(j[1]) /\ Len(vs) \in Nat /\ Steps(j[1]) \in Nat /\ Len(vs) <= Steps(j[1])
  <2>1. Formed(j[1]) /\ vs \in Seq(Values) /\ Len(vs) <= Steps(j[1])
    BY <1>1 DEF Waits
  <2> QED
    BY <2>1, StepChildren
<1> DEFINE T == LoweredTriples(D, w, q)
<1>4. CASE Len(vs) < Steps(j[1])
  <2>1. x2.exp = "Let" /\ SimLet(D, s, T, x2, env2, G)
    BY <1>2, <1>4, StepSimulated
  <2> HIDE DEF T
  <2>2. SimRule(D, s, T, x2, env2, G)
    BY <2>1 DEF SimRule
  <2> QED
    BY <2>2 DEF T
<1>5. CASE ~(Len(vs) < Steps(j[1]))
  <2>1. j[1].exp # "Let"
    BY <1>1, <1>5 DEF Settled
  <2>2. Len(vs) = Steps(j[1])
    BY <1>3, <1>5
  <2>3. StandsDone(D, w, s, q, j, vs, env1, x2, env2, G)
    BY <1>2, <2>1, <2>2, LastStands
  <2>4. CASE j[1].exp = "Prim1"
    <3>1. x2.exp = "Prim1" /\ SimPrim1(D, s, T, x2, env2, G)
      BY <2>3, <2>4, Prim1Last
    <3> HIDE DEF T
    <3>2. SimRule(D, s, T, x2, env2, G)
      BY <3>1 DEF SimRule
    <3> QED
      BY <3>2 DEF T
  <2>5. CASE j[1].exp = "Prim2"
    <3>1. x2.exp = "Prim2" /\ SimPrim2(D, s, T, x2, env2, G)
      BY <2>3, <2>5, Prim2Last
    <3> HIDE DEF T
    <3>2. SimRule(D, s, T, x2, env2, G)
      BY <3>1 DEF SimRule
    <3> QED
      BY <3>2 DEF T
  <2>6. CASE j[1].exp = "If"
    <3>1. x2.exp = "If" /\ SimIf(D, s, T, x2, env2, G)
      BY <2>3, <2>6, IfLast
    <3> HIDE DEF T
    <3>2. SimRule(D, s, T, x2, env2, G)
      BY <3>1 DEF SimRule
    <3> QED
      BY <3>2 DEF T
  <2>7. CASE j[1].exp = "Call"
    <3>1. x2.exp = "Call" /\ Continues(T, G, <<>>, Applied(x2.f, <<>>, x2.args), env2)
      BY <2>3, <2>7, CallLast
    <3> HIDE DEF T
    <3>2. SimRule(D, s, T, x2, env2, G)
      BY <3>1 DEF SimRule
    <3> QED
      BY <3>2 DEF T
  <2> QED
    BY <1>3, <2>1, <2>4, <2>5, <2>6, <2>7 DEF Formed
<1> QED
  BY <1>4, <1>5

\* What stands for something may be interrupted before it prints.
LEMMA StandsInterruptible ==
    ASSUME NEW D, NEW w, NEW q, NEW x2, NEW env2, NEW G, Stands(D, w, q, x2, env2, G)
    PROVE  <<Interrupted, <<>>>> \in G
<1>1. ASSUME NEW x, Part(D, w, q, x, env2, G) PROVE <<Interrupted, <<>>>> \in G
  <2>1. HasValue(x, env2, G) => <<Interrupted, <<>>>> \in G
    BY DEF HasValue
  <2>2. \A j, vs, env1 : Waits(D, w, q, j, vs, env1, env2, G) => <<Interrupted, <<>>>> \in G
    BY DEF Waits, Awaits
  <2> QED
    BY <1>1, <2>1, <2>2 DEF Part
<1>2. Calls(D, q, x2, env2, G) => <<Interrupted, <<>>>> \in G
  BY DEF Calls, Includes, Begins
<1> QED
  BY <1>1, <1>2 DEF Stands

\* The lowered program is simulated by its source.
LEMMA LoweredSimulated ==
    ASSUME NEW D, NEW w, NEW s, NEW q, Stepwise(D, s, q), LoweredBy(w, q, s)
    PROVE  Simulated(D, s, LoweredTriples(D, w, q))
<1> DEFINE T == LoweredTriples(D, w, q)
<1> SUFFICES ASSUME NEW x2, NEW env2, NEW G, <<x2, env2, G>> \in T
             PROVE  /\ <<Interrupted, <<>>>> \in G
                    /\ Begins(D, s, x2, env2) => SimRule(D, s, T, x2, env2, G)
  BY DEF Simulated
<1>1. Stands(D, w, q, x2, env2, G) /\ G \subseteq Outcomes(D)
  BY LoweredTriple, TripleOutcomes
<1>2. <<Interrupted, <<>>>> \in G
  BY <1>1, StandsInterruptible
<1>3. ASSUME Begins(D, s, x2, env2) PROVE SimRule(D, s, T, x2, env2, G)
  <2>1. EvalRule(D, s, x2, env2) /\ LoweringKnown(w)
    BY <1>3, RuleAt DEF Stepwise, AllInScope, LoweredBy
  <2>2. CASE Part(D, w, q, x2, env2, G)
    <3>1. HasValue(x2, env2, G) \/ SettlesAs(D, w, q, x2, env2, G)
      BY <2>1, <2>2, PartSettled
    <3>2. CASE HasValue(x2, env2, G)
      BY <3>2, ValueSimulated
    <3>3. CASE SettlesAs(D, w, q, x2, env2, G)
      BY <1>1, <2>1, <3>3, SettledSimulated
    <3> QED
      BY <3>1, <3>2, <3>3
  <2>3. CASE x2.exp = "Let" /\ x2.bindings = <<>> /\ Part(D, w, q, x2.body, env2, G)
    <3>1. Begins(D, s, x2.body, env2)
      BY <2>1, <2>3 DEF EvalRule, EvalLet, GoesOn
    <3>2. Stands(D, w, q, x2.body, env2, G)
      BY <2>3 DEF Stands
    <3>3. <<x2.body, env2, G>> \in T
      BY <1>1, <3>1, <3>2, StandingTriple
    <3>4. Continues(T, G, <<>>, x2.body, env2)
      BY <1>1, <3>3, ContinuesSame
    <3> HIDE DEF T
    <3>5. SimLet(D, s, T, x2, env2, G)
      BY <2>3, <3>4 DEF SimLet
    <3> QED
      BY <2>3, <3>5 DEF SimRule
  <2>4. CASE Calls(D, q, x2, env2, G)
    <3>1. x2.exp = "Applied" /\ SimApplied(D, s, T, x2, env2, G)
      BY <1>1, <2>1, <2>4, CallSimulated
    <3> HIDE DEF T
    <3> QED
      BY <3>1 DEF SimRule
  <2> QED
    BY <1>1, <2>2, <2>3, <2>4 DEF Stands
<1> QED
  BY <1>2, <1>3

\* seq_prog (compile.rs:435-713) keeps what a program means: binding the operands that
\* are not immediate, from the left, to temporaries of their own changes neither the
\* order in which things are evaluated and printed nor what they come to.
THEOREM SequentializingIsSound ==
    ASSUME NEW s \in Programs, NEW q \in Programs, NEW w, LoweredBy(w, q, s),
           NEW r, NEW o, Evaluates(s, r, o)
    PROVE  Evaluates(q, r, o)
<1> SUFFICES ASSUME NEW D0, Rules(D0) PROVE Gives(D0, q, q.main, EmptyEnv, r, o)
  BY DEF Evaluates
<1> DEFINE D1 == InScopeOnly(D0)
           D == Interruptible(D1)
           G == ResultsOf(D, q, q.main, EmptyEnv)
           T == LoweredTriples(D, w, q)
<1>1. Rules(D1)
  BY InScopeOnlyKeeps
<1>2. \A p \in Programs : \A e, env, x, o2 :
         Gives(D1, p, e, env, x, o2) => Gives(D0, p, e, env, x, o2) /\ Scoped(p, e, env)
  BY InScopeOnlyGives
<1> HIDE DEF D1
<1>3. Rules(D)
  BY <1>1, InterruptibleKeeps
<1>4. \A p, e, env, x, o2 :
         Gives(D, p, e, env, x, o2) <=>
            Gives(D1, p, e, env, x, o2) /\ (~IsErr(x) => Gives(D1, p, e, env, Interrupted, o2))
  BY InterruptibleGives
<1> HIDE DEF D
<1>5. Stepwise(D, s, q)
  <2>1. AllInScope(D, s, q)
    BY <1>2, <1>3, <1>4 DEF AllInScope, Begins
  <2>2. ASSUME NEW p, NEW e, NEW env, NEW x, NEW o2, Gives(D, p, e, env, x, o2), ~IsErr(x)
        PROVE  Gives(D, p, e, env, Interrupted, o2)
    BY <1>4, <2>2, ValuesAreNotErrors
  <2> QED
    BY <2>1, <2>2 DEF Stepwise
<1>6. Begins(D, s, s.main, EmptyEnv) /\ Begins(D, q, q.main, EmptyEnv)
  BY <1>3 DEF Rules
<1>7. G \subseteq Outcomes(D) /\ Includes(D, q, q.main, EmptyEnv, G)
  BY <1>6, ResultsIncluded
<1> HIDE DEF G
<1>8. <<s.main, EmptyEnv, G>> \in T
  <2>1. PICK y \in w.asked : y[1] = q.main /\ s.main = w.made[y]
    BY LoweredBodies
  <2>2. SourceIn(EmptyEnv, EmptyEnv)
    BY DEF SourceIn, EmptyEnv
  <2>3. Includes(D, q, y[1], EmptyEnv, G) /\ LoweringKnown(w)
    BY <1>7, <2>1 DEF LoweredBy
  <2>4. Entering(D, w, q, w.made[y], EmptyEnv, G)
    BY <1>5, <2>1, <2>2, <2>3, Enters
  <2>5. Stands(D, w, q, s.main, EmptyEnv, G)
    BY <2>1, <2>4, EnteredPart DEF Stands
  <2> QED
    BY <1>6, <1>7, <2>5, StandingTriple
<1>9. <<r, o>> \in G
  <2>1. Simulated(D, s, T)
    BY <1>5, LoweredSimulated
  <2> HIDE DEF T
  <2> QED
    BY <1>3, <1>8, <2>1, SimulationGives
<1>10. Gives(D, q, q.main, EmptyEnv, r, o)
  BY <1>9, ResultsIncluded DEF G
<1> QED
  BY <1>2, <1>4, <1>10

-----------------------------------------------------------------------------
(* uniquify_names.  A name that is in scope has a tag that the let at hand   *)
(* is yet to reach, so the name the let makes is another.                    *)

TagsAbove(ren, n) ==
    \A z \in DOMAIN ren : \E y : \E t \in Nat : IsName(y) /\ n <= t /\ ren[z] = NewName(y, t)

AskedAbove(w) == {j \in w.asked : TagsAbove(j[2], j[3] + w.size[j[1]])}

\* What becomes of an expression is that expression, with the names it was given
UniquifiedIn(w, params) == {<<w.made[j], j[1], j[2], params \cup DOMAIN j[2]>> : j \in AskedAbove(w)}

Uniquified(w, s) == UNION {UniquifiedIn(w[i], ParamsOf(s, i)) : i \in BodyNumbers(s)}

\* A name is a vector.
LEMMA NameIsSeq ==
    ASSUME NEW x, IsName(x)
    PROVE  IsSeq(x)
<1> DEFINE n == Len(x)
<1>1. n \in Nat /\ x = [k \in 1 .. n |-> x[k]]
  BY DEF IsName
<1> HIDE DEF n
<1>2. DOMAIN x = 1 .. n
  BY <1>1
<1>3. x \in [1 .. n -> {x[i] : i \in DOMAIN x}]
  BY <1>1, <1>2
<1> QED
  BY <1>1, <1>3, SeqDef DEF IsSeq

\* A name with a tag has the tag last.
LEMMA TagIsLast ==
    ASSUME NEW x, IsName(x), NEW t
    PROVE  NewName(x, t)[Len(NewName(x, t))] = t
<1>1. Len(Append(x, t)) = Len(x) + 1 /\ Append(x, t)[Len(x) + 1] = t
  BY NameIsSeq, PushedVector
<1> QED
  BY <1>1 DEF NewName

\* A lower number for the tags.
LEMMA TagsAboveLess ==
    ASSUME NEW ren, NEW m \in Int, NEW n \in Int, TagsAbove(ren, m), n <= m
    PROVE  TagsAbove(ren, n)
<1> SUFFICES ASSUME NEW z \in DOMAIN ren
             PROVE  \E y : \E t \in Nat : IsName(y) /\ n <= t /\ ren[z] = NewName(y, t)
  BY DEF TagsAbove
<1>1. PICK y : \E t \in Nat : IsName(y) /\ m <= t /\ ren[z] = NewName(y, t)
  BY DEF TagsAbove
<1>2. PICK t \in Nat : IsName(y) /\ m <= t /\ ren[z] = NewName(y, t)
  BY <1>1
<1>3. n <= t
  BY <1>2
<1> QED
  BY <1>2, <1>3

\* The name of a let is new, and its body is asked with it.
LEMMA NewNameRenames ==
    ASSUME NEW ren, NEW n \in Nat, TagsAbove(ren, n + 1), NEW x, IsName(x),
           NEW params, \A z \in params : Untagged(z, x)
    PROVE  /\ TagsAbove(Renaming(ren, x, NewName(x, n)), n)
           /\ Renames(ren, params \cup DOMAIN ren, NewName(x, n), x,
                      Renaming(ren, x, NewName(x, n)), params \cup DOMAIN Renaming(ren, x, NewName(x, n)))
<1> DEFINE y == NewName(x, n)
           ren2 == Renaming(ren, x, y)
<1>1. DOMAIN ren2 = DOMAIN ren \cup {x} /\ ren2[x] = y /\ \A z \in DOMAIN ren \ {x} : ren2[z] = ren[z]
  BY DEF Renaming
<1>2. TagsAbove(ren2, n)
  <2>1. TagsAbove(ren, n)
    BY TagsAboveLess
  <2> SUFFICES ASSUME NEW z \in DOMAIN ren2
               PROVE  \E y2 : \E t \in Nat : IsName(y2) /\ n <= t /\ ren2[z] = NewName(y2, t)
    BY DEF TagsAbove
  <2>2. CASE z = x
    BY <1>1, <2>2
  <2>3. CASE z # x
    <3>1. z \in DOMAIN ren /\ ren2[z] = ren[z]
      BY <1>1, <2>3
    <3> QED
      BY <2>1, <3>1 DEF TagsAbove
  <2> QED
    BY <2>2, <2>3
<1>3. ASSUME NEW z \in (params \cup DOMAIN ren) \ {x}
      PROVE  NameIn(ren2, z) = NameIn(ren, z) /\ NameIn(ren, z) # y
  <2>1. NameIn(ren2, z) = NameIn(ren, z)
    BY <1>1, <1>3 DEF NameIn
  <2>2. CASE z \in DOMAIN ren
    <3>1. PICK y2 : \E t \in Nat : IsName(y2) /\ n + 1 <= t /\ ren[z] = NewName(y2, t)
      BY <2>2 DEF TagsAbove
    <3>2. PICK t \in Nat : IsName(y2) /\ n + 1 <= t /\ ren[z] = NewName(y2, t)
      BY <3>1
    <3>3. n # t
      BY <3>2
    <3>4. ren[z] # y
      BY <3>2, <3>3, TagIsLast
    <3> QED
      BY <2>1, <2>2, <3>4 DEF NameIn
  <2>3. CASE z \notin DOMAIN ren
    <3>1. z \in params /\ NameIn(ren, z) = z
      BY <1>3, <2>3 DEF NameIn
    <3>2. z # NewName(x, z[Len(z)])
      BY <3>1 DEF Untagged
    <3>3. z # y
      BY <3>2, TagIsLast
    <3> QED
      BY <2>1, <3>1, <3>3
  <2> QED
    BY <2>2, <2>3
<1> HIDE DEF ren2, y
<1>4. NameIn(ren2, x) = y
  BY <1>1 DEF NameIn
<1>5. Renames(ren, params \cup DOMAIN ren, y, x, ren2, params \cup DOMAIN ren2)
  BY <1>1, <1>3, <1>4 DEF Renames
<1> QED
  BY <1>2, <1>5 DEF y, ren2

\* A renamed immediate expression.
LEMMA RenamedImmLike ==
    ASSUME NEW e, Immediate(e), NEW ren
    PROVE  LikeImm(RenamedImm(e, ren), e, ren)
<1>1. CASE e.exp = "Var"
  <2>1. RenamedImm(e, ren) = Var(NameIn(ren, e.x))
    BY <1>1 DEF RenamedImm
  <2>2. PICK e2 : e2 = RenamedImm(e, ren)
    OBVIOUS
  <2>3. e2.exp = "Var" /\ e2.x = NameIn(ren, e.x)
    BY <2>1, <2>2 DEF Var
  <2> QED
    BY <1>1, <2>2, <2>3 DEF LikeImm
<1>2. CASE e.exp # "Var"
  <2>1. RenamedImm(e, ren) = e
    BY <1>2 DEF RenamedImm
  <2> QED
    BY <1>2, <2>1 DEF LikeImm, Immediate
<1> QED
  BY <1>1, <1>2

\* What becomes of an if, and of what else that makes.
IfRenaming(w, j, k1, k2) ==
    k1 = <<j[1].thn, j[2], j[3]>> /\ k2 = <<j[1].els, j[2], j[3] + w.size[j[1].thn]>>

IfRenamed(w, j, k1, k2) ==
    LET s == w.made[j]
    IN  /\ s.exp = "If" /\ s.cond = RenamedImm(j[1].cond, j[2]) /\ Immediate(j[1].cond)
        /\ s.thn = w.made[k1] /\ s.els = w.made[k2]

\* Of a let, where tag is its tag and y the new name.
LetRenaming(w, j, tag, y, k1, k2) ==
    LET bound == j[1].bindings[1].e
    IN  /\ tag = j[3] + w.size[bound] + w.size[j[1].body]
        /\ y = NewName(j[1].bindings[1].var, tag)
        /\ k1 = <<bound, j[2], j[3]>>
        /\ k2 = <<j[1].body, Renaming(j[2], j[1].bindings[1].var, y), j[3] + w.size[bound]>>

LetRenamed(w, j, y, k1, k2) ==
    LET s == w.made[j]
    IN  /\ s = LetIn(y, w.made[k1], w.made[k2])
        /\ IsName(j[1].bindings[1].var)
        /\ j[1].bindings = <<Binding(j[1].bindings[1].var, j[1].bindings[1].e)>>

\* The tags of the first come before those of the second, and these before that of
\* the whole.
TagsFollow(w, j, k1, k2) ==
    /\ k1 \in w.asked /\ k2 \in w.asked
    /\ j[3] \in Nat /\ w.size[j[1]] \in Nat /\ w.size[k1[1]] \in Nat /\ w.size[k2[1]] \in Nat
    /\ w.size[j[1]] = w.size[k1[1]] + w.size[k2[1]] + 1
    /\ k1[3] = j[3] /\ k2[3] = j[3] + w.size[k1[1]]

\* An if.
LEMMA RenamesIf ==
    ASSUME NEW w, RenamingKnown(w), NEW j \in w.asked, j[1].exp = "If",
           NEW k1, NEW k2, IfRenaming(w, j, k1, k2)
    PROVE  TagsFollow(w, j, k1, k2) /\ IfRenamed(w, j, k1, k2)
<1> DEFINE e == j[1]
           s == w.made[j]
<1>1. /\ Sequential(e) /\ s = RenamedFrom(w, e, j[2], j[3])
      /\ RenamingAsks(w, e, j[2], j[3]) \subseteq w.asked
      /\ j[3] \in Nat /\ w.size[e] = SeqSizeArm(LAMBDA x : w.size[x], e)
      /\ \A k \in w.asked : w.size[k[1]] \in Nat
  BY DEF RenamingKnown
<1>2. k1 = <<e.thn, j[2], j[3]>> /\ k2 = <<e.els, j[2], j[3] + w.size[e.thn]>>
  BY DEF IfRenaming
<1>3. RenamingAsks(w, e, j[2], j[3]) = {k1, k2}
  BY <1>2 DEF RenamingAsks
<1>4. s = If(RenamedImm(e.cond, j[2]), w.made[k1], w.made[k2])
  BY <1>1, <1>2 DEF RenamedFrom, UniquifyArm, Immediate
<1> HIDE DEF s
<1>5. /\ s.exp = "If" /\ s.cond = RenamedImm(e.cond, j[2])
      /\ s.thn = w.made[k1] /\ s.els = w.made[k2]
  BY <1>4 DEF If
<1>6. Immediate(e.cond)
  BY <1>1 DEF Sequential
<1>7. w.size[e] = w.size[e.thn] + w.size[e.els] + 1
  BY <1>1 DEF SeqSizeArm
<1>8. TagsFollow(w, j, k1, k2)
  BY <1>1, <1>2, <1>3, <1>7 DEF TagsFollow
<1> QED
  BY <1>5, <1>6, <1>8 DEF IfRenamed, s

\* A let.
LEMMA RenamesLet ==
    ASSUME NEW w, RenamingKnown(w), NEW j \in w.asked, j[1].exp = "Let",
           NEW tag, NEW y, NEW k1, NEW k2, LetRenaming(w, j, tag, y, k1, k2)
    PROVE  TagsFollow(w, j, k1, k2) /\ LetRenamed(w, j, y, k1, k2)
<1> DEFINE e == j[1]
           x == e.bindings[1].var
           bound == e.bindings[1].e
           s == w.made[j]
<1>1. /\ e = LetIn(x, bound, e.body) /\ IsName(x)
      /\ s = RenamedFrom(w, e, j[2], j[3])
      /\ RenamingAsks(w, e, j[2], j[3]) \subseteq w.asked
      /\ j[3] \in Nat /\ w.size[e] = SeqSizeArm(LAMBDA z : w.size[z], e)
      /\ \A k \in w.asked : w.size[k[1]] \in Nat
  BY DEF RenamingKnown
<1>2. /\ y = NewName(x, j[3] + w.size[bound] + w.size[e.body])
      /\ k1 = <<bound, j[2], j[3]>>
      /\ k2 = <<e.body, Renaming(j[2], x, y), j[3] + w.size[bound]>>
  BY DEF LetRenaming
<1>3. RenamingAsks(w, e, j[2], j[3]) = {k1, k2}
  BY <1>2 DEF RenamingAsks
<1>4. s = LetIn(y, w.made[k1], w.made[k2])
  BY <1>1, <1>2 DEF RenamedFrom, UniquifyArm, UniquifyLet, Immediate
<1>5. w.size[e] = w.size[bound] + w.size[e.body] + 1
  BY <1>1 DEF SeqSizeArm
<1> HIDE DEF s
<1>6. e.bindings = <<Binding(x, bound)>>
  BY <1>1 DEF LetIn, Let
<1>7. TagsFollow(w, j, k1, k2)
  <2>1. k1[1] = bound /\ k1[3] = j[3] /\ k2[1] = e.body /\ k2[3] = j[3] + w.size[bound]
    BY <1>2
  <2> QED
    BY <1>1, <1>3, <1>5, <2>1 DEF TagsFollow
<1> QED
  BY <1>1, <1>4, <1>6, <1>7 DEF LetRenamed, s

\* Members of the relation.
LEMMA UniquifiedMember ==
    ASSUME NEW w, NEW params, NEW j, j \in AskedAbove(w), NEW e, NEW ren, j[1] = e, j[2] = ren
    PROVE  <<w.made[j], e, ren, params \cup DOMAIN ren>> \in UniquifiedIn(w, params)
BY DEF UniquifiedIn

\* An if that is asked.
LEMMA UniquifiedIf ==
    ASSUME NEW w, RenamingKnown(w), NEW params, NEW j \in AskedAbove(w), j[1].exp = "If",
           NEW M, UniquifiedIn(w, params) \subseteq M
    PROVE  LikeAt(M, w.made[j], j[1], j[2], params \cup DOMAIN j[2])
<1> DEFINE e == j[1]
           ren == j[2]
           S == params \cup DOMAIN ren
           e2 == w.made[j]
<1>1. PICK k1, k2 : IfRenaming(w, j, k1, k2)
  BY DEF IfRenaming
<1>2. j \in w.asked /\ TagsAbove(ren, j[3] + w.size[e])
  BY DEF AskedAbove
<1>3. TagsFollow(w, j, k1, k2) /\ IfRenamed(w, j, k1, k2)
  BY <1>1, <1>2, RenamesIf
<1>4. k1[1] = e.thn /\ k2[1] = e.els /\ k1[2] = ren /\ k2[2] = ren
  BY <1>1 DEF IfRenaming
<1>5. k1 \in AskedAbove(w) /\ k2 \in AskedAbove(w)
  <2> DEFINE m == j[3] + w.size[e]
             n1 == k1[3] + w.size[k1[1]]
             n2 == k2[3] + w.size[k2[1]]
  <2>1. m \in Int /\ n1 \in Int /\ n2 \in Int /\ n1 <= m /\ n2 <= m
    BY <1>3 DEF TagsFollow
  <2> HIDE DEF m, n1, n2
  <2>2. TagsAbove(ren, n1) /\ TagsAbove(ren, n2)
    BY <1>2, <2>1, TagsAboveLess DEF m
  <2> QED
    BY <1>3, <1>4, <2>2 DEF AskedAbove, TagsFollow, n1, n2
<1>6. <<w.made[k1], e.thn, ren, S>> \in M /\ <<w.made[k2], e.els, ren, S>> \in M
  BY <1>4, <1>5, UniquifiedMember
<1>7. LikeImm(e2.cond, e.cond, ren)
  BY <1>3, RenamedImmLike DEF IfRenamed
<1>8. LikeAt(M, e2, e, ren, S)
  BY <1>3, <1>6, <1>7 DEF LikeAt, IfRenamed
<1> QED
  BY <1>8

\* A let.
LEMMA UniquifiedLet ==
    ASSUME NEW w, RenamingKnown(w), NEW params, NEW j \in AskedAbove(w), j[1].exp = "Let",
           \A x \in params : Untagged(x, j[1].bindings[1].var),
           NEW M, UniquifiedIn(w, params) \subseteq M
    PROVE  LikeAt(M, w.made[j], j[1], j[2], params \cup DOMAIN j[2])
<1> DEFINE e == j[1]
           ren == j[2]
           S == params \cup DOMAIN ren
           x == e.bindings[1].var
           bound == e.bindings[1].e
           e2 == w.made[j]
<1>1. PICK tag, y, k1, k2 : LetRenaming(w, j, tag, y, k1, k2)
  BY DEF LetRenaming
<1>2. j \in w.asked /\ TagsAbove(ren, j[3] + w.size[e])
  BY DEF AskedAbove
<1>3. TagsFollow(w, j, k1, k2) /\ LetRenamed(w, j, y, k1, k2)
  BY <1>1, <1>2, RenamesLet
<1> DEFINE ren2 == Renaming(ren, x, y)
<1>4. /\ k1[1] = bound /\ k1[2] = ren /\ k2[1] = e.body /\ k2[2] = ren2
      /\ tag = j[3] + w.size[bound] + w.size[e.body] /\ y = NewName(x, tag)
  BY <1>1 DEF LetRenaming
<1>5. /\ tag \in Nat /\ j[3] + w.size[e] = tag + 1 /\ k2[3] + w.size[e.body] = tag
      /\ k1[3] + w.size[bound] \in Nat /\ k1[3] + w.size[bound] <= tag + 1
  <2>1. /\ j[3] \in Nat /\ w.size[e] \in Nat /\ w.size[bound] \in Nat /\ w.size[e.body] \in Nat
        /\ w.size[e] = w.size[bound] + w.size[e.body] + 1
        /\ k1[3] = j[3] /\ k2[3] = j[3] + w.size[bound]
    BY <1>3, <1>4 DEF TagsFollow
  <2> HIDE DEF e, bound
  <2> QED
    BY <1>4, <2>1
<1>6. k1 \in AskedAbove(w)
  <2>1. TagsAbove(ren, k1[3] + w.size[bound])
    BY <1>2, <1>5, TagsAboveLess
  <2> QED
    BY <1>3, <1>4, <2>1 DEF AskedAbove, TagsFollow
<1>7. TagsAbove(ren2, tag) /\ Renames(ren, S, y, x, ren2, params \cup DOMAIN ren2)
  BY <1>2, <1>3, <1>4, <1>5, NewNameRenames DEF LetRenamed
<1>8. k2 \in AskedAbove(w)
  BY <1>3, <1>4, <1>5, <1>7 DEF AskedAbove, TagsFollow
<1> HIDE DEF ren2
<1>9. /\ <<w.made[k1], bound, ren, S>> \in M
      /\ <<w.made[k2], e.body, ren2, params \cup DOMAIN ren2>> \in M
  BY <1>4, <1>6, <1>8, UniquifiedMember
<1> HIDE DEF e2
<1>10. /\ e2.exp = "Let" /\ e2.bindings = <<Binding(y, w.made[k1])>> /\ e2.body = w.made[k2]
       /\ e.bindings = <<Binding(x, bound)>>
  BY <1>3 DEF LetRenamed, LetIn, Let, e2
<1> HIDE DEF x, bound, e, ren, S
<1>11. LikeLet(M, e2, e, ren, S)
  BY <1>7, <1>9, <1>10 DEF LikeLet
<1>12. LikeAt(M, e2, e, ren, S)
  BY <1>10, <1>11 DEF LikeAt, e
<1> QED
  BY <1>12 DEF e2, e, ren, S

\* An operation.
LEMMA UniquifiedOperation ==
    ASSUME NEW w, RenamingKnown(w), NEW j \in w.asked, j[1].exp \notin {"If", "Let"}, NEW M, NEW S
    PROVE  LikeAt(M, w.made[j], j[1], j[2], S)
<1> DEFINE e == j[1]
           ren == j[2]
           e2 == w.made[j]
<1>1. Sequential(e) /\ e2 = RenamedFrom(w, e, ren, j[3])
  BY DEF RenamingKnown
<1> HIDE DEF e2
<1>2. CASE Immediate(e)
  <2>1. e2 = RenamedImm(e, ren)
    <3>1. e.exp # "Prim1" /\ e.exp # "Prim2" /\ e.exp # "Call" /\ e.exp # "If" /\ e.exp # "Let"
      BY <1>2, ImmediateKinds DEF Immediate
    <3> QED
      BY <1>1, <1>2, <3>1 DEF RenamedFrom, UniquifyArm, Immediate
  <2> QED
    BY <1>2, <2>1, RenamedImmLike DEF LikeAt, e2
<1>3. CASE e.exp = "Prim1"
  <2>1. e2 = Prim1(e.op, RenamedImm(e.e, ren)) /\ Immediate(e.e)
    BY <1>1, <1>3 DEF RenamedFrom, UniquifyArm, Immediate, Sequential
  <2>2. e2.exp = "Prim1" /\ e2.op = e.op /\ LikeImm(e2.e, e.e, ren)
    BY <2>1, RenamedImmLike DEF Prim1
  <2> QED
    BY <1>3, <2>2 DEF LikeAt, e2
<1>4. CASE e.exp = "Prim2"
  <2>1. /\ e2 = Prim2(e.op, RenamedImm(e.e1, ren), RenamedImm(e.e2, ren))
        /\ Immediate(e.e1) /\ Immediate(e.e2)
    BY <1>1, <1>4 DEF RenamedFrom, UniquifyArm, Immediate, Sequential
  <2>2. e2.exp = "Prim2" /\ e2.op = e.op /\ LikeImm(e2.e1, e.e1, ren) /\ LikeImm(e2.e2, e.e2, ren)
    BY <2>1, RenamedImmLike DEF Prim2
  <2> QED
    BY <1>4, <2>2 DEF LikeAt, e2
<1>5. CASE e.exp = "Call"
  <2>1. /\ e2 = Call(e.f, [i \in DOMAIN e.args |-> RenamedImm(e.args[i], ren)])
        /\ \A i \in DOMAIN e.args : Immediate(e.args[i])
    BY <1>1, <1>5 DEF RenamedFrom, UniquifyArm, Immediate, Sequential
  <2>2. e2.exp = "Call" /\ e2.f = e.f /\ e2.args = [i \in DOMAIN e.args |-> RenamedImm(e.args[i], ren)]
    BY <2>1 DEF Call
  <2>3. LikeArgs(e2.args, e.args, ren)
    BY <2>1, <2>2, RenamedImmLike DEF LikeArgs
  <2> QED
    BY <1>5, <2>2, <2>3 DEF LikeAt, e2
<1> QED
  BY <1>1, <1>2, <1>3, <1>4, <1>5 DEF Sequential, Immediate

\* uniquify_names makes a program that is alike.
LEMMA UniquifiedAlike ==
    ASSUME NEW s, NEW w, NEW u, RenamedBy(w, s, u)
    PROVE  LikePrograms(Uniquified(w, s), u, s)
<1> DEFINE M == Uniquified(w, s)
<1>1. ASSUME NEW e2, NEW e1, NEW ren, NEW S, <<e2, e1, ren, S>> \in M
      PROVE  LikeAt(M, e2, e1, ren, S)
  <2>1. PICK i \in BodyNumbers(s) : <<e2, e1, ren, S>> \in UniquifiedIn(w[i], ParamsOf(s, i))
    BY <1>1 DEF Uniquified
  <2>2. PICK j \in AskedAbove(w[i]) :
               <<e2, e1, ren, S>> = <<w[i].made[j], j[1], j[2], ParamsOf(s, i) \cup DOMAIN j[2]>>
    BY <2>1 DEF UniquifiedIn
  <2>3. e2 = w[i].made[j] /\ e1 = j[1] /\ ren = j[2] /\ S = ParamsOf(s, i) \cup DOMAIN j[2]
    BY <2>2
  <2>4. /\ RenamingKnown(w[i]) /\ j \in w[i].asked
        /\ j[1].exp = "Let" => \A x \in ParamsOf(s, i) : Untagged(x, j[1].bindings[1].var)
    BY DEF RenamedBy, AskedAbove
  <2>5. UniquifiedIn(w[i], ParamsOf(s, i)) \subseteq M
    BY DEF Uniquified
  <2> HIDE DEF M
  <2>6. CASE j[1].exp = "If"
    BY <2>3, <2>4, <2>5, <2>6, UniquifiedIf
  <2>7. CASE j[1].exp = "Let"
    BY <2>3, <2>4, <2>5, <2>7, UniquifiedLet
  <2>8. CASE j[1].exp \notin {"If", "Let"}
    BY <2>3, <2>4, <2>8, UniquifiedOperation
  <2> QED
    BY <2>6, <2>7, <2>8
<1>2. ASSUME NEW i \in BodyNumbers(s)
      PROVE  \E ren, S : /\ <<BodyOf(u, i), BodyOf(s, i), ren, S>> \in M
                         /\ ParamsOf(s, i) \subseteq S /\ \A z \in S : NameIn(ren, z) = z
  <2> DEFINE j == <<BodyOf(s, i), NoRenaming, w[i].base>>
  <2>1. /\ j \in w[i].asked /\ BodyOf(u, i) = w[i].made[j]
        /\ j[1] = BodyOf(s, i) /\ j[2] = NoRenaming
    BY DEF RenamedBy
  <2> HIDE DEF j
  <2>2. DOMAIN NoRenaming = {}
    BY DEF NoRenaming
  <2>3. j \in AskedAbove(w[i])
    BY <2>1, <2>2 DEF AskedAbove, TagsAbove
  <2>4. <<BodyOf(u, i), BodyOf(s, i), NoRenaming, ParamsOf(s, i) \cup DOMAIN NoRenaming>> \in M
    BY <2>1, <2>3, UniquifiedMember DEF Uniquified
  <2>5. \A z : NameIn(NoRenaming, z) = z
    BY <2>2 DEF NameIn
  <2> HIDE DEF M
  <2> QED
    BY <2>4, <2>5
<1>3. SameDecls(u, s)
  BY DEF RenamedBy
<1> HIDE DEF M
<1>4. LikePrograms(M, u, s)
  BY <1>1, <1>2, <1>3 DEF LikePrograms, LikeBodies
<1> QED
  BY <1>4 DEF M

-----------------------------------------------------------------------------
(* The names that uniquify_names binds are distinct: those of two parts have *)
(* tags of their own.                                                        *)

UntaggedIn(w, params) ==
    \A j \in w.asked : j[1].exp = "Let" => \A x \in params : Untagged(x, j[1].bindings[1].var)

\* A name with one of n tags from base on, and like no parameter
TaggedFrom(z, params, base, n) ==
    \E y : \E t \in Nat : /\ IsName(y) /\ base <= t /\ t < base + n /\ z = NewName(y, t)
                          /\ \A x \in params : Untagged(x, y)

TaggedWithin(w, params, j) ==
    /\ \A z \in w.binders[w.made[j]] : TaggedFrom(z, params, j[3], w.size[j[1]])
    /\ DistinctBinders(w, w.made[j])

\* Tags that are apart make names that are.
LEMMA TagsApart ==
    ASSUME NEW params, NEW z1, NEW b1 \in Nat, NEW n1 \in Nat, TaggedFrom(z1, params, b1, n1),
           NEW z2, NEW b2 \in Nat, NEW n2 \in Nat, TaggedFrom(z2, params, b2, n2), b1 + n1 <= b2
    PROVE  z1 # z2
<1>1. PICK y1 : \E t \in Nat : IsName(y1) /\ b1 <= t /\ t < b1 + n1 /\ z1 = NewName(y1, t)
  BY DEF TaggedFrom
<1>2. PICK t1 \in Nat : IsName(y1) /\ b1 <= t1 /\ t1 < b1 + n1 /\ z1 = NewName(y1, t1)
  BY <1>1
<1>3. PICK y2 : \E t \in Nat : IsName(y2) /\ b2 <= t /\ t < b2 + n2 /\ z2 = NewName(y2, t)
  BY DEF TaggedFrom
<1>4. PICK t2 \in Nat : IsName(y2) /\ b2 <= t2 /\ t2 < b2 + n2 /\ z2 = NewName(y2, t2)
  BY <1>3
<1>5. t1 # t2
  BY <1>2, <1>4
<1>6. z1[Len(z1)] = t1 /\ z2[Len(z2)] = t2
  BY <1>2, <1>4, TagIsLast
<1> QED
  BY <1>5, <1>6

\* Tags within tags.
LEMMA TagsWithin ==
    ASSUME NEW z, NEW params, NEW b1 \in Nat, NEW n1 \in Nat, TaggedFrom(z, params, b1, n1),
           NEW b2 \in Nat, NEW n2 \in Nat, b2 <= b1, b1 + n1 <= b2 + n2
    PROVE  TaggedFrom(z, params, b2, n2)
<1>1. PICK y : \E t \in Nat : /\ IsName(y) /\ b1 <= t /\ t < b1 + n1 /\ z = NewName(y, t)
                              /\ \A x \in params : Untagged(x, y)
  BY DEF TaggedFrom
<1>2. PICK t \in Nat : /\ IsName(y) /\ b1 <= t /\ t < b1 + n1 /\ z = NewName(y, t)
                       /\ \A x \in params : Untagged(x, y)
  BY <1>1
<1>3. b2 <= t /\ t < b2 + n2
  BY <1>2
<1> QED
  BY <1>2, <1>3 DEF TaggedFrom

\* A name with a tag is no parameter.
LEMMA TaggedNoParameter ==
    ASSUME NEW z, NEW params, NEW b, NEW n, TaggedFrom(z, params, b, n)
    PROVE  z \notin params
<1>1. PICK y : \E t \in Nat : IsName(y) /\ z = NewName(y, t) /\ \A x \in params : Untagged(x, y)
  BY DEF TaggedFrom
<1>2. PICK t \in Nat : IsName(y) /\ z = NewName(y, t) /\ \A x \in params : Untagged(x, y)
  BY <1>1
<1>3. z[Len(z)] = t
  BY <1>2, TagIsLast
<1> QED
  BY <1>2, <1>3 DEF Untagged

\* The names of both parts, with the tags of the whole.
LEMMA TaggedParts ==
    ASSUME NEW w, NEW params, NEW j, NEW k1, NEW k2, TagsFollow(w, j, k1, k2),
           TaggedWithin(w, params, k1), TaggedWithin(w, params, k2)
    PROVE  /\ \A z \in w.binders[w.made[k1]] \cup w.binders[w.made[k2]] :
                 TaggedFrom(z, params, j[3], w.size[j[1]] - 1)
           /\ w.binders[w.made[k1]] \cap w.binders[w.made[k2]] = {}
<1> DEFINE base == j[3]
           n1 == w.size[k1[1]]
           n2 == w.size[k2[1]]
<1>1. /\ base \in Nat /\ n1 \in Nat /\ n2 \in Nat /\ w.size[j[1]] = n1 + n2 + 1
      /\ k1[3] = base /\ k2[3] = base + n1
  BY DEF TagsFollow
<1>2. /\ \A z \in w.binders[w.made[k1]] : TaggedFrom(z, params, base, n1)
      /\ \A z \in w.binders[w.made[k2]] : TaggedFrom(z, params, base + n1, n2)
  BY <1>1 DEF TaggedWithin
<1> HIDE DEF base, n1, n2
<1>3. /\ base + n1 \in Nat /\ n1 + n2 \in Nat /\ base <= base /\ base <= base + n1
      /\ base + n1 <= base + (n1 + n2) /\ (base + n1) + n2 <= base + (n1 + n2)
      /\ base + n1 <= base + n1 /\ w.size[j[1]] - 1 = n1 + n2
  BY <1>1
<1>4. \A z \in w.binders[w.made[k1]] \cup w.binders[w.made[k2]] : TaggedFrom(z, params, base, n1 + n2)
  <2>1. \A z \in w.binders[w.made[k1]] : TaggedFrom(z, params, base, n1 + n2)
    BY <1>1, <1>2, <1>3, TagsWithin
  <2>2. \A z \in w.binders[w.made[k2]] : TaggedFrom(z, params, base, n1 + n2)
    BY <1>1, <1>2, <1>3, TagsWithin
  <2> QED
    BY <2>1, <2>2
<1>5. w.binders[w.made[k1]] \cap w.binders[w.made[k2]] = {}
  BY <1>1, <1>2, <1>3, TagsApart
<1> QED
  BY <1>3, <1>4, <1>5 DEF base

\* An if.
LEMMA TaggedIf ==
    ASSUME NEW w, RenamingKnown(w), NEW params, NEW j \in w.asked, j[1].exp = "If",
           NEW k1, NEW k2, IfRenaming(w, j, k1, k2),
           TaggedWithin(w, params, k1), TaggedWithin(w, params, k2)
    PROVE  TaggedWithin(w, params, j)
<1> DEFINE s == w.made[j]
           Both == w.binders[w.made[k1]] \cup w.binders[w.made[k2]]
<1>1. TagsFollow(w, j, k1, k2) /\ IfRenamed(w, j, k1, k2)
  BY RenamesIf
<1>2. s.exp = "If" /\ s.thn = w.made[k1] /\ s.els = w.made[k2]
  BY <1>1 DEF IfRenamed
<1>3. w.binders[s] = BindersFrom(w, s)
  BY DEF RenamingKnown
<1> HIDE DEF s
<1>4. w.binders[s] = Both
  <2>1. SeqParts(s) = {s.thn, s.els}
    BY <1>2 DEF SeqParts
  <2> QED
    BY <1>2, <1>3, <2>1 DEF BindersFrom
<1>5. /\ \A z \in Both : TaggedFrom(z, params, j[3], w.size[j[1]] - 1)
      /\ w.binders[w.made[k1]] \cap w.binders[w.made[k2]] = {}
  BY <1>1, TaggedParts
<1>6. /\ j[3] \in Nat /\ w.size[j[1]] \in Nat /\ w.size[j[1]] - 1 \in Nat
      /\ j[3] <= j[3] /\ j[3] + (w.size[j[1]] - 1) <= j[3] + w.size[j[1]]
  <2>1. /\ j[3] \in Nat /\ w.size[k1[1]] \in Nat /\ w.size[k2[1]] \in Nat
        /\ w.size[j[1]] = w.size[k1[1]] + w.size[k2[1]] + 1
    BY <1>1 DEF TagsFollow
  <2> QED
    BY <2>1
<1>7. \A z \in w.binders[s] : TaggedFrom(z, params, j[3], w.size[j[1]])
  BY <1>4, <1>5, <1>6, TagsWithin
<1>8. DistinctBinders(w, s)
  BY <1>2, <1>5 DEF DistinctBinders
<1> QED
  BY <1>7, <1>8 DEF TaggedWithin, s

\* A let.
LEMMA TaggedLet ==
    ASSUME NEW w, RenamingKnown(w), NEW params, UntaggedIn(w, params),
           NEW j \in w.asked, j[1].exp = "Let",
           NEW tag, NEW y, NEW k1, NEW k2, LetRenaming(w, j, tag, y, k1, k2),
           TaggedWithin(w, params, k1), TaggedWithin(w, params, k2)
    PROVE  TaggedWithin(w, params, j)
<1> DEFINE s == w.made[j]
           x == j[1].bindings[1].var
           Both == w.binders[w.made[k1]] \cup w.binders[w.made[k2]]
           base == j[3]
           n == w.size[j[1]]
<1>1. TagsFollow(w, j, k1, k2) /\ LetRenamed(w, j, y, k1, k2)
  BY RenamesLet
<1>2. s = LetIn(y, w.made[k1], w.made[k2]) /\ IsName(x)
  BY <1>1 DEF LetRenamed
<1>3. w.binders[s] = BindersFrom(w, s)
  BY DEF RenamingKnown
<1> HIDE DEF s
<1>4. /\ s.exp = "Let" /\ s.bindings = <<Binding(y, w.made[k1])>> /\ s.body = w.made[k2]
      /\ s.bindings[1].var = y /\ s.bindings[1].e = w.made[k1]
  <2>1. s.exp = "Let" /\ s.bindings = <<Binding(y, w.made[k1])>> /\ s.body = w.made[k2]
    BY <1>2 DEF LetIn, Let
  <2> QED
    BY <2>1, OneBinding
<1>5. w.binders[s] = {y} \cup Both
  <2>1. SeqParts(s) = {s.bindings[1].e, s.body}
    BY <1>4 DEF SeqParts
  <2> QED
    BY <1>3, <1>4, <2>1 DEF BindersFrom
<1>6. /\ \A z \in Both : TaggedFrom(z, params, base, n - 1)
      /\ w.binders[w.made[k1]] \cap w.binders[w.made[k2]] = {}
  BY <1>1, TaggedParts
<1>7. base \in Nat /\ n \in Nat /\ n - 1 \in Nat /\ tag = base + (n - 1)
  <2>1. /\ base \in Nat /\ w.size[k1[1]] \in Nat /\ w.size[k2[1]] \in Nat
        /\ n = w.size[k1[1]] + w.size[k2[1]] + 1
    BY <1>1 DEF TagsFollow
  <2>2. tag = base + w.size[k1[1]] + w.size[k2[1]]
    BY DEF LetRenaming
  <2> HIDE DEF base, n
  <2> QED
    BY <2>1, <2>2
<1>8. y = NewName(x, tag) /\ \A z \in params : Untagged(z, x)
  BY DEF LetRenaming, UntaggedIn
<1> HIDE DEF base, n, x
<1>9. /\ tag \in Nat /\ base <= tag /\ tag < base + n /\ tag < tag + 1 /\ tag <= tag
      /\ base <= base /\ base + (n - 1) <= base + n /\ base + (n - 1) <= tag /\ 1 \in Nat
  BY <1>7
<1>10. TaggedFrom(y, params, base, n) /\ TaggedFrom(y, params, tag, 1)
  BY <1>2, <1>8, <1>9 DEF TaggedFrom
<1>11. \A z \in Both : TaggedFrom(z, params, base, n) /\ z # y
  BY <1>6, <1>7, <1>9, <1>10, TagsWithin, TagsApart
<1>12. \A z \in w.binders[s] : TaggedFrom(z, params, base, n)
  BY <1>5, <1>10, <1>11
<1>13. DistinctBinders(w, s)
  <2>1. y \notin Both
    BY <1>11
  <2> QED
    BY <1>4, <1>6, <2>1 DEF DistinctBinders
<1> QED
  BY <1>12, <1>13 DEF TaggedWithin, s, base, n

\* An operation makes an operation.
LEMMA RenamesOperation ==
    ASSUME NEW w, RenamingKnown(w), NEW j \in w.asked, j[1].exp \notin {"If", "Let"}
    PROVE  w.made[j].exp \notin {"If", "Let"}
<1>1. LikeAt({}, w.made[j], j[1], j[2], {})
  BY UniquifiedOperation
<1> QED
  BY <1>1 DEF LikeAt, LikeImm

\* All that is asked.
LEMMA AllTagged ==
    ASSUME NEW w, RenamingKnown(w), NEW params, UntaggedIn(w, params)
    PROVE  \A j \in w.asked : TaggedWithin(w, params, j)
<1> DEFINE rank == [j \in w.asked |-> w.size[j[1]]]
           P == {j \in w.asked : TaggedWithin(w, params, j)}
<1>1. \A j \in w.asked : rank[j] \in Nat
  BY DEF RenamingKnown
<1>2. ASSUME NEW j \in w.asked, \A k \in w.asked : rank[k] < rank[j] => k \in P
      PROVE  j \in P
  <2>1. ASSUME NEW k1, NEW k2, TagsFollow(w, j, k1, k2)
        PROVE  TaggedWithin(w, params, k1) /\ TaggedWithin(w, params, k2)
    <3>1. k1 \in w.asked /\ k2 \in w.asked /\ w.size[k1[1]] < w.size[j[1]] /\ w.size[k2[1]] < w.size[j[1]]
      BY <2>1 DEF TagsFollow
    <3> QED
      BY <1>2, <3>1
  <2> HIDE DEF rank
  <2>2. CASE j[1].exp = "If"
    <3>1. PICK k1, k2 : IfRenaming(w, j, k1, k2)
      BY DEF IfRenaming
    <3> QED
      BY <2>1, <2>2, <3>1, RenamesIf, TaggedIf
  <2>3. CASE j[1].exp = "Let"
    <3>1. PICK tag, y, k1, k2 : LetRenaming(w, j, tag, y, k1, k2)
      BY DEF LetRenaming
    <3> QED
      BY <2>1, <2>3, <3>1, RenamesLet, TaggedLet
  <2>4. CASE j[1].exp \notin {"If", "Let"}
    <3>1. w.made[j].exp \notin {"If", "Let"}
      BY <2>4, RenamesOperation
    <3>2. w.binders[w.made[j]] = {}
      <4>1. w.binders[w.made[j]] = BindersFrom(w, w.made[j])
        BY DEF RenamingKnown
      <4>2. SeqParts(w.made[j]) = {}
        BY <3>1 DEF SeqParts
      <4> QED
        BY <3>1, <4>1, <4>2 DEF BindersFrom
    <3>3. DistinctBinders(w, w.made[j])
      BY <3>1 DEF DistinctBinders
    <3> QED
      BY <3>2, <3>3 DEF TaggedWithin
  <2> QED
    BY <2>2, <2>3, <2>4
<1> HIDE DEF rank, P
<1>3. w.asked \subseteq P
  BY <1>1, <1>2, RankInduction
<1> QED
  BY <1>3 DEF P

\* "unique names" (syntax.rs:334): in what uniquify_names makes of a body, whatever the
\* program is, no two lets bind the same name, and none a parameter's, as long as no
\* parameter is called like a bound variable with a tag.
THEOREM NamesAreUnique ==
    ASSUME NEW s, NEW w, NEW u, RenamedBy(w, s, u), NEW i \in BodyNumbers(s)
    PROVE  /\ w[i].binders[BodyOf(u, i)] \cap ParamsOf(s, i) = {}
           /\ \A j \in w[i].asked : DistinctBinders(w[i], w[i].made[j])
<1> DEFINE v == w[i]
           j0 == <<BodyOf(s, i), NoRenaming, v.base>>
           params == ParamsOf(s, i)
<1>1. RenamingKnown(v) /\ UntaggedIn(v, params) /\ j0 \in v.asked /\ BodyOf(u, i) = v.made[j0]
  BY DEF RenamedBy, UntaggedIn
<1> HIDE DEF v, j0, params
<1>2. \A j \in v.asked : TaggedWithin(v, params, j)
  BY <1>1, AllTagged
<1>3. \A z \in v.binders[BodyOf(u, i)] : z \notin params
  BY <1>1, <1>2, TaggedNoParameter DEF TaggedWithin
<1> QED
  BY <1>2, <1>3 DEF TaggedWithin, v, params

-----------------------------------------------------------------------------
(* The surveys of what uniquify_names made, without anything else.           *)

MadeBy(w) == {w.made[k] : k \in w.asked}

OfMade(v, w) ==
    [asked |-> {j \in v.asked : j[1] \in MadeBy(w)}, made |-> v.made, before |-> v.before,
     visited |-> v.visited, found |-> v.found, rank |-> v.rank, binders |-> v.binders]

\* The parts of what was made were made.
LEMMA PartsMade ==
    ASSUME NEW w, RenamingKnown(w), NEW e \in MadeBy(w)
    PROVE  /\ SeqParts(e) \subseteq MadeBy(w)
           /\ e.exp = "Let" => e.bindings = <<Binding(e.bindings[1].var, e.bindings[1].e)>>
<1>1. PICK j \in w.asked : e = w.made[j]
  BY DEF MadeBy
<1>2. CASE j[1].exp = "If"
  <2>1. PICK k1, k2 : IfRenaming(w, j, k1, k2)
    BY DEF IfRenaming
  <2>2. TagsFollow(w, j, k1, k2) /\ IfRenamed(w, j, k1, k2)
    BY <1>2, <2>1, RenamesIf
  <2>3. /\ e.exp = "If" /\ e.thn = w.made[k1] /\ e.els = w.made[k2]
        /\ k1 \in w.asked /\ k2 \in w.asked
    BY <1>1, <2>2 DEF TagsFollow, IfRenamed
  <2> QED
    BY <2>3 DEF SeqParts, MadeBy
<1>3. CASE j[1].exp = "Let"
  <2>1. PICK tag, y, k1, k2 : LetRenaming(w, j, tag, y, k1, k2)
    BY DEF LetRenaming
  <2>2. TagsFollow(w, j, k1, k2) /\ LetRenamed(w, j, y, k1, k2)
    BY <1>3, <2>1, RenamesLet
  <2>3. /\ e.exp = "Let" /\ e.bindings = <<Binding(y, w.made[k1])>> /\ e.body = w.made[k2]
        /\ k1 \in w.asked /\ k2 \in w.asked
    BY <1>1, <2>2 DEF TagsFollow, LetRenamed, LetIn, Let
  <2>4. e.bindings[1].var = y /\ e.bindings[1].e = w.made[k1]
    BY <2>3, OneBinding
  <2> QED
    BY <2>3, <2>4 DEF SeqParts, MadeBy
<1>4. CASE j[1].exp \notin {"If", "Let"}
  <2>1. e.exp \notin {"If", "Let"}
    BY <1>1, <1>4, RenamesOperation
  <2> QED
    BY <2>1 DEF SeqParts
<1> QED
  BY <1>2, <1>3, <1>4

\* Surveys that know the same say the same.
LEMMA SameSurveys ==
    ASSUME NEW v2, NEW v1, v2.made = v1.made, v2.before = v1.before, v2.binders = v1.binders
    PROVE  /\ \A e, params, after : LivenessFrom(v2, e, params, after) = LivenessFrom(v1, e, params, after)
           /\ \A s : ChildAnnFrom(v2, s) = ChildAnnFrom(v1, s)
           /\ \A e : BindersFrom(v2, e) = BindersFrom(v1, e)
           /\ \A e, after : LivenessAsks(v2, e, after) = LivenessAsks(v1, e, after)
<1>1. \A e, params, after : LivenessFrom(v2, e, params, after) = LivenessFrom(v1, e, params, after)
  BY DEF LivenessFrom, LivenessArm
<1>2. \A s : ChildAnnFrom(v2, s) = ChildAnnFrom(v1, s)
  BY DEF ChildAnnFrom, ChildAnnArm
<1>3. \A e : BindersFrom(v2, e) = BindersFrom(v1, e)
  BY DEF BindersFrom
<1>4. \A e, after : LivenessAsks(v2, e, after) = LivenessAsks(v1, e, after)
  BY DEF LivenessAsks
<1> QED
  BY <1>1, <1>2, <1>3, <1>4

\* The expressions that liveness is asked about are parts.
LEMMA AsksParts ==
    ASSUME NEW v, NEW e, NEW after, NEW k \in LivenessAsks(v, e, after)
    PROVE  k[1] \in SeqParts(e)
<1>1. CASE e.exp = "Let"
  BY <1>1 DEF LivenessAsks, SeqParts
<1>2. CASE e.exp # "Let"
  <2>1. PICK x \in SeqParts(e) : k = <<x, after>>
    BY <1>2 DEF LivenessAsks
  <2> QED
    BY <2>1
<1> QED
  BY <1>1, <1>2

\* What is left is a survey.
LEMMA OfMadeSurveyed ==
    ASSUME NEW w, RenamingKnown(w), NEW v, NEW e0 \in MadeBy(w), NEW params, Surveyed(v, e0, params)
    PROVE  /\ Surveyed(OfMade(v, w), e0, params)
           /\ SurveyGraph(OfMade(v, w), e0) = SurveyGraph(v, e0)
           /\ MadeOf(OfMade(v, w), e0) = MadeOf(v, e0)
           /\ \A j \in OfMade(v, w).asked : j[1] \in MadeBy(w)
<1> DEFINE v2 == OfMade(v, w)
<1>1. /\ v2.asked = {j \in v.asked : j[1] \in MadeBy(w)} /\ v2.made = v.made
      /\ v2.before = v.before /\ v2.visited = v.visited /\ v2.found = v.found
      /\ v2.rank = v.rank /\ v2.binders = v.binders
  BY DEF OfMade
<1> HIDE DEF v2
<1>2. /\ \A e, after : LivenessFrom(v2, e, params, after) = LivenessFrom(v, e, params, after)
      /\ \A s : ChildAnnFrom(v2, s) = ChildAnnFrom(v, s)
      /\ \A e : BindersFrom(v2, e) = BindersFrom(v, e)
      /\ \A e, after : LivenessAsks(v2, e, after) = LivenessAsks(v, e, after)
  BY <1>1, SameSurveys
<1>3. <<e0, {}>> \in v2.asked /\ <<v2.made[<<e0, {}>>], {}>> \in v2.visited
  BY <1>1 DEF Surveyed
<1>4. ASSUME NEW j \in v2.asked PROVE LivenessAsks(v2, j[1], j[2]) \subseteq v2.asked
  <2>1. LivenessAsks(v2, j[1], j[2]) \subseteq v.asked
    BY <1>1, <1>2 DEF Surveyed
  <2>2. SeqParts(j[1]) \subseteq MadeBy(w)
    BY <1>1, PartsMade
  <2> QED
    BY <1>1, <2>1, <2>2, AsksParts
<1>5. \A j \in v2.asked :
         /\ Sequential(j[1]) /\ v2.rank[j[1]] \in Nat
         /\ \A x \in SeqParts(j[1]) : v2.rank[x] < v2.rank[j[1]]
         /\ v2.binders[j[1]] = BindersFrom(v2, j[1])
         /\ v2.made[j] = LivenessFrom(v2, j[1], params, j[2])
         /\ v2.before[v2.made[j]] = ChildAnnFrom(v2, v2.made[j])
  BY <1>1, <1>2 DEF Surveyed
<1>6. \A j \in v2.visited :
         v2.found[j] = ConflictsFrom(v2, j[1], j[2]) /\ ConflictsVisits(j[1], j[2]) \subseteq v2.visited
  <2>1. ASSUME NEW s, NEW q PROVE ConflictsFrom(v2, s, q) = ConflictsFrom(v, s, q)
    BY <1>1 DEF ConflictsFrom, ConflictsArm
  <2> QED
    BY <1>1, <2>1 DEF Surveyed
<1>7. Surveyed(v2, e0, params)
  BY <1>3, <1>4, <1>5, <1>6 DEF Surveyed
<1>8. SurveyGraph(v2, e0) = SurveyGraph(v, e0) /\ MadeOf(v2, e0) = MadeOf(v, e0)
  BY <1>1 DEF SurveyGraph, FoundOf, MadeOf
<1> QED
  BY <1>1, <1>7, <1>8 DEF v2

\* The variables that the survey finds bound are those that uniquify_names bound.
LEMMA SameBinders ==
    ASSUME NEW w, RenamingKnown(w), NEW v, NEW e0, NEW params, Surveyed(v, e0, params),
           \A j \in v.asked : j[1] \in MadeBy(w)
    PROVE  \A j \in v.asked : v.binders[j[1]] = w.binders[j[1]]
<1> DEFINE rank == [j \in v.asked |-> v.rank[j[1]]]
           P == {j \in v.asked : v.binders[j[1]] = w.binders[j[1]]}
<1>1. \A j \in v.asked : rank[j] \in Nat
  BY DEF Surveyed
<1>2. ASSUME NEW j \in v.asked, \A k \in v.asked : rank[k] < rank[j] => k \in P
      PROVE  j \in P
  <2> DEFINE e == j[1]
  <2>1. w.binders[e] = BindersFrom(w, e)
    <3>1. PICK k \in w.asked : e = w.made[k]
      BY DEF MadeBy
    <3> HIDE DEF e
    <3> QED
      BY <3>1 DEF RenamingKnown
  <2>2. ASSUME NEW one, NEW other, NEW own, TwoAsked(v, j, one, other, own)
        PROVE  /\ v.binders[e] = own \cup v.binders[one[1]] \cup v.binders[other[1]]
               /\ v.binders[one[1]] = w.binders[one[1]] /\ v.binders[other[1]] = w.binders[other[1]]
    <3>1. /\ one \in v.asked /\ other \in v.asked
          /\ v.rank[one[1]] < v.rank[j[1]] /\ v.rank[other[1]] < v.rank[j[1]]
      BY <2>2 DEF TwoAsked
    <3>2. rank[one] < rank[j] /\ rank[other] < rank[j]
      BY <3>1
    <3>3. one \in P /\ other \in P
      BY <1>2, <3>1, <3>2
    <3> QED
      BY <2>2, <3>3 DEF TwoAsked
  <2> HIDE DEF rank, P, e
  <2> SUFFICES v.binders[e] = w.binders[e]
    BY DEF e, P
  <2>3. CASE e.exp = "If"
    <3>1. PICK k1, k2 : IfParts(j, k1, k2)
      BY DEF IfParts
    <3>2. TwoAsked(v, j, k1, k2, {})
      BY <2>3, <3>1, IfAsked DEF e
    <3>3. k1[1] = e.thn /\ k2[1] = e.els
      BY <3>1 DEF IfParts, e
    <3>4. SeqParts(e) = {e.thn, e.els}
      BY <2>3 DEF SeqParts
    <3>5. w.binders[e] = w.binders[e.thn] \cup w.binders[e.els]
      BY <2>1, <2>3, <3>4 DEF BindersFrom
    <3> QED
      BY <2>2, <3>2, <3>3, <3>5
  <2>4. CASE e.exp = "Let"
    <3>1. PICK x, k1, k2 : LetParts(v, j, x, k1, k2)
      BY DEF LetParts
    <3>2. TwoAsked(v, j, k1, k2, {x})
      BY <2>4, <3>1, LetAsked DEF e
    <3>3. k1[1] = e.body /\ k2[1] = e.bindings[1].e /\ x = e.bindings[1].var
      BY <3>1 DEF LetParts, e
    <3>4. SeqParts(e) = {e.bindings[1].e, e.body}
      BY <2>4 DEF SeqParts
    <3>5. w.binders[e] = {x} \cup w.binders[e.bindings[1].e] \cup w.binders[e.body]
      BY <2>1, <2>4, <3>3, <3>4 DEF BindersFrom
    <3> QED
      BY <2>2, <3>2, <3>3, <3>5
  <2>5. CASE e.exp # "If" /\ e.exp # "Let"
    <3>1. v.binders[e] = {}
      BY <2>5, OperationAsked DEF e
    <3>2. SeqParts(e) = {}
      BY <2>5 DEF SeqParts
    <3> QED
      BY <2>1, <2>5, <3>1, <3>2 DEF BindersFrom
  <2> QED
    BY <2>3, <2>4, <2>5
<1> HIDE DEF rank, P
<1>3. v.asked \subseteq P
  BY <1>1, <1>2, RankInduction
<1> QED
  BY <1>3 DEF P

\* No let in it hides what is in scope.
LEMMA MadeUnshadowed ==
    ASSUME NEW w, RenamingKnown(w), NEW v, NEW e0, NEW params, Surveyed(v, e0, params),
           \A j \in v.asked : j[1] \in MadeBy(w),
           w.binders[e0] \cap params = {}, \A j \in w.asked : DistinctBinders(w, w.made[j])
    PROVE  Unshadowed(v, e0, params)
<1>1. \A j \in v.asked : v.binders[j[1]] = w.binders[j[1]]
  BY SameBinders
<1>2. v.binders[e0] \cap params = {}
  <2> DEFINE j == <<e0, {}>>
  <2>1. j \in v.asked /\ j[1] = e0
    BY DEF Surveyed
  <2> HIDE DEF j
  <2> QED
    BY <1>1, <2>1
<1>3. ASSUME NEW j \in v.asked, j[1].exp = "Let"
      PROVE  j[1].bindings[1].var \notin v.binders[j[1].body]
  <2>1. PICK x, k1, k2 : LetParts(v, j, x, k1, k2)
    BY DEF LetParts
  <2>2. TwoAsked(v, j, k1, k2, {x})
    BY <1>3, <2>1, LetAsked
  <2>3. k1[1] = j[1].body /\ k1 \in v.asked
    BY <2>1, <2>2 DEF LetParts, TwoAsked
  <2>4. DistinctBinders(w, j[1])
    BY DEF MadeBy
  <2>5. j[1].bindings[1].var \notin w.binders[j[1].body]
    BY <1>3, <2>4 DEF DistinctBinders
  <2> QED
    BY <1>1, <2>3, <2>5
<1> QED
  BY <1>2, <1>3 DEF Unshadowed

-----------------------------------------------------------------------------
(* liveness_p only adds annotations.                                        *)

\* The parameters and the variables of all lets
Variables(v, params) == params \cup {j[1].bindings[1].var : j \in {k \in v.asked : k[1].exp = "Let"}}

\* What becomes of an expression is that expression
AnnotatedIn(v, params) == {<<v.made[j], j[1], NoRenaming, Variables(v, params)>> : j \in v.asked}

AnnotatedAll(v, w, p) ==
    UNION {AnnotatedIn(OfMade(v[i], w[i]), ParamsOf(p, i)) : i \in BodyNumbers(p)}

\* Without a renaming every name is itself.
LEMMA NameItself ==
    ASSUME NEW z
    PROVE  NameIn(NoRenaming, z) = z
<1>1. DOMAIN NoRenaming = {}
  BY DEF NoRenaming
<1> QED
  BY <1>1 DEF NameIn

\* And every immediate expression.
LEMMA LikeItself ==
    ASSUME NEW e, Immediate(e)
    PROVE  LikeImm(e, e, NoRenaming)
BY NameItself, ImmediateKinds DEF LikeImm

\* Members of the relation.
LEMMA AnnotatedMember ==
    ASSUME NEW v, NEW params, NEW j \in v.asked, NEW e, j[1] = e
    PROVE  <<v.made[j], e, NoRenaming, Variables(v, params)>> \in AnnotatedIn(v, params)
BY DEF AnnotatedIn

\* An operation, annotated.
LEMMA AnnotatedOperationLike ==
    ASSUME NEW v, NEW e0, NEW params, Surveyed(v, e0, params), NEW j \in v.asked,
           j[1].exp # "Let", j[1].exp # "If", NEW M, NEW S
    PROVE  LikeAt(M, v.made[j], j[1], NoRenaming, S)
<1> DEFINE e == j[1]
           s == v.made[j]
           live == OperationLive(e, params, j[2])
<1>1. s = LivenessFrom(v, e, params, j[2]) /\ Sequential(e)
  BY DEF Surveyed
<1>2. s = Annotated(e, live)
  BY <1>1 DEF LivenessFrom, LivenessArm
<1> HIDE DEF s, live
<1>3. CASE e.exp = "Num" /\ e = Num(e.n)
  <2>1. s.exp = "Num" /\ s.n = e.n
    BY <1>2, <1>3, AnnotatedKinds
  <2> QED
    BY <1>3, <2>1 DEF LikeAt, LikeImm, s
<1>4. CASE e.exp = "Bool" /\ e = Bool(e.b)
  <2>1. s.exp = "Bool" /\ s.b = e.b
    BY <1>2, <1>4, AnnotatedKinds
  <2> QED
    BY <1>4, <2>1 DEF LikeAt, LikeImm, s
<1>5. CASE e.exp = "Var" /\ e = Var(e.x)
  <2>1. s.exp = "Var" /\ s.x = e.x
    BY <1>2, <1>5, AnnotatedKinds
  <2> QED
    BY <1>5, <2>1, NameItself DEF LikeAt, LikeImm, s
<1>6. CASE e.exp = "Prim1" /\ e = Prim1(e.op, e.e) /\ Immediate(e.e)
  <2>1. s.exp = "Prim1" /\ s.op = e.op /\ s.e = e.e
    BY <1>2, <1>6, AnnotatedKinds
  <2>2. LikeImm(s.e, e.e, NoRenaming)
    BY <1>6, <2>1, LikeItself
  <2> QED
    BY <1>6, <2>1, <2>2 DEF LikeAt, s
<1>7. CASE e.exp = "Prim2" /\ e = Prim2(e.op, e.e1, e.e2) /\ Immediate(e.e1) /\ Immediate(e.e2)
  <2>1. s.exp = "Prim2" /\ s.op = e.op /\ s.e1 = e.e1 /\ s.e2 = e.e2
    BY <1>2, <1>7, AnnotatedKinds
  <2>2. LikeImm(s.e1, e.e1, NoRenaming) /\ LikeImm(s.e2, e.e2, NoRenaming)
    BY <1>7, <2>1, LikeItself
  <2> QED
    BY <1>7, <2>1, <2>2 DEF LikeAt, s
<1>8. CASE e.exp = "Call" /\ e = Call(e.f, e.args) /\ \A i \in DOMAIN e.args : Immediate(e.args[i])
  <2>1. s.exp = "Call" /\ s.f = e.f /\ s.args = e.args
    BY <1>2, <1>8, AnnotatedKinds
  <2>2. LikeArgs(s.args, e.args, NoRenaming)
    BY <1>8, <2>1, LikeItself DEF LikeArgs
  <2> QED
    BY <1>8, <2>1, <2>2 DEF LikeAt, s
<1> QED
  BY <1>1, <1>3, <1>4, <1>5, <1>6, <1>7, <1>8 DEF Sequential

\* An if.
LEMMA AnnotatedIfLike ==
    ASSUME NEW v, NEW e0, NEW params, Surveyed(v, e0, params), NEW j \in v.asked, j[1].exp = "If",
           NEW M, AnnotatedIn(v, params) \subseteq M
    PROVE  LikeAt(M, v.made[j], j[1], NoRenaming, Variables(v, params))
<1> DEFINE e == j[1]
           s == v.made[j]
           S == Variables(v, params)
           live == IfLive(e.cond, v.before[v.made[<<e.thn, j[2]>>]],
                          v.before[v.made[<<e.els, j[2]>>]], params)
<1>1. PICK k1, k2 : IfParts(j, k1, k2)
  BY DEF IfParts
<1>2. TwoAsked(v, j, k1, k2, {}) /\ IfMade(v, s, k1, k2, params)
  BY <1>1, IfAsked
<1>3. s = LivenessFrom(v, e, params, j[2])
  BY DEF Surveyed
<1>4. s = Annotated(If(e.cond, v.made[<<e.thn, j[2]>>], v.made[<<e.els, j[2]>>]), live)
  BY <1>3 DEF LivenessFrom, LivenessArm
<1> HIDE DEF s, live
<1>5. s.cond = e.cond
  BY <1>4, AnnotatedKinds
<1>6. k1 \in v.asked /\ k2 \in v.asked /\ k1[1] = e.thn /\ k2[1] = e.els
  BY <1>1, <1>2 DEF IfParts, TwoAsked
<1>7. /\ s.exp = "If" /\ Immediate(s.cond) /\ s.thn = v.made[k1] /\ s.els = v.made[k2]
  BY <1>2 DEF IfMade
<1>8. <<v.made[k1], e.thn, NoRenaming, S>> \in M /\ <<v.made[k2], e.els, NoRenaming, S>> \in M
  BY <1>6, AnnotatedMember
<1>9. LikeImm(s.cond, e.cond, NoRenaming)
  BY <1>5, <1>7, LikeItself
<1>10. LikeAt(M, s, e, NoRenaming, S)
  BY <1>7, <1>8, <1>9 DEF LikeAt
<1> QED
  BY <1>10 DEF s

\* A let.
LEMMA AnnotatedLetLike ==
    ASSUME NEW v, NEW e0, NEW params, Surveyed(v, e0, params), NEW j \in v.asked, j[1].exp = "Let",
           j[1].bindings = <<Binding(j[1].bindings[1].var, j[1].bindings[1].e)>>,
           NEW M, AnnotatedIn(v, params) \subseteq M
    PROVE  LikeAt(M, v.made[j], j[1], NoRenaming, Variables(v, params))
<1> DEFINE e == j[1]
           s == v.made[j]
           S == Variables(v, params)
           bound == e.bindings[1].e
           live(k) == v.before[v.made[k]]
<1>1. PICK x, k1, k2 : LetParts(v, j, x, k1, k2)
  BY DEF LetParts
<1>2. TwoAsked(v, j, k1, k2, {x}) /\ LetMade(v, s, x, k1, k2)
  BY <1>1, LetAsked
<1>3. /\ k1 \in v.asked /\ k2 \in v.asked /\ k1[1] = e.body /\ k2[1] = bound
      /\ x = e.bindings[1].var /\ e.bindings = <<Binding(x, bound)>>
  BY <1>1, <1>2 DEF LetParts, TwoAsked
<1>4. s.exp = "Let" /\ s.bindings = <<Binding(x, v.made[k2])>> /\ s.body = v.made[k1]
  <2>1. s = LivenessFrom(v, e, params, j[2])
    BY DEF Surveyed
  <2>2. PICK b, a : s = Annotated(LetIn(x, b, v.made[k1]), a)
    <3>1. k1 = <<e.body, j[2]>>
      BY <1>1 DEF LetParts
    <3> QED
      BY <1>3, <2>1, <3>1 DEF LivenessFrom, LivenessArm
  <2>3. s.exp = "Let" /\ s.bindings = <<Binding(x, b)>> /\ s.body = v.made[k1]
    BY <2>2, AnnotatedKinds
  <2>4. b = v.made[k2]
    BY <1>2, <2>3, OneBinding DEF LetMade
  <2> QED
    BY <2>3, <2>4
<1>5. x \in S
  BY <1>3 DEF Variables
<1>6. Renames(NoRenaming, S, x, x, NoRenaming, S)
  BY <1>5, NameItself DEF Renames
<1>7. <<v.made[k2], bound, NoRenaming, S>> \in M /\ <<v.made[k1], e.body, NoRenaming, S>> \in M
  BY <1>3, AnnotatedMember
<1> HIDE DEF s, S, bound
<1>8. LikeLet(M, s, e, NoRenaming, S)
  BY <1>3, <1>4, <1>6, <1>7 DEF LikeLet
<1>9. LikeAt(M, s, e, NoRenaming, S)
  BY <1>4, <1>8 DEF LikeAt
<1> QED
  BY <1>9 DEF s, S

\* Programs with the same declarations have the same bodies, by number.
LEMMA SameBodyNumbers ==
    ASSUME NEW p2 \in Programs, NEW p1 \in Programs, SameDecls(p2, p1)
    PROVE  /\ BodyNumbers(p2) = BodyNumbers(p1)
           /\ \A i : ParamsOf(p2, i) = ParamsOf(p1, i)
<1>1. /\ DOMAIN p2.funs = 1 .. Len(p2.funs) /\ Len(p2.funs) \in Nat
      /\ DOMAIN p1.funs = 1 .. Len(p1.funs) /\ Len(p1.funs) \in Nat
  BY ProgramsAssumption, IsSeqDomain
<1>2. DOMAIN p2.funs = DOMAIN p1.funs /\ \A i \in DOMAIN p2.funs : p2.funs[i].params = p1.funs[i].params
  BY DEF SameDecls
<1>3. Len(p2.funs) = Len(p1.funs)
  BY <1>1, <1>2, SameUpTo
<1>4. ASSUME NEW i PROVE ParamsOf(p2, i) = ParamsOf(p1, i)
  BY <1>2 DEF ParamsOf, ParamSet
<1> QED
  BY <1>3, <1>4 DEF BodyNumbers

\* What is known of the surveys, when they are restricted to what was made.
LEMMA MadeSurveys ==
    ASSUME NEW s \in Programs, NEW u \in Programs, NEW p \in Programs,
           NEW w, RenamedBy(w, s, u), NEW v, AnnotatedBy(v, u, p), SameDecls(p, u),
           NEW i \in BodyNumbers(p)
    PROVE  /\ i \in BodyNumbers(s) /\ i \in BodyNumbers(u)
           /\ RenamingKnown(w[i]) /\ BodyOf(u, i) \in MadeBy(w[i])
           /\ Surveyed(OfMade(v[i], w[i]), BodyOf(u, i), ParamsOf(p, i))
           /\ \A j \in OfMade(v[i], w[i]).asked : j[1] \in MadeBy(w[i])
           /\ SurveyGraph(OfMade(v[i], w[i]), BodyOf(u, i)) = SurveyGraph(v[i], BodyOf(u, i))
           /\ BodyOf(p, i) = MadeOf(OfMade(v[i], w[i]), BodyOf(u, i))
           /\ Unshadowed(OfMade(v[i], w[i]), BodyOf(u, i), ParamsOf(p, i))
<1>1. /\ BodyNumbers(p) = BodyNumbers(u) /\ BodyNumbers(u) = BodyNumbers(s)
      /\ ParamsOf(p, i) = ParamsOf(s, i)
  BY SameBodyNumbers DEF RenamedBy
<1> DEFINE v2 == OfMade(v[i], w[i])
           e0 == BodyOf(u, i)
           j0 == <<BodyOf(s, i), NoRenaming, w[i].base>>
<1>2. RenamingKnown(w[i]) /\ j0 \in w[i].asked /\ e0 = w[i].made[j0]
  BY <1>1 DEF RenamedBy
<1> HIDE DEF j0
<1>3. e0 \in MadeBy(w[i])
  BY <1>2 DEF MadeBy
<1>4. Surveyed(v[i], e0, ParamsOf(p, i)) /\ BodyOf(p, i) = MadeOf(v[i], e0)
  BY DEF AnnotatedBy
<1>5. /\ Surveyed(v2, e0, ParamsOf(p, i)) /\ SurveyGraph(v2, e0) = SurveyGraph(v[i], e0)
      /\ MadeOf(v2, e0) = MadeOf(v[i], e0) /\ \A j \in v2.asked : j[1] \in MadeBy(w[i])
  BY <1>2, <1>3, <1>4, OfMadeSurveyed
<1>6. /\ w[i].binders[e0] \cap ParamsOf(p, i) = {}
      /\ \A j \in w[i].asked : DistinctBinders(w[i], w[i].made[j])
  BY <1>1, NamesAreUnique
<1> HIDE DEF v2, e0
<1>7. Unshadowed(v2, e0, ParamsOf(p, i))
  BY <1>2, <1>5, <1>6, MadeUnshadowed
<1> QED
  BY <1>1, <1>2, <1>3, <1>4, <1>5, <1>7 DEF v2, e0

\* liveness_p makes a program that is alike.
LEMMA AnnotatedAlike ==
    ASSUME NEW s \in Programs, NEW u \in Programs, NEW p \in Programs,
           NEW w, RenamedBy(w, s, u), NEW v, AnnotatedBy(v, u, p), SameDecls(p, u)
    PROVE  LikePrograms(AnnotatedAll(v, w, p), p, u)
<1> DEFINE M == AnnotatedAll(v, w, p)
<1>1. ASSUME NEW e2, NEW e1, NEW ren, NEW S, <<e2, e1, ren, S>> \in M
      PROVE  LikeAt(M, e2, e1, ren, S)
  <2>1. PICK i \in BodyNumbers(p) :
               <<e2, e1, ren, S>> \in AnnotatedIn(OfMade(v[i], w[i]), ParamsOf(p, i))
    BY <1>1 DEF AnnotatedAll
  <2>2. PICK v2, params : v2 = OfMade(v[i], w[i]) /\ params = ParamsOf(p, i)
    OBVIOUS
  <2>3. PICK j \in v2.asked :
               <<e2, e1, ren, S>> = <<v2.made[j], j[1], NoRenaming, Variables(v2, params)>>
    BY <2>1, <2>2 DEF AnnotatedIn
  <2>4. e2 = v2.made[j] /\ e1 = j[1] /\ ren = NoRenaming /\ S = Variables(v2, params)
    BY <2>3
  <2>5. RenamingKnown(w[i]) /\ Surveyed(v2, BodyOf(u, i), params) /\ j[1] \in MadeBy(w[i])
    BY <2>2, MadeSurveys
  <2>6. AnnotatedIn(v2, params) \subseteq M
    BY <2>2 DEF AnnotatedAll
  <2> HIDE DEF M
  <2>7. CASE j[1].exp = "If"
    BY <2>4, <2>5, <2>6, <2>7, AnnotatedIfLike
  <2>8. CASE j[1].exp = "Let"
    BY <2>4, <2>5, <2>6, <2>8, PartsMade, AnnotatedLetLike
  <2>9. CASE j[1].exp # "If" /\ j[1].exp # "Let"
    BY <2>4, <2>5, <2>9, AnnotatedOperationLike
  <2> QED
    BY <2>7, <2>8, <2>9
<1>2. ASSUME NEW i \in BodyNumbers(u)
      PROVE  \E ren, S : /\ <<BodyOf(p, i), BodyOf(u, i), ren, S>> \in M
                         /\ ParamsOf(u, i) \subseteq S /\ \A z \in S : NameIn(ren, z) = z
  <2>1. i \in BodyNumbers(p) /\ ParamsOf(p, i) = ParamsOf(u, i)
    BY SameBodyNumbers
  <2>2. PICK v2, params, e0 : v2 = OfMade(v[i], w[i]) /\ params = ParamsOf(p, i) /\ e0 = BodyOf(u, i)
    OBVIOUS
  <2>3. Surveyed(v2, e0, params) /\ BodyOf(p, i) = MadeOf(v2, e0)
    BY <2>1, <2>2, MadeSurveys
  <2> DEFINE j == <<e0, {}>>
  <2>4. j \in v2.asked /\ j[1] = e0 /\ BodyOf(p, i) = v2.made[j]
    BY <2>3 DEF Surveyed, MadeOf
  <2> HIDE DEF j
  <2>5. <<BodyOf(p, i), e0, NoRenaming, Variables(v2, params)>> \in M
    BY <2>1, <2>2, <2>4, AnnotatedMember DEF AnnotatedAll
  <2>6. params \subseteq Variables(v2, params)
    BY DEF Variables
  <2> HIDE DEF M
  <2> QED
    BY <2>1, <2>2, <2>5, <2>6, NameItself
<1> HIDE DEF M
<1>3. LikePrograms(M, p, u)
  BY <1>1, <1>2 DEF LikePrograms, LikeBodies
<1> QED
  BY <1>3 DEF M

\* uniquify_names and liveness_p keep what a program means (syntax.rs:385-447,
\* compile.rs:715-906): what they make of a program evaluates to nothing else.
THEOREM RenamingIsSound ==
    ASSUME NEW s \in Programs, NEW u \in Programs, NEW p \in Programs,
           NEW w, RenamedBy(w, s, u), NEW v, AnnotatedBy(v, u, p), SameDecls(p, u),
           NEW r, NEW o, Evaluates(p, r, o)
    PROVE  Evaluates(u, r, o) /\ Evaluates(s, r, o)
<1>1. Evaluates(u, r, o)
  BY AnnotatedAlike, LikeProgramsEvaluate
<1>2. Evaluates(s, r, o)
  BY <1>1, UniquifiedAlike, LikeProgramsEvaluate
<1> QED
  BY <1>1, <1>2

\* After them, no let hides what is in scope, which is all that sharing places asks
\* for: the variables may live in any places that allocate_registers may answer with
\* (compile.rs:1178-1224).
THEOREM SharingIsSound ==
    ASSUME NEW s \in Programs, NEW u \in Programs, NEW p \in Programs,
           NEW w, RenamedBy(w, s, u), NEW v, AnnotatedBy(v, u, p), SameDecls(p, u),
           NEW lcls,
           \A i \in BodyNumbers(p) : Allocation(lcls[i], SurveyGraph(v[i], BodyOf(u, i)))
    PROVE  PlacedSoundly(p, lcls)
<1> DEFINE v2 == [i \in BodyNumbers(p) |-> OfMade(v[i], w[i])]
<1>1. \A i \in BodyNumbers(p) : v2[i] = OfMade(v[i], w[i])
  OBVIOUS
<1> HIDE DEF v2
<1>2. ASSUME NEW i \in BodyNumbers(p)
      PROVE  /\ Surveyed(v2[i], BodyOf(u, i), ParamsOf(p, i))
             /\ BodyOf(p, i) = MadeOf(v2[i], BodyOf(u, i))
             /\ Unshadowed(v2[i], BodyOf(u, i), ParamsOf(p, i))
             /\ Allocation(lcls[i], SurveyGraph(v2[i], BodyOf(u, i)))
  BY <1>1, MadeSurveys
<1>3. AnnotatedBy(v2, u, p) /\ NothingShadowed(v2, u, p)
  BY <1>2 DEF AnnotatedBy, NothingShadowed
<1> QED
  BY <1>2, <1>3, AllocationIsSound

-----------------------------------------------------------------------------
(* Together.                                                                *)

\* Everything from the program that check_prog accepts to the places of its variables
\* (seq_prog, uniquify_names and liveness_p as compile_to_string calls them, conflicts
\* and allocate_registers as compile_main and compile_fun do: compile.rs:1656-1657, 1110,
\* 1131) keeps its meaning: run on those places, a program prints nothing but what an
\* evaluation of it prints, and comes to nothing else.
THEOREM CompilationIsSound ==
    ASSUME NEW q \in Programs, NEW s \in Programs, NEW u \in Programs, NEW p \in Programs,
           NEW l, LoweredBy(l, q, s), NEW w, RenamedBy(w, s, u),
           NEW v, AnnotatedBy(v, u, p), SameDecls(p, u),
           NEW lcls,
           \A i \in BodyNumbers(p) : Allocation(lcls[i], SurveyGraph(v[i], BodyOf(u, i))),
           NEW r, NEW o, PlacedEvaluates(p, lcls, r, o)
    PROVE  Evaluates(q, r, o)
<1>1. Evaluates(p, r, o)
  BY SharingIsSound DEF PlacedSoundly
<1>2. Evaluates(s, r, o)
  BY <1>1, RenamingIsSound
<1> QED
  BY <1>2, SequentializingIsSound
=============================================================================
