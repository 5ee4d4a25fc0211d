------------------------------ MODULE MCCompiler ------------------------------
(* The compiler on programs where names shadow each other, copies are made,   *)
(* operands print, and more variables are live than there are registers; and  *)
(* on programs that are mostly wrong: names unbound, bound twice, hidden or   *)
(* confused with functions, literals at the edge of 63 bits.                  *)
EXTENDS Compiler, Samples

TwoRegisters == {1, 2}

Plus(a, b) == Prim2("Add", a, b)
Minus(a, b) == Prim2("Sub", a, b)
Printed(e) == Prim1("Print", e)
Let1(x, e, body) == Let(<<Binding(x, e)>>, body)

\* def f(x): if x < 1: print(x) else: x + f(x - 1)
SumTo ==
    FunDecl(F, <<X>>, If(Prim2("Lt", Var(X), Num(1)), Printed(Var(X)),
                         Plus(Var(X), Call(F, <<Minus(Var(X), Num(1))>>))))

\* def g(x, y): let x = y - x in x - y          a parameter is hidden
Hides == FunDecl(G, <<X, Y>>, Let1(X, Minus(Var(Y), Var(X)), Minus(Var(X), Var(Y))))

Atoms == {Num(2), Var(X)}

Inner ==
    Shapes(Atoms, Atoms, {"Add1"}, {"Sub"}, {})
    \cup {Let1(x, a, Minus(Var(X), Var(x))) : x \in {X, Y}, a \in Atoms}
    \cup {Printed(Var(X)), Call(G, <<Var(X), Num(1)>>)}

\* Around an expression in which x is bound
Around(e) ==
    {Let1(X, Num(1), e),
     Let1(X, Printed(Num(1)), Minus(e, Var(X))),
     Let(<<Binding(X, Num(1)), Binding(Y, Var(X))>>, Let1(X, e, Minus(Var(Y), Var(X)))),
     Let(<<Binding(X, Num(1)), Binding(Y, e)>>, Plus(Var(X), Var(Y)))}

\* Copies of copies, made and dropped on different branches
Copies ==
    {Let(<<Binding(X, a), Binding(Y, Var(X)), Binding(<<"z">>, Var(Y))>>, e) :
        a \in {Num(2), Bool(TRUE)},
        e \in {Minus(Var(<<"z">>), Var(X)),
               Let1(X, Minus(Var(<<"z">>), Num(1)), Minus(Var(Y), Var(X))),
               If(Prim1("IsNum", Var(X)), Let1(X, Num(1), Minus(Var(X), Var(<<"z">>))), Var(Y))}}

Effects ==
    {Minus(Printed(Num(1)), Printed(Num(2))),
     Minus(Num(3), Printed(Minus(Num(2), Printed(Num(1))))),
     Call(G, <<Printed(Num(1)), Num(3)>>),
     Call(G, <<Printed(Num(1)), Call(G, <<Printed(Num(2)), Num(1)>>)>>),
     If(Prim1("Not", Bool(TRUE)), Printed(Num(1)), Printed(Num(2))),
     If(Printed(Num(1)), Printed(Num(2)), Printed(Num(3))),
     Plus(Call(F, <<Num(2)>>), Printed(Num(1))),
     Call(F, <<Plus(Num(2), Num(2))>>),
     Plus(Printed(Bool(TRUE)), Printed(Num(1))),
     Prim1("PrintStack", Num(1)),
     Var(X)}

-----------------------------------------------------------------------------

Suspects == {Num(MaxInt + 1), Num(MinInt), Bool(TRUE), Var(X), Var(F)}
Few == {Num(MinInt), Var(X), Var(Y)}
Within == Few \cup Shapes(Few, Few, {"Not"}, {"Add"}, {F, X})

\* One level over all suspects, and lets and calls around a construct
Wrong ==
    Shapes(Suspects, Suspects, {"Add1"}, {"Eq"}, {F, X})
    \cup {Let1(F, a, e) : a \in Few, e \in Within}
    \cup {Let(<<Binding(X, a), Binding(Y, e)>>, Var(Y)) : a \in Few, e \in Within}

Decls ==
    {FunDecl(f, ps, b) : f \in {F, G}, ps \in {<<>>, <<X>>, <<X, X>>, <<X, F>>},
                         b \in {Var(X), Call(F, <<Num(1)>>), Call(G, <<>>)}}

-----------------------------------------------------------------------------

MCPrograms ==
    {Prog(<<Hides>>, m) : m \in UNION {Around(e) : e \in Inner} \cup Copies}
    \cup {Prog(<<SumTo, Hides>>, m) : m \in Effects}
    \cup {Prog(<<FunDecl(F, <<X>>, Var(X))>>, m) : m \in Wrong}
    \cup {Prog(<<d1, d2>>, m) : d1 \in Decls, d2 \in Decls, m \in {Num(1), Call(F, <<Num(1)>>)}}

-----------------------------------------------------------------------------
(* The hypotheses of CheckProgAcceptsWellFormed, with CheckExp, Occurrences   *)
(* and WellFormedParts as what is known.                                      *)

RECURSIVE AllParts(_), AllQuestions(_)

AllParts(e) == {e} \cup UNION {AllParts(x) : x \in PartsOf(e)}

AllQuestions(j) ==
    {j} \cup UNION {AllQuestions(<<q[1], j[2], q[2], j[4]>>) : q \in Questions(j[1], j[3])}

\* They hold of every program here.
ASSUME ProgramsExamined ==
    \A p \in MCPrograms :
       LET T == UNION {AllParts(e) : e \in {p.main} \cup {p.funs[i].body : i \in DOMAIN p.funs}}
           J == AllQuestions(<<p.main, {}, {}, EnvFun(p)>>)
                \cup UNION {AllQuestions(<<p.funs[i].body, ParamSet(p.funs[i]), {}, EnvFun(p)>>) :
                              i \in DOMAIN p.funs}
       IN  Examined(p, T, [e \in T |-> Occurrences(e)], [e \in T |-> WellFormedParts(e)],
                    [e \in T |-> Cardinality(AllParts(e))],
                    J, [j \in J |-> CheckExp(j[1], j[2], j[3], j[4])])

-----------------------------------------------------------------------------
(* The hypotheses of AnalysesAreSound, with Liveness, GetChildAnn and         *)
(* ConflictsHelper as what is known.                                          *)

RECURSIVE AllAsked(_, _, _), AllVisited(_, _)

\* As much of a survey as LivenessAsks needs
PartsSurvey(e, params, out) ==
    LET J == {<<x, out>> : x \in SeqParts(e)}
        made == [j \in J |-> Liveness(j[1], params, j[2])]
    IN  [made |-> made, before |-> [s \in {made[j] : j \in J} |-> GetChildAnn(s)]]

AllAsked(e, params, out) ==
    {<<e, out>>} \cup UNION {AllAsked(j[1], params, j[2]) :
                               j \in LivenessAsks(PartsSurvey(e, params, out), e, out)}

AllVisited(s, equivs) ==
    {<<s, equivs>>} \cup UNION {AllVisited(j[1], j[2]) : j \in ConflictsVisits(s, equivs)}

SurveyOf(e, params) ==
    LET J == AllAsked(e, params, {})
        V == AllVisited(Liveness(e, params, {}), {})
        T == {j[1] : j \in J}
        made == [j \in J |-> Liveness(j[1], params, j[2])]
    IN  [asked |-> J, made |-> made,
         before |-> [s \in {made[j] : j \in J} |-> GetChildAnn(s)],
         visited |-> V, found |-> [j \in V |-> ConflictsHelper(j[1], j[2])],
         rank |-> [x \in T |-> SeqSize(x)], binders |-> [x \in T |-> BoundIn(x)]]

\* They hold of every program here that is accepted; NothingShadowed follows from
\* RenamedBy below, as SharingIsSound shows.
ASSUME ProgramsSurveyed ==
    \A p \in MCPrograms : CheckProg(p) = Ok =>
       LET u == UniquifyNames(SeqProg(p))
       IN  AnnotatedBy([i \in BodyNumbers(u) |-> SurveyOf(BodyOf(u, i), ParamsOf(u, i))],
                       u, LivenessP(u))

-----------------------------------------------------------------------------
(* The hypotheses of CompilationIsSound, with Sequentialize and UniquifyExp   *)
(* as what is known.                                                          *)

RECURSIVE AllLowered(_, _), AllRenamed(_, _, _), AllSeqParts(_)

PlacedChild(j, k) == <<Children(j[1])[k], BaseOf(Children(j[1]), j[2], k)>>

AllLowered(e, base) ==
    {<<e, base>>} \cup UNION {AllLowered(PlacedChild(<<e, base>>, k)[1], PlacedChild(<<e, base>>, k)[2]) :
                                k \in DOMAIN Children(e)}

\* The bodies with their first tags
PlacedBodies(p, TreeSize(_)) ==
    LET base[i \in BodyNumbers(p)] ==
            IF i = 1 THEN 0 ELSE base[i - 1] + TreeSize(BodyOf(p, i - 1)) + 1
    IN  [i \in BodyNumbers(p) |-> <<BodyOf(p, i), base[i]>>]

LoweringOf(p) ==
    LET bodies == PlacedBodies(p, Size)
        J == UNION {AllLowered(bodies[i][1], bodies[i][2]) : i \in DOMAIN bodies}
    IN  [asked |-> J, bodies |-> bodies,
         tag |-> [j \in J |-> j[2] + Size(j[1]) - 1],
         made |-> [j \in J |-> Sequentialize(j[1], j[2])],
         parts |-> [j \in J |-> [k \in DOMAIN Children(j[1]) |-> PlacedChild(j, k)]],
         rest |-> [l \in UNION {{j} \X (1 .. Steps(j[1]) + 1) : j \in {x \in J : ~Immediate(x[1])}} |->
                      SequentialFrom(l[1][1], l[1][2], l[2])]]

AllSeqParts(e) == {e} \cup UNION {AllSeqParts(x) : x \in SeqParts(e)}

AllRenamed(e, env, base) ==
    {<<e, env, base>>} \cup UNION {AllRenamed(j[1], j[2], j[3]) :
                                     j \in RenamingAsks([size |-> [x \in AllSeqParts(e) |-> SeqSize(x)]], e, env, base)}

RenamingOf(e, base) ==
    LET J == AllRenamed(e, NoRenaming, base)
        made == [j \in J |-> UniquifyExp(j[1], j[2], j[3])]
    IN  [asked |-> J, base |-> base, made |-> made,
         size |-> [x \in {j[1] : j \in J} |-> SeqSize(x)],
         binders |-> [x \in {made[j] : j \in J} |-> BoundIn(x)]]

RenamingsOf(s) ==
    [i \in BodyNumbers(s) |-> LET b == PlacedBodies(s, SeqSize)[i] IN RenamingOf(b[1], b[2])]

\* They hold of every program here that is accepted, and check_prog accepts what the
\* passes make of it.
ASSUME ProgramsLowered ==
    \A p \in MCPrograms : CheckProg(p) = Ok =>
       LET s == SeqProg(p)
           u == UniquifyNames(s)
           a == LivenessP(u)
       IN  /\ LoweredBy(LoweringOf(p), p, s)
           /\ RenamedBy(RenamingsOf(s), s, u)
           /\ SameDecls(a, u)
           /\ CheckProg(s) = Ok /\ CheckProg(u) = Ok /\ CheckProg(a) = Ok

-----------------------------------------------------------------------------

\* def f(x_2): let x = 1 in x + x_2
\* f(3)
Colliding ==
    {Prog(<<FunDecl(F, <<<<"x", 2>>>>, Let1(X, Num(n), Plus(Var(X), Var(<<"x", 2>>))))>>,
          Call(F, <<Num(3)>>)) : n \in {-2, -1, 0, 1}}
=============================================================================
