------------------------------- MODULE Analysis -------------------------------
(***************************************************************************)
(* What liveness and conflicts do at one node of a sequential program      *)
(* (src/src/compile.rs:715-989), where the variables of a function are     *)
(* kept, and when what was found out about a whole program is enough to    *)
(* share places.  Lowering goes down the tree with these definitions, or   *)
(* whoever knows the answers on the parts passes them as Sub.              *)
(***************************************************************************)
EXTENDS Snake, Places

\* SeqExp::Let
LetIn(x, e, body) == Let(<<Binding(x, e)>>, body)

\* The body and the parameters of the i-th function; main is the last
BodyNumbers(p) == 1 .. (Len(p.funs) + 1)
BodyOf(p, i) == IF i \in DOMAIN p.funs THEN p.funs[i].body ELSE p.main
ParamsOf(p, i) == IF i \in DOMAIN p.funs THEN ParamSet(p.funs[i]) ELSE {}

\* The variables among some immediate expressions
VarsIn(imms) == {imms[i].x : i \in {j \in DOMAIN imms : imms[j].exp = "Var"}}

ImmVars(e) == IF Immediate(e) THEN VarsIn(<<e>>) ELSE VarsIn(Children(e))

-----------------------------------------------------------------------------
(* liveness: every node gets the variables live before it, a let those live *)
(* before its body and its own.                                             *)

Annotated(e, s) == [field \in DOMAIN e \cup {"ann"} |-> IF field = "ann" THEN s ELSE e[field]]

OperationLive(e, params, out) == (out \cup ImmVars(e)) \ params

\* Bug: what only the other branch reads is forgotten
IfLiveThenOnly(cond, thn, els, params) == (thn \cup VarsIn(<<cond>>)) \ params

IfLive(cond, thn, els, params) == (thn \cup els \cup VarsIn(<<cond>>)) \ params

\* Bug: nothing is live after the bound expression
AfterBoundForgetting(x, live) == {}

\* What is live after the bound expression of x, when live is the annotation of its let
AfterBound(x, live) == live \ {x}

\* get_child_ann: what is live before an annotated expression
ChildAnnArm(Sub(_), s) == IF s.exp = "Let" THEN Sub(s.bindings[1].e) ELSE s.ann

\* Sub(x, after) annotates the part x; Before is get_child_ann
LivenessArm(Sub(_, _), Before(_), e, params, out) ==
    CASE e.exp = "Let" ->
            LET x == e.bindings[1].var
                s_body == Sub(e.body, out)
                live == Before(s_body) \cup {x}
            IN  Annotated(LetIn(x, Sub(e.bindings[1].e, AfterBound(x, live)), s_body), live)
      [] e.exp = "If" ->
            LET s_thn == Sub(e.thn, out)
                s_els == Sub(e.els, out)
            IN  Annotated(If(e.cond, s_thn, s_els),
                          IfLive(e.cond, Before(s_thn), Before(s_els), params))
      [] OTHER -> Annotated(e, OperationLive(e, params, out))

-----------------------------------------------------------------------------
(* conflicts.                                                               *)

\* equivs holds classes of variables known to have one value
ClassesOf(x, equivs) == {c \in equivs : x \in c}

\* A variable bound to a variable joins the class of that one, or they make one
Joined(x, bound, equivs) ==
    IF bound.exp # "Var" THEN equivs
    ELSE LET mine == ClassesOf(bound.x, equivs)
         IN  IF mine = {} THEN equivs \cup {{x, bound.x}}
             ELSE (equivs \ mine) \cup {c \cup {x} : c \in mine}

\* Vertices and edges, and whether no assertion has failed
Found(verts, edges, asserted) == [verts |-> verts, edges |-> edges, asserted |-> asserted]
Merged(a, b) ==
    Found(a.verts \cup b.verts, a.edges \cup b.edges, a.asserted /\ b.asserted)

Pairs(S) == {{p[1], p[2]} : p \in {q \in S \X S : q[1] # q[2]}}

\* Bug: the variable of the let is no vertex when nothing conflicts with it
LetConflictsNoVertex(x, bound, live, equivs) ==
    LET edges == Pairs(live) \ UNION {Pairs(c) : c \in Joined(x, bound, equivs)}
    IN  Found(UNION edges, edges,
              bound.exp = "Var" => Cardinality(ClassesOf(bound.x, equivs)) <= 1)

\* The variables live at a let conflict, but for those of one class
LetConflicts(x, bound, live, equivs) ==
    LET edges == Pairs(live) \ UNION {Pairs(c) : c \in Joined(x, bound, equivs)}
    IN  Found({x} \cup UNION edges, edges,
              bound.exp = "Var" => Cardinality(ClassesOf(bound.x, equivs)) <= 1)

\* conflicts_helper on an annotated expression
ConflictsArm(Sub(_, _), s, equivs) ==
    CASE s.exp = "Let" ->
            LET x == s.bindings[1].var
                bound == s.bindings[1].e
                equivs2 == Joined(x, bound, equivs)
            IN  Merged(LetConflicts(x, bound, s.ann, equivs),
                       Merged(Sub(bound, equivs2), Sub(s.body, equivs2)))
      [] s.exp = "If" -> Merged(Sub(s.thn, equivs), Sub(s.els, equivs))
      [] OTHER -> Found({}, {}, TRUE)

-----------------------------------------------------------------------------
(* The variables of one activation of a function in the places that an      *)
(* allocation gives them (src/src/compile.rs:1178-1224).  Places are        *)
(* overwritten; a place not written in this activation holds junk.          *)

\* What a register or a stack slot holds before it is written
Junk == [t |-> "Junk"]

EmptyStore == [l \in {} |-> Junk]

\* Env: VarLocation by variable; args: the arguments by parameter
Frame(lcl, args) == [lcl |-> lcl, args |-> args]

\* compile_imm: a local variable hides a parameter
Operand(imm, frame, store) ==
    CASE imm.exp = "Num" -> NumV(imm.n)
      [] imm.exp = "Bool" -> BoolV(imm.b)
      [] imm.exp = "Var" /\ imm.x \in DOMAIN frame.lcl ->
            IF frame.lcl[imm.x] \in DOMAIN store THEN store[frame.lcl[imm.x]] ELSE Junk
      [] imm.exp = "Var" /\ imm.x \notin DOMAIN frame.lcl -> frame.args[imm.x]

-----------------------------------------------------------------------------
(* Vocabulary for statements about the analyses; not code.                  *)

\* What was found out about an expression: the variables live before it, those
\* live after it, the classes on the way to it, and the graph of its function
Node(e, params, live, out, equivs, graph) ==
    [e |-> e, params |-> params, live |-> live, out |-> out, equivs |-> equivs, graph |-> graph]

\* An operation on immediate expressions: what it reads and what stays live
SoundOperation(a) ==
    /\ a.e.exp # "Let" /\ a.e.exp # "If"
    /\ \A i \in DOMAIN Children(a.e) : Immediate(Children(a.e)[i])
    /\ a.out \cup (ImmVars(a.e) \ a.params) \subseteq a.live

\* Either branch, and the condition
SoundIf(A, a) ==
    /\ a.e.exp = "If" /\ Immediate(a.e.cond)
    /\ VarsIn(<<a.e.cond>>) \ a.params \subseteq a.live
    /\ \A branch \in {a.e.thn, a.e.els} :
          \E b \in A : /\ b = Node(branch, a.params, b.live, a.out, a.equivs, a.graph)
                       /\ b.live \subseteq a.live

\* Both can be read after the other is written: different places, or one value
Apart(x, y, graph, equivs) == y \in Neighbors(graph, x) \/ \E c \in equivs : {x, y} \subseteq c

\* The bound expression, and then the body: all that is live in it with the
\* variable is apart from it
SoundLet(A, a) ==
    LET x == a.e.bindings[1].var
        bound == a.e.bindings[1].e
        equivs == Joined(x, bound, a.equivs)
    IN  /\ a.e.exp = "Let" /\ Len(a.e.bindings) = 1
        /\ x \in Vertices(a.graph)
        /\ x \notin a.params \cup a.out \cup UNION a.equivs
        /\ \E b \in A :
              /\ b = Node(a.e.body, a.params, b.live, a.out, equivs, a.graph)
              /\ Node(bound, a.params, a.live, b.live \ {x}, a.equivs, a.graph) \in A
              /\ \A y \in b.live \ {x} : Apart(x, y, a.graph, equivs)

\* A parameter has no place, and what is live has one
SoundAt(A, a) ==
    /\ Vertices(a.graph) \cap a.params = {}
    /\ a.live \cup a.out \subseteq Vertices(a.graph)
    /\ SoundOperation(a) \/ SoundIf(A, a) \/ SoundLet(A, a)

\* A covers the program p: every body starts with nothing live and nothing known,
\* and graphs are the graphs of the functions and, the last, of main
Analysed(A, p, graphs) ==
    /\ \A a \in A : SoundAt(A, a)
    /\ \A i \in DOMAIN p.funs :
          Node(p.funs[i].body, ParamSet(p.funs[i]), {}, {}, {}, graphs[i]) \in A
    /\ Node(p.main, {}, {}, {}, {}, graphs[Len(p.funs) + 1]) \in A

-----------------------------------------------------------------------------
(* What it takes for liveness and conflicts, which stop at the parts, to    *)
(* speak of whole bodies.  A survey w of a body has                         *)
(*   asked     the expressions and what is live after them that liveness is *)
(*             called with, made what it makes of them, and before what     *)
(*             get_child_ann takes of that;                                 *)
(*   visited   the annotated expressions and the classes that               *)
(*             conflicts_helper is called with, and found what it finds;    *)
(*   rank      a number for each expression, lower for its parts;           *)
(*   binders   the variables that it binds.                                 *)

\* A SeqExp, as far as its parts
Sequential(e) ==
    \/ e.exp = "Num" /\ e = Num(e.n)
    \/ e.exp = "Bool" /\ e = Bool(e.b)
    \/ e.exp = "Var" /\ e = Var(e.x)
    \/ e.exp = "Prim1" /\ e = Prim1(e.op, e.e) /\ Immediate(e.e)
    \/ e.exp = "Prim2" /\ e = Prim2(e.op, e.e1, e.e2) /\ Immediate(e.e1) /\ Immediate(e.e2)
    \/ e.exp = "Call" /\ e = Call(e.f, e.args) /\ \A i \in DOMAIN e.args : Immediate(e.args[i])
    \/ e.exp = "If" /\ Immediate(e.cond)
    \/ e.exp = "Let"

SeqParts(e) ==
    CASE e.exp = "Let" -> {e.bindings[1].e, e.body}
      [] e.exp = "If" -> {e.thn, e.els}
      [] OTHER -> {}

\* The definitions above, with what the survey has of the parts
LivenessFrom(w, e, params, out) ==
    LivenessArm(LAMBDA x, after : w.made[<<x, after>>], LAMBDA s : w.before[s], e, params, out)

ChildAnnFrom(w, s) == ChildAnnArm(LAMBDA x : w.before[x], s)

ConflictsFrom(w, s, equivs) == ConflictsArm(LAMBDA x, q : w.found[<<x, q>>], s, equivs)

BindersFrom(w, e) ==
    (IF e.exp = "Let" THEN {e.bindings[1].var} ELSE {}) \cup UNION {w.binders[x] : x \in SeqParts(e)}

\* What liveness and conflicts_helper are called with for the parts
LivenessAsks(w, e, out) ==
    CASE e.exp = "Let" ->
            LET x == e.bindings[1].var
                live == w.before[w.made[<<e.body, out>>]] \cup {x}
            IN  {<<e.body, out>>, <<e.bindings[1].e, AfterBound(x, live)>>}
      [] OTHER -> {<<x, out>> : x \in SeqParts(e)}

ConflictsVisits(s, equivs) ==
    CASE s.exp = "Let" ->
            {<<x, Joined(s.bindings[1].var, s.bindings[1].e, equivs)>> : x \in SeqParts(s)}
      [] OTHER -> {<<x, equivs>> : x \in SeqParts(s)}

\* w is a survey of the body e of a function with these parameters
Surveyed(w, e, params) ==
    /\ <<e, {}>> \in w.asked /\ <<w.made[<<e, {}>>], {}>> \in w.visited
    /\ \A j \in w.asked :
          /\ Sequential(j[1]) /\ w.rank[j[1]] \in Nat
          /\ \A x \in SeqParts(j[1]) : w.rank[x] < w.rank[j[1]]
          /\ w.binders[j[1]] = BindersFrom(w, j[1])
          /\ w.made[j] = LivenessFrom(w, j[1], params, j[2])
          /\ w.before[w.made[j]] = ChildAnnFrom(w, w.made[j])
          /\ LivenessAsks(w, j[1], j[2]) \subseteq w.asked
    /\ \A j \in w.visited :
          /\ w.found[j] = ConflictsFrom(w, j[1], j[2])
          /\ ConflictsVisits(j[1], j[2]) \subseteq w.visited

\* No let binds a parameter, or a variable that is in scope already
Unshadowed(w, e, params) ==
    /\ w.binders[e] \cap params = {}
    /\ \A j \in w.asked :
          j[1].exp = "Let" => j[1].bindings[1].var \notin w.binders[j[1].body]

\* What comes of it: the annotated body and the graph
MadeOf(w, e) == w.made[<<e, {}>>]
FoundOf(w, e) == w.found[<<MadeOf(w, e), {}>>]
SurveyGraph(w, e) == GraphOf(FoundOf(w, e).verts, FoundOf(w, e).edges)

\* p is what liveness makes of u, body by body, with the surveys w
AnnotatedBy(w, u, p) ==
    \A i \in BodyNumbers(p) : /\ Surveyed(w[i], BodyOf(u, i), ParamsOf(p, i))
                         /\ BodyOf(p, i) = MadeOf(w[i], BodyOf(u, i))

NothingShadowed(w, u, p) ==
    \A i \in BodyNumbers(p) : Unshadowed(w[i], BodyOf(u, i), ParamsOf(p, i))

SurveyGraphs(w, u, p) == [i \in BodyNumbers(p) |-> SurveyGraph(w[i], BodyOf(u, i))]
=============================================================================
