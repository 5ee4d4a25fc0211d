------------------------------- MODULE RegAlloc -------------------------------
(***************************************************************************)
(* allocate_registers, src/src/compile.rs:992-1106: graph colouring after  *)
(* Chaitin and Briggs.                                                     *)
(*                                                                         *)
(* A round takes the vertices of a copy of the conflict graph one by one   *)
(* onto a stack, those with fewer than k neighbours first and otherwise    *)
(* one with the most neighbours ("optimistically").  The stack is then     *)
(* popped, each vertex getting the least register none of its coloured     *)
(* neighbours has.  When there is none, one vertex is spilled to the       *)
(* frame, the rest of the round is thrown away and a new round starts on   *)
(* the smaller graph.  Random choices of the code (rand's choose, and the  *)
(* iteration order of a HashMap that decides ties of max_by) are           *)
(* nondeterministic here.                                                  *)
(***************************************************************************)
EXTENDS Places, Sequences

CONSTANT Var                 \* the variables that may occur in conflict graphs

ASSUME VarAssumption == IsFiniteSet(Var)
ASSUME RegistersAssumption == Registers \subseteq Nat /\ IsFiniteSet(Registers)

VARIABLES
    input,                   \* the graph passed in; the code does not keep it
    conflicts,               \* the parameter: the input without the spilled vertices
    g,                       \* the round's copy of conflicts
    stack,                   \* the vertices removed from g, the last one on top
    envTry,                  \* the registers this round has given
    env,                     \* what is returned: a location for every variable
    spillCnt,                \* the number of spill slots used
    pc                       \* "simplify", "select" or "done"

vars == <<input, conflicts, g, stack, envTry, env, spillCnt, pc>>

k == Cardinality(Registers)

NoLocations == [v \in {} |-> 0]

Init ==
    /\ input \in GraphsOver(Var)
    /\ conflicts = input
    /\ g = input
    /\ stack = <<>>
    /\ envTry = NoLocations
    /\ env = NoLocations
    /\ spillCnt = 0
    /\ pc = "simplify"

-----------------------------------------------------------------------------
(* Simplify: take the graph apart.                                          *)

LowDegree == {v \in Vertices(g) : Degree(g, v) < k}

\* The vertices max_by may return: those of the greatest degree
MostConflicting == {v \in Vertices(g) :
                       \A w \in Vertices(g) : Degree(g, w) <= Degree(g, v)}

\* remove_vertex and push
TakePopping(node) ==
    /\ g' = RemoveVertex(g, node)
    /\ stack' = <<node>>
TakePrepending(node) ==
    /\ g' = RemoveVertex(g, node)
    /\ stack' = <<node>> \o stack
Take(node) ==
    /\ g' = RemoveVertex(g, node)
    /\ stack' = Append(stack, node)

\* One turn of the while loop
Simplify ==
    /\ pc = "simplify"
    /\ \E node \in LowDegree : Take(node)
    /\ UNCHANGED <<input, conflicts, envTry, env, spillCnt, pc>>

\* The while loop has ended with vertices left, all of degree k or more
PushMaxDegree ==
    /\ pc = "simplify"
    /\ LowDegree = {}
    /\ NumVertices(g) > 0
    /\ \E node \in MostConflicting : Take(node)
    /\ UNCHANGED <<input, conflicts, envTry, env, spillCnt, pc>>

\* The graph is empty: break out of the outer loop
StartSelect ==
    /\ pc = "simplify"
    /\ NumVertices(g) = 0
    /\ envTry' = NoLocations
    /\ pc' = "select"
    /\ UNCHANGED <<input, conflicts, g, stack, env, spillCnt>>

-----------------------------------------------------------------------------
(* Select: colour the vertices in the order they come off the stack.        *)

StackTop == stack[Len(stack)]

StackPopped == SubSeq(stack, 1, Len(stack) - 1)

\* The registers of the neighbours already coloured
RegsConf(node) == {envTry[w] : w \in Neighbors(conflicts, node) \cap DOMAIN envTry}

RegsAvailBelowTop(node) ==
    Registers \ {envTry[w] : w \in Neighbors(g, node) \cap DOMAIN envTry}
RegsAvailAnyReg(node) == (0 .. 15) \ RegsConf(node)
RegsAvail(node) == Registers \ RegsConf(node)

LeastReg(regs) == CHOOSE r \in regs : \A s \in regs : r <= s

\* A colour is left: the least one
ColorKeepingTop ==
    /\ pc = "select"
    /\ stack # <<>>
    /\ RegsAvail(StackTop) # {}
    /\ envTry' = [v \in DOMAIN envTry \cup {StackTop} |->
                     IF v = StackTop THEN LeastReg(RegsAvail(StackTop))
                                     ELSE envTry[v]]
    /\ UNCHANGED <<input, conflicts, g, stack, env, spillCnt, pc>>
Color ==
    /\ pc = "select"
    /\ stack # <<>>
    /\ RegsAvail(StackTop) # {}
    /\ envTry' = [v \in DOMAIN envTry \cup {StackTop} |->
                     IF v = StackTop THEN LeastReg(RegsAvail(StackTop))
                                     ELSE envTry[v]]
    /\ stack' = StackPopped
    /\ UNCHANGED <<input, conflicts, g, env, spillCnt, pc>>

\* max_by over a Vec returns the last of the greatest: the highest on the stack
IsVictimIndexLeast(i) ==
    LET Deg(j) == Degree(conflicts, stack[j])
    IN  \A j \in 1 .. Len(stack) : Deg(j) >= Deg(i) /\ (j < i => Deg(j) > Deg(i))
IsVictimIndex(i) ==
    LET Deg(j) == Degree(conflicts, stack[j])
    IN  \A j \in 1 .. Len(stack) : Deg(j) <= Deg(i) /\ (j > i => Deg(j) < Deg(i))

\* No colour is left: spill the victim and begin a new round without it.  The
\* new round's first statements, a fresh stack and a fresh copy of the graph,
\* belong to the step.
SpillAndRestartKeepingVertex ==
    /\ pc = "select"
    /\ stack # <<>>
    /\ RegsAvail(StackTop) = {}
    /\ \E i \in 1 .. Len(stack) :
          /\ IsVictimIndex(i)
          /\ env' = [v \in DOMAIN env \cup {stack[i]} |->
                        IF v = stack[i] THEN SpillLoc(spillCnt) ELSE env[v]]
    /\ spillCnt' = spillCnt + 1
    /\ g' = conflicts
    /\ stack' = <<>>
    /\ envTry' = NoLocations
    /\ pc' = "simplify"
    /\ UNCHANGED <<input, conflicts>>
SpillAndRestartOneSlot ==
    /\ pc = "select"
    /\ stack # <<>>
    /\ RegsAvail(StackTop) = {}
    /\ \E i \in 1 .. Len(stack) :
          /\ IsVictimIndex(i)
          /\ conflicts' = RemoveVertex(conflicts, stack[i])
          /\ env' = [v \in DOMAIN env \cup {stack[i]} |->
                        IF v = stack[i] THEN SpillLoc(spillCnt) ELSE env[v]]
    /\ g' = conflicts'
    /\ stack' = <<>>
    /\ envTry' = NoLocations
    /\ pc' = "simplify"
    /\ UNCHANGED <<input, spillCnt>>
SpillAndRestart ==
    /\ pc = "select"
    /\ stack # <<>>
    /\ RegsAvail(StackTop) = {}
    /\ \E i \in 1 .. Len(stack) :
          /\ IsVictimIndex(i)
          /\ conflicts' = RemoveVertex(conflicts, stack[i])
          /\ env' = [v \in DOMAIN env \cup {stack[i]} |->
                        IF v = stack[i] THEN SpillLoc(spillCnt) ELSE env[v]]
    /\ spillCnt' = spillCnt + 1
    /\ g' = conflicts'
    /\ stack' = <<>>
    /\ envTry' = NoLocations
    /\ pc' = "simplify"
    /\ UNCHANGED input

\* The stack is empty: env.extend(env_try), return env
ReturnDroppingSpills ==
    /\ pc = "select"
    /\ stack = <<>>
    /\ env' = [v \in DOMAIN envTry |-> RegLoc(envTry[v])]
    /\ pc' = "done"
    /\ UNCHANGED <<input, conflicts, g, stack, envTry, spillCnt>>
Return ==
    /\ pc = "select"
    /\ stack = <<>>
    /\ env' = [v \in DOMAIN env \cup DOMAIN envTry |->
                  IF v \in DOMAIN envTry THEN RegLoc(envTry[v]) ELSE env[v]]
    /\ pc' = "done"
    /\ UNCHANGED <<input, conflicts, g, stack, envTry, spillCnt>>

\* The call has returned; nothing more happens
Returned == pc = "done" /\ UNCHANGED vars

Next ==
    \/ Simplify \/ PushMaxDegree \/ StartSelect
    \/ Color \/ SpillAndRestart \/ Return
    \/ Returned

\* The function is sequential code that nothing can block: it keeps running
Spec == Init /\ [][Next]_vars /\ WF_vars(Next)

-----------------------------------------------------------------------------
(* Properties.                                                              *)

SpilledVars == {v \in DOMAIN env : env[v].loc = "Spill"}

OnStack == {stack[i] : i \in 1 .. Len(stack)}

\* Every variable of the code holds a value of its Rust type (compile.rs:992-1007).
TypeOK ==
    /\ DOMAIN input \subseteq Var
    /\ \A v \in DOMAIN input : input[v] \subseteq Var
    /\ DOMAIN conflicts \subseteq Var
    /\ \A v \in DOMAIN conflicts : conflicts[v] \subseteq Var
    /\ DOMAIN g \subseteq Var
    /\ \A v \in DOMAIN g : g[v] \subseteq Var
    /\ stack \in Seq(Var)
    /\ DOMAIN envTry \subseteq Var
    /\ \A v \in DOMAIN envTry : envTry[v] \in Registers
    /\ DOMAIN env \subseteq Var
    /\ \A v \in DOMAIN env : env[v] \in Locations
    /\ spillCnt \in Nat
    /\ pc \in {"simplify", "select", "done"}

\* The graphs of a round are what is left of the input: conflicts lacks exactly
\* the spilled vertices, and g lacks besides those taken onto the stack or
\* already coloured (clones and remove_vertex, compile.rs:1007-1091).
GraphsAgree ==
    /\ ClosedGraph(input) /\ UndirectedGraph(input) /\ LoopFree(input)
    /\ InducedWithout(conflicts, input, SpilledVars)
    /\ InducedWithout(g, conflicts, OnStack \cup DOMAIN envTry)

\* No variable is lost and none is handled twice, whatever the rounds that were
\* thrown away: each vertex of the input is spilled, still in the graph, on the
\* stack once, or coloured (compile.rs:1003-1102).
Accounted ==
    /\ \A i, j \in 1 .. Len(stack) : stack[i] = stack[j] => i = j
    /\ pc # "done" => SpilledVars = DOMAIN env
    /\ pc = "done" => DOMAIN env = Vertices(input)
    /\ Vertices(input) = SpilledVars \cup Vertices(g) \cup OnStack \cup DOMAIN envTry
    /\ SpilledVars \cap (Vertices(g) \cup OnStack \cup DOMAIN envTry) = {}
    /\ Vertices(g) \cap (OnStack \cup DOMAIN envTry) = {}
    /\ OnStack \cap DOMAIN envTry = {}
    /\ pc = "simplify" => DOMAIN envTry = {}
    /\ pc = "select" => Vertices(g) = {}
    /\ pc = "done" => Vertices(g) = {} /\ OnStack = {}

\* The registers given so far are right at every moment of the select loop, not
\* only at its end: interfering variables differ (compile.rs:1059-1098).
ProperColouring ==
    \A v, w \in DOMAIN envTry : w \in Neighbors(conflicts, v) => envTry[v] # envTry[w]

\* Spill slots are handed out from 0 up, one to a variable, across all rounds
\* (compile.rs:1002, 1089-1090); the frame reserves spill_cnt of them.
SpillSlotsDense ==
    /\ {env[v].n : v \in SpilledVars} = 0 .. (spillCnt - 1)
    /\ \A v, w \in SpilledVars : env[v].n = env[w].n => v = w

\* What TLAPS proves inductive
IInv == TypeOK /\ GraphsAgree /\ Accounted /\ ProperColouring /\ SpillSlotsDense

\* Spilling hits a variable that has at least as many conflicts as there are
\* registers, although the victim is often not the vertex that found no colour
\* (compile.rs:1078-1089).
SpillVictimHighDegree ==
    [][\A v \in DOMAIN env' \ DOMAIN env :
          env'[v].loc = "Spill" => Degree(conflicts, v) >= k]_vars

\* A graph each of whose subgraphs has a vertex with fewer than k neighbours
Degenerate(h) ==
    \A W \in SUBSET Vertices(h) :
        W # {} => \E v \in W : Cardinality(h[v] \cap W) < k

\* The promise of graph colouring by simplification: a program whose conflicts
\* can be taken apart below degree k never touches the frame, whatever the
\* random choices (compile.rs:1010-1027).
NoSpillIfDegenerate == Degenerate(input) => spillCnt = 0

\* The function returns: every round thrown away removes a variable
\* (compile.rs:1007, 1088).
Termination == <>(pc = "done")

\* The steps that are left of a round unless it is thrown away: each vertex is
\* taken, and then coloured
RoundLeft ==
    CASE pc = "simplify" -> 2 * NumVertices(g) + Len(stack) + 2
      [] pc = "select" -> Len(stack) + 1
      [] pc = "done" -> 0

\* Why the function returns: a step brings its round nearer to the end, with the
\* same graph to colour, or abandons it for one on a smaller graph
\* (compile.rs:1007-1014, 1059-1091).
RoundsEnd ==
    [][/\ NumVertices(conflicts) \in Nat /\ RoundLeft \in Nat
       /\ \/ NumVertices(conflicts') < NumVertices(conflicts)
          \/ conflicts' = conflicts /\ RoundLeft' < RoundLeft]_vars

\* The refinement: nothing is answered until the function returns
Abstract == INSTANCE AllocSpec WITH
    finished <- pc = "done",
    answer <- IF pc = "done" THEN env ELSE EmptyGraph

\* allocate_registers returns once, and what it returns is an allocation of the
\* graph it was given (compile.rs:992-1106).
ImplementsAllocSpec == Abstract!Spec
=============================================================================
