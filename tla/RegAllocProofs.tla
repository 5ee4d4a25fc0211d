---------------------------- MODULE RegAllocProofs ----------------------------
(***************************************************************************)
(* What holds of allocate_registers for every conflict graph and every set *)
(* of registers: the inductive invariant IInv of RegAlloc, and from it the *)
(* quality of the victim of a spill, the absence of spills on graphs that  *)
(* simplification takes apart, and the refinement of AllocSpec.            *)
(***************************************************************************)
EXTENDS RegAlloc, SequenceTheorems, FiniteSetTheorems, WellFoundedInduction, TLAPS

-----------------------------------------------------------------------------
(* Lemmas about the operators.                                              *)

\* The graphs the allocator is called with are closed, undirected, loop free.
LEMMA GraphsOverShape ==
    ASSUME NEW S, NEW h \in GraphsOver(S)
    PROVE  /\ DOMAIN h \subseteq S
           /\ ClosedGraph(h) /\ UndirectedGraph(h) /\ LoopFree(h)
<1>1. PICK W \in SUBSET S : \E E : h = GraphOf(W, E)
  BY Zenon DEF GraphsOver
<1>2. PICK E : h = GraphOf(W, E)
  BY <1>1
<1>3. h = [v \in W |-> {w \in W \ {v} : {v, w} \in E}]
  BY <1>2, Zenon DEF GraphOf
<1>4. \A v, w : {v, w} = {w, v}
  OBVIOUS
<1>5. ClosedGraph(h) /\ LoopFree(h)
  BY <1>3 DEF ClosedGraph, LoopFree
<1>6. ASSUME NEW v \in DOMAIN h, NEW w \in DOMAIN h, v \in h[w]
      PROVE  w \in h[v]
  <2>1. v \in W /\ w \in W /\ v # w /\ {w, v} \in E
    BY <1>3, <1>6
  <2>2. {v, w} \in E
    BY <2>1, <1>4
  <2> QED
    BY <1>3, <2>1, <2>2
<1>7. UndirectedGraph(h)
  BY <1>6 DEF UndirectedGraph
<1> QED
  BY <1>3, <1>5, <1>7

\* Taking one more vertex out of a graph leaves what the larger set leaves.
LEMMA InducedRemove ==
    ASSUME NEW h, NEW h0, NEW W, NEW v, InducedWithout(h, h0, W)
    PROVE  InducedWithout(RemoveVertex(h, v), h0, W \cup {v})
BY DEF InducedWithout, RemoveVertex

\* A set of registers that is not empty has a least one, and LeastReg finds it.
LEMMA LeastRegExists ==
    ASSUME NEW R, R \subseteq Nat, IsFiniteSet(R), R # {}
    PROVE  LeastReg(R) \in R
<1> DEFINE Below(r) == {s \in R : s < r}
           F == {Below(r) : r \in R}
<1>1. IsWellFoundedOn(StrictSubsetOrdering(R), FiniteSubsetsOf(R))
  BY FS_StrictSubsetOrderingWellFounded
<1>2. F \subseteq FiniteSubsetsOf(R)
  <2>1. SUBSET R = FiniteSubsetsOf(R)
    BY FS_FiniteSubsetsOfFinite
  <2> QED
    BY <2>1
<1>3. F # {}
  OBVIOUS
<1> HIDE DEF F
<1>4. PICK B \in F : \A C \in F : ~(<<C, B>> \in StrictSubsetOrdering(R))
  BY <1>1, <1>2, <1>3, WFMin, Zenon
<1>5. PICK r \in R : B = Below(r)
  BY <1>4 DEF F
<1>6. ASSUME NEW s \in R PROVE r <= s
  <2>1. SUFFICES ASSUME s < r PROVE FALSE
    OBVIOUS
  <2>2. Below(s) \subseteq Below(r) /\ s \in Below(r) /\ s \notin Below(s)
    <3>1. \A x \in R : x \in Nat
      OBVIOUS
    <3>2. ~(s < s)
      BY <3>1, SMT
    <3>3. \A x \in R : x < s => x < r
      BY <2>1, <3>1, SMT
    <3> QED
      BY <2>1, <3>2, <3>3, Zenon
  <2>3. Below(s) \in F
    BY DEF F
  <2>4. Below(s) \in SUBSET R /\ Below(r) \in SUBSET R
    OBVIOUS
  <2> HIDE DEF Below
  <2>5. <<Below(s), Below(r)>> \in StrictSubsetOrdering(R)
    BY <2>2, <2>4 DEF StrictSubsetOrdering
  <2> QED
    BY <1>4, <1>5, <2>3, <2>5
<1>7. \E q \in R : \A s \in R : q <= s
  BY <1>6
<1> QED
  BY <1>7, Zenon DEF LeastReg

\* The numbers up to one below n are among those below n.
LEMMA BelowIsSubset ==
    ASSUME NEW n \in Nat, NEW m \in 0 .. (n - 1)
    PROVE  0 .. m \subseteq 0 .. (n - 1)
<1>1. m \in Int /\ m <= n - 1
  OBVIOUS
<1>2. \A j \in Int : 0 <= j /\ j <= m => j <= n - 1
  BY <1>1
<1> QED
  BY <1>1, <1>2

\* Pushing adds one vertex on top.
LEMMA PushStack ==
    ASSUME NEW s \in Seq(Var), NEW v \in Var
    PROVE  /\ Append(s, v) \in Seq(Var)
           /\ Len(Append(s, v)) = Len(s) + 1
           /\ \A i \in 1 .. Len(s) : Append(s, v)[i] = s[i]
           /\ Append(s, v)[Len(s) + 1] = v
BY AppendProperties

\* Popping takes the top and leaves the rest in place.
LEMMA PopStack ==
    ASSUME NEW s \in Seq(Var), s # <<>>
    PROVE  /\ SubSeq(s, 1, Len(s) - 1) \in Seq(Var)
           /\ Len(s) \in Nat \ {0}
           /\ s[Len(s)] \in Var
           /\ Len(SubSeq(s, 1, Len(s) - 1)) = Len(s) - 1
           /\ \A i \in 1 .. (Len(s) - 1) : SubSeq(s, 1, Len(s) - 1)[i] = s[i]
<1>1. Len(s) \in Nat \ {0} /\ \A i \in 1 .. Len(s) : s[i] \in Var
  BY EmptySeq, LenProperties, ElementOfSeq
<1> DEFINE m == Len(s) - 1
<1>2. m \in Int /\ m \in Nat /\ \A i \in 1 .. m : s[i] \in Var
  BY <1>1
<1>3. SubSeq(s, 1, m) \in Seq(Var) /\ \A i \in 1 .. m : SubSeq(s, 1, m)[i] = s[i]
  BY <1>1
<1>4. Len(SubSeq(s, 1, m)) = IF 1 <= m THEN m - 1 + 1 ELSE 0
  <2> HIDE DEF m
  <2> QED
    BY <1>2, SubSeqProperties
<1>5. Len(SubSeq(s, 1, m)) = m
  <2> HIDE DEF m
  <2> QED
    BY <1>2, <1>4
<1> QED
  BY <1>1, <1>3, <1>5

-----------------------------------------------------------------------------
(* The invariant holds initially.                                           *)

LEMMA InitIInv == Init => IInv
<1> SUFFICES ASSUME Init PROVE IInv
  OBVIOUS
<1> USE DEF Init
<1>1. /\ DOMAIN input \subseteq Var
      /\ ClosedGraph(input) /\ UndirectedGraph(input) /\ LoopFree(input)
  BY GraphsOverShape
<1>2. OnStack = {} /\ stack \in Seq(Var) /\ Len(stack) = 0
  BY EmptySeq DEF OnStack
<1>3. SpilledVars = {} /\ DOMAIN env = {} /\ DOMAIN envTry = {}
  BY DEF SpilledVars, NoLocations
<1>4. TypeOK
  BY <1>1, <1>2, <1>3 DEF TypeOK, ClosedGraph
<1>5. GraphsAgree
  BY <1>1, <1>2, <1>3 DEF GraphsAgree, InducedWithout
<1>6. Accounted
  BY <1>2, <1>3 DEF Accounted, Vertices
<1>7. ProperColouring /\ SpillSlotsDense
  BY <1>3 DEF ProperColouring, SpillSlotsDense
<1> QED
  BY <1>4, <1>5, <1>6, <1>7 DEF IInv

-----------------------------------------------------------------------------
(* Each step preserves it.                                                  *)

\* A turn of the simplify loop, whichever vertex it takes.
LEMMA TakeIInv ==
    ASSUME IInv, pc = "simplify", NEW node \in Vertices(g), Take(node),
           UNCHANGED <<input, conflicts, envTry, env, spillCnt, pc>>
    PROVE  IInv'
<1> USE DEF IInv
<1>1. node \in Var /\ stack \in Seq(Var) /\ Len(stack) \in Nat
  BY LenProperties DEF TypeOK, Vertices
<1>2. /\ stack' \in Seq(Var)
      /\ Len(stack') = Len(stack) + 1
      /\ \A i \in 1 .. Len(stack) : stack'[i] = stack[i]
      /\ stack'[Len(stack) + 1] = node
  BY <1>1, PushStack DEF Take
<1>3. OnStack' = OnStack \cup {node}
  BY <1>1, <1>2 DEF OnStack
<1>4. g' = RemoveVertex(g, node) /\ Vertices(g') = Vertices(g) \ {node}
  BY DEF Take, RemoveVertex, Vertices
<1>5. SpilledVars' = SpilledVars
  BY DEF SpilledVars
<1>6. TypeOK'
  BY <1>1, <1>2, <1>4 DEF TypeOK, RemoveVertex
<1>7. GraphsAgree'
  <2>1. InducedWithout(g', conflicts, OnStack \cup DOMAIN envTry \cup {node})
    BY <1>4, InducedRemove DEF GraphsAgree
  <2>2. OnStack \cup DOMAIN envTry \cup {node} = OnStack' \cup DOMAIN envTry'
    BY <1>3
  <2> QED
    BY <1>5, <2>1, <2>2 DEF GraphsAgree
<1>8. Accounted'
  <2>1. node \notin OnStack
    BY DEF Accounted
  <2>2. \A i, j \in 1 .. Len(stack') : stack'[i] = stack'[j] => i = j
    BY <1>1, <1>2, <2>1 DEF Accounted, OnStack
  <2> QED
    BY <1>3, <1>4, <1>5, <2>2 DEF Accounted
<1>9. ProperColouring' /\ SpillSlotsDense'
  BY <1>5 DEF ProperColouring, SpillSlotsDense
<1> QED
  BY <1>6, <1>7, <1>8, <1>9

\* The end of the simplify loop.
LEMMA StartSelectIInv == IInv /\ StartSelect => IInv'
<1> SUFFICES ASSUME IInv, StartSelect PROVE IInv'
  OBVIOUS
<1> USE DEF IInv, StartSelect
<1>1. OnStack' = OnStack /\ SpilledVars' = SpilledVars
  BY DEF OnStack, SpilledVars
<1>2. DOMAIN envTry = {} /\ DOMAIN envTry' = {}
  BY DEF Accounted, NoLocations
<1>3. Vertices(g) = {}
  <2>1. IsFiniteSet(Vertices(g))
    BY VarAssumption, FS_Subset DEF TypeOK, Vertices
  <2> QED
    BY <2>1, FS_EmptySet DEF NumVertices, Vertices
<1>4. TypeOK'
  BY <1>2 DEF TypeOK
<1>5. GraphsAgree'
  BY <1>1, <1>2 DEF GraphsAgree
<1>6. Accounted'
  BY <1>1, <1>2, <1>3 DEF Accounted
<1>7. ProperColouring' /\ SpillSlotsDense'
  BY <1>1, <1>2 DEF ProperColouring, SpillSlotsDense
<1> QED
  BY <1>4, <1>5, <1>6, <1>7

\* The graph that colouring looks at has the shape graph.rs:8 promises.
LEMMA ConflictsShape ==
    ASSUME IInv
    PROVE  /\ ClosedGraph(conflicts) /\ UndirectedGraph(conflicts) /\ LoopFree(conflicts)
           /\ DOMAIN conflicts = DOMAIN input \ SpilledVars
           /\ OnStack \cup DOMAIN envTry \subseteq DOMAIN conflicts
<1>1. InducedWithout(conflicts, input, SpilledVars)
  BY DEF IInv, GraphsAgree
<1>2. ClosedGraph(input) /\ UndirectedGraph(input) /\ LoopFree(input)
  BY DEF IInv, GraphsAgree
<1>3. ClosedGraph(conflicts) /\ LoopFree(conflicts)
  BY <1>1, <1>2 DEF InducedWithout, ClosedGraph, LoopFree
<1>4. UndirectedGraph(conflicts)
  BY <1>1, <1>2 DEF InducedWithout, UndirectedGraph
<1>5. DOMAIN conflicts = DOMAIN input \ SpilledVars
  BY <1>1 DEF InducedWithout
<1>6. OnStack \cup DOMAIN envTry \subseteq DOMAIN conflicts
  BY <1>5 DEF IInv, Accounted, Vertices
<1> QED
  BY <1>3, <1>4, <1>5, <1>6

\* The top of the stack is an uncoloured vertex, and popping removes just it.
LEMMA TopOfStack ==
    ASSUME IInv, stack # <<>>
    PROVE  /\ StackTop \in OnStack /\ StackTop \in Var
           /\ StackTop \notin DOMAIN envTry
           /\ StackPopped \in Seq(Var)
           /\ {StackPopped[i] : i \in 1 .. Len(StackPopped)} = OnStack \ {StackTop}
           /\ \A i, j \in 1 .. Len(StackPopped) : StackPopped[i] = StackPopped[j] => i = j
<1>1. stack \in Seq(Var)
  BY DEF IInv, TypeOK
<1>2. /\ StackPopped \in Seq(Var)
      /\ Len(stack) \in Nat \ {0}
      /\ StackTop \in Var
      /\ Len(StackPopped) = Len(stack) - 1
      /\ \A i \in 1 .. (Len(stack) - 1) : StackPopped[i] = stack[i]
  BY <1>1, PopStack DEF StackPopped, StackTop
<1>3. \A i, j \in 1 .. Len(stack) : stack[i] = stack[j] => i = j
  BY DEF IInv, Accounted
<1>4. StackTop \in OnStack
  BY <1>2 DEF OnStack, StackTop
<1>5. StackTop \notin DOMAIN envTry
  BY <1>4 DEF IInv, Accounted
<1>6. {StackPopped[i] : i \in 1 .. Len(StackPopped)} = OnStack \ {StackTop}
  <2> HIDE DEF StackPopped
  <2>1. \A i \in 1 .. (Len(stack) - 1) : i \in 1 .. Len(stack) /\ i # Len(stack)
    BY <1>2
  <2>2. \A i \in 1 .. Len(stack) : i = Len(stack) \/ i \in 1 .. (Len(stack) - 1)
    BY <1>2
  <2>3. Len(stack) \in 1 .. Len(stack)
    BY <1>2
  <2> QED
    BY <1>2, <1>3, <2>1, <2>2, <2>3 DEF OnStack, StackTop
<1>7. \A i, j \in 1 .. Len(StackPopped) : StackPopped[i] = StackPopped[j] => i = j
  BY <1>2, <1>3
<1> QED
  BY <1>2, <1>4, <1>5, <1>6, <1>7

\* A vertex gets a colour.
LEMMA ColorIInv == IInv /\ Color => IInv'
<1> SUFFICES ASSUME IInv, Color PROVE IInv'
  OBVIOUS
<1> DEFINE top == StackTop
           r == LeastReg(RegsAvail(top))
<1> USE DEF IInv
<1>1. /\ top \in OnStack /\ top \in Var /\ top \notin DOMAIN envTry
      /\ stack' \in Seq(Var) /\ OnStack' = OnStack \ {top}
      /\ \A i, j \in 1 .. Len(stack') : stack'[i] = stack'[j] => i = j
  <2>1. stack # <<>> /\ stack' = StackPopped
    BY DEF Color
  <2>2. OnStack' = {StackPopped[i] : i \in 1 .. Len(StackPopped)}
    BY <2>1 DEF OnStack
  <2> QED
    BY <2>1, <2>2, TopOfStack
<1>2. r \in RegsAvail(top) /\ r \in Registers
  <2>1. RegsAvail(top) # {} /\ RegsAvail(top) \subseteq Registers
    BY DEF Color, RegsAvail
  <2>2. IsFiniteSet(RegsAvail(top)) /\ RegsAvail(top) \subseteq Nat
    BY <2>1, RegistersAssumption, FS_Subset
  <2> QED
    BY <2>1, <2>2, LeastRegExists
<1> HIDE DEF r
<1>3. /\ DOMAIN envTry' = DOMAIN envTry \cup {top}
      /\ envTry'[top] = r
      /\ \A v \in DOMAIN envTry : v # top => envTry'[v] = envTry[v]
      /\ UNCHANGED <<input, conflicts, g, env, spillCnt, pc>>
      /\ pc = "select"
  BY DEF Color, r
<1> HIDE DEF top
<1>4. SpilledVars' = SpilledVars /\ OnStack' \cup DOMAIN envTry' = OnStack \cup DOMAIN envTry
  BY <1>1, <1>3 DEF SpilledVars
<1>5. TypeOK'
  BY <1>1, <1>2, <1>3 DEF TypeOK
<1>6. GraphsAgree'
  BY <1>3, <1>4 DEF GraphsAgree
<1>7. Accounted'
  BY <1>1, <1>3, <1>4 DEF Accounted
<1>8. ProperColouring'
  <2>1. \A w \in DOMAIN envTry : w \in Neighbors(conflicts, top) => envTry[w] # r
    BY <1>2 DEF RegsAvail, RegsConf
  <2>2. /\ top \in DOMAIN conflicts /\ DOMAIN envTry \subseteq DOMAIN conflicts
        /\ top \notin conflicts[top]
        /\ \A v \in DOMAIN conflicts : top \in conflicts[v] => v \in conflicts[top]
    BY <1>1, ConflictsShape DEF UndirectedGraph, LoopFree
  <2>3. ASSUME NEW v \in DOMAIN envTry', NEW w \in DOMAIN envTry',
               w \in Neighbors(conflicts, v)
        PROVE  envTry'[v] # envTry'[w]
    <3>1. w \in conflicts[v]
      BY <1>3, <2>2, <2>3 DEF Neighbors
    <3>2. CASE v = top
      BY <1>1, <1>3, <2>1, <2>2, <2>3, <3>1, <3>2
    <3>3. CASE v # top /\ w = top
      BY <1>1, <1>3, <2>1, <2>2, <3>1, <3>3 DEF Neighbors
    <3>4. CASE v # top /\ w # top
      BY <1>3, <2>3, <3>4 DEF ProperColouring
    <3> QED
      BY <3>2, <3>3, <3>4
  <2> QED
    BY <1>3, <2>3 DEF ProperColouring
<1>9. SpillSlotsDense'
  BY <1>3, <1>4 DEF SpillSlotsDense
<1> QED
  BY <1>5, <1>6, <1>7, <1>8, <1>9

\* A variable is spilled and a new round begins.
LEMMA SpillIInv == IInv /\ SpillAndRestart => IInv'
<1> SUFFICES ASSUME IInv, SpillAndRestart PROVE IInv'
  OBVIOUS
<1> USE DEF IInv
<1>1. PICK i \in 1 .. Len(stack) :
          /\ conflicts' = RemoveVertex(conflicts, stack[i])
          /\ env' = [v \in DOMAIN env \cup {stack[i]} |->
                        IF v = stack[i] THEN SpillLoc(spillCnt) ELSE env[v]]
  BY DEF SpillAndRestart
<1> DEFINE victim == stack[i]
<1>2. victim \in OnStack /\ victim \in Var /\ victim \in DOMAIN conflicts
  <2>1. victim \in OnStack
    BY DEF OnStack
  <2>2. victim \in Var
    BY ElementOfSeq DEF TypeOK
  <2> QED
    BY <2>1, <2>2, ConflictsShape
<1> HIDE DEF victim
<1>3. /\ conflicts' = RemoveVertex(conflicts, victim)
      /\ DOMAIN env' = DOMAIN env \cup {victim}
      /\ env'[victim] = SpillLoc(spillCnt)
      /\ \A v \in DOMAIN env : v # victim => env'[v] = env[v]
  BY <1>1 DEF victim
<1>4. /\ spillCnt' = spillCnt + 1 /\ g' = conflicts' /\ stack' = <<>>
      /\ envTry' = NoLocations /\ pc' = "simplify" /\ input' = input /\ pc = "select"
  BY DEF SpillAndRestart
<1>5. OnStack' = {} /\ DOMAIN envTry' = {} /\ stack' \in Seq(Var) /\ Len(stack') = 0
  BY <1>4, EmptySeq DEF OnStack, NoLocations
<1>6. victim \notin SpilledVars /\ SpilledVars = DOMAIN env
  BY <1>2, <1>4 DEF Accounted
<1>7. SpilledVars' = SpilledVars \cup {victim} /\ SpilledVars' = DOMAIN env'
  BY <1>3, <1>6 DEF SpilledVars, SpillLoc
<1>8. DOMAIN conflicts' = DOMAIN conflicts \ {victim}
  BY <1>3 DEF RemoveVertex
<1>9. TypeOK'
  <2>1. SpillLoc(spillCnt) \in Locations
    BY DEF TypeOK, SpillLoc, Locations
  <2>2. \A v \in DOMAIN env' : env'[v] \in Locations
    BY <1>3, <2>1 DEF TypeOK
  <2>3. \A v \in DOMAIN conflicts' : conflicts'[v] \subseteq Var
    BY <1>3 DEF RemoveVertex, TypeOK
  <2> QED
    BY <1>2, <1>3, <1>4, <1>5, <1>8, <2>2, <2>3 DEF TypeOK
<1>10. GraphsAgree'
  <2>1. InducedWithout(conflicts', input, SpilledVars')
    BY <1>3, <1>7, InducedRemove DEF GraphsAgree
  <2>2. InducedWithout(g', conflicts', {})
    BY <1>4 DEF InducedWithout
  <2> QED
    BY <1>4, <1>5, <2>1, <2>2 DEF GraphsAgree
<1>11. Accounted'
  <2>1. DOMAIN conflicts = DOMAIN input \ SpilledVars
    BY ConflictsShape
  <2>2. Vertices(g') = DOMAIN input \ SpilledVars' /\ SpilledVars' \subseteq DOMAIN input
    BY <1>2, <1>4, <1>7, <1>8, <2>1 DEF Vertices, Accounted
  <2>3. \A j \in 1 .. Len(stack') : FALSE
    BY <1>5
  <2> QED
    BY <1>4, <1>5, <1>7, <2>2, <2>3 DEF Accounted, Vertices
<1>12. ProperColouring'
  BY <1>5 DEF ProperColouring
<1>13. SpillSlotsDense'
  <2>1. spillCnt \in Nat /\ \A v \in SpilledVars : env'[v] = env[v]
    BY <1>3, <1>6 DEF TypeOK
  <2>2. env'[victim].n = spillCnt
    BY <1>3 DEF SpillLoc
  <2>3. {env'[v].n : v \in SpilledVars'} = {env[v].n : v \in SpilledVars} \cup {spillCnt}
    BY <1>7, <2>1, <2>2
  <2>4. {env'[v].n : v \in SpilledVars'} = 0 .. (spillCnt' - 1)
    <3>1. 0 .. (spillCnt' - 1) = (0 .. (spillCnt - 1)) \cup {spillCnt}
      BY <1>4, <2>1
    <3> QED
      BY <2>3, <3>1 DEF SpillSlotsDense
  <2>5. \A v \in SpilledVars : env[v].n \in 0 .. (spillCnt - 1)
    BY DEF SpillSlotsDense
  <2>6. \A v \in SpilledVars : env[v].n # spillCnt
    BY <2>1, <2>5
  <2>7. \A v, w \in SpilledVars' : env'[v].n = env'[w].n => v = w
    BY <1>7, <2>1, <2>2, <2>6 DEF SpillSlotsDense
  <2> QED
    BY <2>4, <2>7 DEF SpillSlotsDense
<1> QED
  BY <1>9, <1>10, <1>11, <1>12, <1>13

\* The function returns.
LEMMA ReturnIInv == IInv /\ Return => IInv'
<1> SUFFICES ASSUME IInv, Return PROVE IInv'
  OBVIOUS
<1> USE DEF IInv
<1>1. /\ pc = "select" /\ pc' = "done" /\ stack = <<>>
      /\ UNCHANGED <<input, conflicts, g, stack, envTry, spillCnt>>
      /\ DOMAIN env' = DOMAIN env \cup DOMAIN envTry
      /\ \A v \in DOMAIN envTry : env'[v] = RegLoc(envTry[v])
      /\ \A v \in DOMAIN env \ DOMAIN envTry : env'[v] = env[v]
  BY DEF Return
<1>2. OnStack' = {} /\ OnStack = {}
  BY <1>1, EmptySeq DEF OnStack
<1>3. SpilledVars = DOMAIN env /\ DOMAIN env \cap DOMAIN envTry = {}
  BY <1>1 DEF Accounted
<1>4. SpilledVars' = SpilledVars /\ \A v \in SpilledVars : env'[v] = env[v]
  <2>1. \A v \in DOMAIN envTry : env'[v].loc # "Spill"
    BY <1>1 DEF RegLoc
  <2>2. \A v \in DOMAIN env : env'[v] = env[v]
    BY <1>1, <1>3
  <2> QED
    BY <1>1, <1>3, <2>1, <2>2 DEF SpilledVars
<1>5. TypeOK'
  <2>1. \A v \in DOMAIN envTry : RegLoc(envTry[v]) \in Locations
    BY DEF TypeOK, RegLoc, Locations
  <2>2. \A v \in DOMAIN env' : env'[v] \in Locations
    BY <1>1, <2>1 DEF TypeOK
  <2> QED
    BY <1>1, <2>2 DEF TypeOK
<1>6. GraphsAgree'
  BY <1>1, <1>2, <1>4 DEF GraphsAgree
<1>7. Accounted'
  BY <1>1, <1>2, <1>3, <1>4 DEF Accounted
<1>8. ProperColouring' /\ SpillSlotsDense'
  <2>1. {env'[v].n : v \in SpilledVars'} = {env[v].n : v \in SpilledVars}
    BY <1>4
  <2> QED
    BY <1>1, <1>4, <2>1 DEF ProperColouring, SpillSlotsDense
<1> QED
  BY <1>5, <1>6, <1>7, <1>8

\* Every step of the function keeps the invariant.
LEMMA NextIInv == IInv /\ [Next]_vars => IInv'
<1> SUFFICES ASSUME IInv, [Next]_vars PROVE IInv'
  OBVIOUS
<1>1. CASE Simplify
  <2>1. PICK node \in LowDegree : Take(node)
    BY <1>1 DEF Simplify
  <2>2. node \in Vertices(g)
    BY DEF LowDegree
  <2> QED
    BY <1>1, <2>1, <2>2, TakeIInv DEF Simplify
<1>2. CASE PushMaxDegree
  <2>1. PICK node \in MostConflicting : Take(node)
    BY <1>2 DEF PushMaxDegree
  <2>2. node \in Vertices(g)
    BY DEF MostConflicting
  <2> QED
    BY <1>2, <2>1, <2>2, TakeIInv DEF PushMaxDegree
<1>3. CASE StartSelect
  BY <1>3, StartSelectIInv
<1>4. CASE Color
  BY <1>4, ColorIInv
<1>5. CASE SpillAndRestart
  BY <1>5, SpillIInv
<1>6. CASE Return
  BY <1>6, ReturnIInv
<1>7. CASE UNCHANGED vars
  <2>1. OnStack' = OnStack /\ SpilledVars' = SpilledVars
    BY <1>7 DEF vars, OnStack, SpilledVars
  <2>2. TypeOK' /\ GraphsAgree'
    BY <1>7, <2>1 DEF vars, IInv, TypeOK, GraphsAgree
  <2>3. Accounted'
    BY <1>7, <2>1 DEF vars, IInv, Accounted
  <2>4. ProperColouring' /\ SpillSlotsDense'
    BY <1>7, <2>1 DEF vars, IInv, ProperColouring, SpillSlotsDense
  <2> QED
    BY <2>2, <2>3, <2>4 DEF IInv
<1> QED
  BY <1>1, <1>2, <1>3, <1>4, <1>5, <1>6, <1>7 DEF Next, Returned

\* For every set of variables and registers: the types hold, the graphs agree
\* with the input, no variable is lost, the colouring is proper and the spill
\* slots are dense at every moment of allocate_registers (compile.rs:992-1106).
THEOREM Invariance == Spec => []IInv
BY InitIInv, NextIInv, PTL DEF Spec

\* Every variable of the function always holds a value of its type.
THEOREM TypeCorrect == Spec => []TypeOK
<1>1. IInv => TypeOK
  BY DEF IInv
<1> QED
  BY <1>1, Invariance, PTL

\* The working graphs are always the input without the vertices taken.
THEOREM GraphsAlwaysAgree == Spec => []GraphsAgree
<1>1. IInv => GraphsAgree
  BY DEF IInv
<1> QED
  BY <1>1, Invariance, PTL

\* No variable is lost or handled twice, however many rounds are thrown away.
THEOREM NoVariableLost == Spec => []Accounted
<1>1. IInv => Accounted
  BY DEF IInv
<1> QED
  BY <1>1, Invariance, PTL

\* Two interfering variables never hold the same register.
THEOREM ColouringIsProper == Spec => []ProperColouring
<1>1. IInv => ProperColouring
  BY DEF IInv
<1> QED
  BY <1>1, Invariance, PTL

\* The spill slots in use are always the first ones, one to a variable.
THEOREM SlotsAreDense == Spec => []SpillSlotsDense
<1>1. IInv => SpillSlotsDense
  BY DEF IInv
<1> QED
  BY <1>1, Invariance, PTL

-----------------------------------------------------------------------------
(* The refinement.                                                          *)

\* What the function returns is an allocation of the graph it was given.
LEMMA AnswerIsAllocation ==
    ASSUME IInv, Return, IInv'
    PROVE  Abstract!Allocation(env', input)
<1>1. /\ pc = "select" /\ pc' = "done" /\ stack = <<>>
      /\ UNCHANGED <<input, conflicts, g, stack, envTry, spillCnt>>
      /\ DOMAIN env' = DOMAIN env \cup DOMAIN envTry
      /\ \A v \in DOMAIN envTry : env'[v] = RegLoc(envTry[v])
  BY DEF Return
<1>2. DOMAIN env' = DOMAIN input /\ \A v \in DOMAIN env' : env'[v] \in Locations
  BY <1>1 DEF IInv, Accounted, TypeOK, Vertices
<1>3. Abstract!Spilled(env') = SpilledVars'
  BY DEF Abstract!Spilled, SpilledVars
<1>4. Abstract!DenseSlots(env')
  <2>1. spillCnt' \in Nat /\ {env'[v].n : v \in SpilledVars'} = 0 .. (spillCnt' - 1)
    BY DEF IInv, TypeOK, SpillSlotsDense
  <2>2. \A m \in 0 .. (spillCnt' - 1) : 0 .. m \subseteq 0 .. (spillCnt' - 1)
    BY <2>1, BelowIsSubset
  <2>3. \A v, w \in SpilledVars' : env'[v].n = env'[w].n => v = w
    BY DEF IInv, SpillSlotsDense
  <2> QED
    BY <1>3, <2>1, <2>2, <2>3 DEF Abstract!DenseSlots
<1>5. ASSUME NEW v \in DOMAIN env', NEW w \in DOMAIN env', w \in Neighbors(input, v)
      PROVE  env'[v] # env'[w]
  <2>1. v # w /\ w \in input[v]
    BY <1>2, <1>5 DEF IInv, GraphsAgree, LoopFree, Neighbors
  <2>2. \A u \in DOMAIN env' : u \in SpilledVars' \/ u \in DOMAIN envTry
    BY <1>1, <1>2 DEF IInv, Accounted, Vertices, OnStack
  <2>3. CASE v \in SpilledVars' /\ w \in SpilledVars'
    BY <2>1, <2>3 DEF IInv, SpillSlotsDense
  <2>4. CASE v \in DOMAIN envTry /\ w \in DOMAIN envTry
    <3>1. v \in DOMAIN conflicts /\ conflicts[v] = input[v] \ SpilledVars /\ w \notin SpilledVars
      BY <1>2, <2>4, ConflictsShape DEF IInv, GraphsAgree, InducedWithout, Accounted
    <3>2. w \in Neighbors(conflicts, v)
      BY <2>1, <3>1 DEF Neighbors
    <3>3. envTry[v] # envTry[w]
      BY <2>4, <3>2 DEF IInv, ProperColouring
    <3> QED
      BY <1>1, <2>4, <3>3 DEF RegLoc
  <2>5. CASE v \in SpilledVars' /\ w \in DOMAIN envTry
    BY <1>1, <2>5 DEF SpilledVars, RegLoc
  <2>6. CASE w \in SpilledVars' /\ v \in DOMAIN envTry
    BY <1>1, <2>6 DEF SpilledVars, RegLoc
  <2> QED
    BY <2>2, <2>3, <2>4, <2>5, <2>6
<1>6. Abstract!Proper(env', input)
  BY <1>5 DEF Abstract!Proper, Abstract!Neighbors, Neighbors
<1> QED
  BY <1>2, <1>4, <1>6 DEF Abstract!Allocation, Abstract!Vertices, Abstract!Locations, Locations

\* A step of the function is a step or a stutter of the abstract call.
LEMMA StepRefines ==
    IInv /\ IInv' /\ [Next]_vars
    => [Abstract!Next]_<<input, pc = "done", IF pc = "done" THEN env ELSE EmptyGraph>>
<1> SUFFICES ASSUME IInv, IInv', [Next]_vars
             PROVE  [Abstract!Next]_<<input, pc = "done", IF pc = "done" THEN env ELSE EmptyGraph>>
  OBVIOUS
<1>1. CASE Return
  <2>1. pc = "select" /\ pc' = "done" /\ UNCHANGED input
    BY <1>1 DEF Return
  <2>2. Abstract!Allocation(env', input)
    BY <1>1, AnswerIsAllocation
  <2> QED
    BY <2>1, <2>2 DEF Abstract!Next, Abstract!Answer
<1>2. CASE UNCHANGED vars
  BY <1>2 DEF vars
<1>3. CASE Simplify \/ PushMaxDegree \/ StartSelect \/ Color \/ SpillAndRestart
  <2>1. pc # "done" /\ pc' # "done" /\ UNCHANGED input
    BY <1>3 DEF Simplify, PushMaxDegree, StartSelect, Color, SpillAndRestart
  <2> QED
    BY <2>1
<1> QED
  BY <1>1, <1>2, <1>3 DEF Next, Returned

\* For every set of variables and registers, allocate_registers answers at most
\* once, and with an allocation of the graph it was given: every variable has a
\* place, interfering ones different places, and the spill slots are dense.
THEOREM Refinement == Spec => ImplementsAllocSpec
<1>1. Init => Abstract!Init
  <2>1. GraphsOver(Var) = Abstract!GraphsOver(Var)
    BY DEF GraphsOver, Abstract!GraphsOver, GraphOf, Abstract!GraphOf
  <2> QED
    BY <2>1 DEF Init, Abstract!Init, EmptyGraph, Abstract!EmptyGraph
<1> QED
  BY <1>1, Invariance, StepRefines, PTL DEF Spec, ImplementsAllocSpec, Abstract!Spec

-----------------------------------------------------------------------------
(* Spilling.                                                                *)

\* A vertex without a colour to take has k coloured neighbours or more.
LEMMA NoColourLeft ==
    ASSUME IInv, NEW v, RegsAvail(v) = {}
    PROVE  /\ k \in Nat
           /\ k <= Cardinality(Neighbors(conflicts, v) \cap DOMAIN envTry)
<1> DEFINE nbrs == Neighbors(conflicts, v) \cap DOMAIN envTry
           f == [w \in nbrs |-> envTry[w]]
<1>1. RegsConf(v) = Registers
  BY DEF RegsAvail, RegsConf, IInv, TypeOK
<1>2. {envTry[w] : w \in nbrs} = Registers
  BY <1>1 DEF RegsConf
<1>3. IsFiniteSet(nbrs)
  BY VarAssumption, FS_Subset DEF IInv, TypeOK
<1> HIDE DEF nbrs
<1>4. f \in Surjection(nbrs, Registers)
  BY <1>2 DEF Surjection
<1> HIDE DEF f
<1>5. k <= Cardinality(nbrs)
  BY <1>3, <1>4, FS_Surjection DEF k
<1>6. k \in Nat
  BY RegistersAssumption, FS_CardinalityType DEF k
<1> QED
  BY <1>5, <1>6 DEF nbrs

\* The victim of a spill has at least k conflicts.
LEMMA VictimStep ==
    ASSUME IInv, SpillAndRestart, NEW v \in DOMAIN env' \ DOMAIN env
    PROVE  Degree(conflicts, v) >= k
<1>1. PICK i \in 1 .. Len(stack) :
          /\ IsVictimIndex(i)
          /\ env' = [u \in DOMAIN env \cup {stack[i]} |->
                        IF u = stack[i] THEN SpillLoc(spillCnt) ELSE env[u]]
  BY DEF SpillAndRestart
<1>2. v = stack[i]
  BY <1>1
<1>3. stack # <<>> /\ RegsAvail(StackTop) = {} /\ Len(stack) \in 1 .. Len(stack)
  <2>1. stack \in Seq(Var) /\ stack # <<>>
    BY DEF IInv, TypeOK, SpillAndRestart
  <2> QED
    BY <2>1, PopStack DEF SpillAndRestart
<1>4. Degree(conflicts, StackTop) <= Degree(conflicts, v)
  BY <1>1, <1>2, <1>3 DEF IsVictimIndex, StackTop
<1>5. /\ k \in Nat
      /\ k <= Cardinality(Neighbors(conflicts, StackTop) \cap DOMAIN envTry)
  BY <1>3, NoColourLeft
<1>6. \A u : IsFiniteSet(Neighbors(conflicts, u))
  <2>1. \A u : Neighbors(conflicts, u) \subseteq Var
    BY DEF Neighbors, IInv, TypeOK
  <2> QED
    BY <2>1, VarAssumption, FS_Subset
<1>7. Cardinality(Neighbors(conflicts, StackTop) \cap DOMAIN envTry)
         <= Cardinality(Neighbors(conflicts, StackTop))
  BY <1>6, FS_Intersection
<1>8. /\ Cardinality(Neighbors(conflicts, StackTop) \cap DOMAIN envTry) \in Nat
      /\ Degree(conflicts, StackTop) \in Nat /\ Degree(conflicts, v) \in Nat
  BY <1>6, FS_CardinalityType, FS_Intersection DEF Degree
<1> QED
  BY <1>4, <1>5, <1>7, <1>8 DEF Degree

\* For every graph and register set: only a variable with at least as many
\* conflicts as there are registers is ever spilled (compile.rs:1077-1089).
THEOREM VictimHasHighDegree == Spec => SpillVictimHighDegree
<1>1. IInv /\ [Next]_vars
      => [\A v \in DOMAIN env' \ DOMAIN env :
             env'[v].loc = "Spill" => Degree(conflicts, v) >= k]_vars
  <2> SUFFICES ASSUME IInv, Next, NEW v \in DOMAIN env' \ DOMAIN env, env'[v].loc = "Spill"
               PROVE  Degree(conflicts, v) >= k
    BY DEF vars
  <2>1. CASE SpillAndRestart
    BY <2>1, VictimStep
  <2>2. CASE Return
    BY <2>2 DEF Return, RegLoc
  <2>3. CASE Simplify \/ PushMaxDegree \/ StartSelect \/ Color \/ UNCHANGED vars
    BY <2>3 DEF Simplify, PushMaxDegree, StartSelect, Color, vars
  <2> QED
    BY <2>1, <2>2, <2>3 DEF Next, Returned
<1> QED
  BY <1>1, Invariance, PTL DEF Spec, SpillVictimHighDegree

-----------------------------------------------------------------------------
(* Rounds end.                                                              *)

\* Taking a vertex out of a finite graph leaves one vertex fewer.
LEMMA OneVertexFewer ==
    ASSUME NEW h, DOMAIN h \subseteq Var, NEW v \in DOMAIN h
    PROVE  /\ NumVertices(h) \in Nat /\ NumVertices(RemoveVertex(h, v)) \in Nat
           /\ NumVertices(RemoveVertex(h, v)) = NumVertices(h) - 1
<1>1. IsFiniteSet(DOMAIN h)
  BY VarAssumption, FS_Subset
<1>2. DOMAIN RemoveVertex(h, v) = DOMAIN h \ {v}
  BY DEF RemoveVertex
<1> QED
  BY <1>1, <1>2, FS_RemoveElement, FS_CardinalityType DEF NumVertices

\* The measures of a state are numbers.
LEMMA MeasuresType ==
    ASSUME IInv
    PROVE  /\ NumVertices(g) \in Nat /\ NumVertices(conflicts) \in Nat
           /\ Len(stack) \in Nat /\ RoundLeft \in Nat
<1>1. IsFiniteSet(DOMAIN g) /\ IsFiniteSet(DOMAIN conflicts)
  BY VarAssumption, FS_Subset DEF IInv, TypeOK
<1>2. NumVertices(g) \in Nat /\ NumVertices(conflicts) \in Nat
  BY <1>1, FS_CardinalityType DEF NumVertices
<1>3. Len(stack) \in Nat /\ pc \in {"simplify", "select", "done"}
  BY LenProperties DEF IInv, TypeOK
<1> QED
  BY <1>2, <1>3 DEF RoundLeft

\* A turn of the simplify loop: one vertex fewer to take, one more to colour.
LEMMA TakeNearer ==
    ASSUME IInv, pc = "simplify", NEW node \in Vertices(g), Take(node),
           UNCHANGED <<input, conflicts, envTry, env, spillCnt, pc>>
    PROVE  conflicts' = conflicts /\ RoundLeft' < RoundLeft
<1>1. node \in Var /\ node \in DOMAIN g /\ DOMAIN g \subseteq Var /\ stack \in Seq(Var)
  BY DEF IInv, TypeOK, Vertices
<1>2. Len(stack') = Len(stack) + 1
  BY <1>1, PushStack DEF Take
<1>3. NumVertices(g) \in Nat /\ NumVertices(g') = NumVertices(g) - 1
  BY <1>1, OneVertexFewer DEF Take
<1> QED
  BY <1>2, <1>3, MeasuresType DEF RoundLeft

\* A round that is thrown away leaves a smaller graph to the next.
LEMMA SpillShrinks ==
    ASSUME IInv, SpillAndRestart
    PROVE  NumVertices(conflicts') < NumVertices(conflicts)
<1>1. PICK i \in 1 .. Len(stack) : conflicts' = RemoveVertex(conflicts, stack[i])
  BY DEF SpillAndRestart
<1>2. stack[i] \in DOMAIN conflicts
  BY ConflictsShape DEF OnStack
<1>3. DOMAIN conflicts \subseteq Var
  BY DEF IInv, TypeOK
<1>4. NumVertices(conflicts') = NumVertices(conflicts) - 1 /\ NumVertices(conflicts) \in Nat
  BY <1>1, <1>2, <1>3, OneVertexFewer
<1> QED
  BY <1>4

\* For every graph and register set, and whatever rand picks: each step brings the
\* round nearer to its end or abandons it for one on a smaller graph, so that
\* only finitely many can follow (compile.rs:1007-1091).
THEOREM RoundsAlwaysEnd == Spec => RoundsEnd
<1> DEFINE Nearer == conflicts' = conflicts /\ RoundLeft' < RoundLeft
           Smaller == NumVertices(conflicts') < NumVertices(conflicts)
           Typed == NumVertices(conflicts) \in Nat /\ RoundLeft \in Nat
<1>1. IInv /\ [Next]_vars => [Typed /\ (Smaller \/ Nearer)]_vars
  <2> SUFFICES ASSUME IInv, Next, ~(UNCHANGED vars) PROVE Typed /\ (Smaller \/ Nearer)
    OBVIOUS
  <2>1. Typed /\ Len(stack) \in Nat
    BY MeasuresType
  <2>2. CASE Simplify
    <3>1. PICK node \in LowDegree : Take(node)
      BY <2>2 DEF Simplify
    <3> QED
      BY <2>1, <2>2, <3>1, TakeNearer DEF Simplify, LowDegree
  <2>3. CASE PushMaxDegree
    <3>1. PICK node \in MostConflicting : Take(node)
      BY <2>3 DEF PushMaxDegree
    <3> QED
      BY <2>1, <2>3, <3>1, TakeNearer DEF PushMaxDegree, MostConflicting
  <2>4. CASE StartSelect
    BY <2>1, <2>4 DEF StartSelect, RoundLeft
  <2>5. CASE Color
    <3>1. stack \in Seq(Var) /\ stack # <<>>
      BY <2>5 DEF Color, IInv, TypeOK
    <3>2. Len(stack') = Len(stack) - 1
      BY <2>5, <3>1, PopStack DEF Color, StackPopped
    <3> QED
      BY <2>1, <2>5, <3>2 DEF Color, RoundLeft
  <2>6. CASE SpillAndRestart
    BY <2>1, <2>6, SpillShrinks
  <2>7. CASE Return
    BY <2>1, <2>7 DEF Return, RoundLeft
  <2> QED
    BY <2>2, <2>3, <2>4, <2>5, <2>6, <2>7 DEF Next, Returned
<1> QED
  BY <1>1, Invariance, PTL DEF Spec, RoundsEnd

-----------------------------------------------------------------------------
(* Graphs that come apart are never spilled.                                *)

\* The vertices that will have left the stack, or left the graph, after the
\* vertex at depth i: those whose colours it may have to avoid
Later(i) ==
    Vertices(g) \cup {stack[j] : j \in (i + 1) .. Len(stack)} \cup DOMAIN envTry

\* Each vertex on the stack had fewer than k neighbours left when it was taken
LowWhenTaken ==
    \A i \in 1 .. Len(stack) :
        Cardinality(Neighbors(conflicts, stack[i]) \cap Later(i)) < k

NoSpillInv == Degenerate(input) => spillCnt = 0 /\ LowWhenTaken

\* As long as nothing is spilled, the graph is the input.
LEMMA NothingSpilled ==
    ASSUME IInv, spillCnt = 0
    PROVE  /\ SpilledVars = {}
           /\ DOMAIN conflicts = DOMAIN input
           /\ \A v \in DOMAIN input : conflicts[v] = input[v]
<1>1. SpilledVars = {}
  <2>1. {env[v].n : v \in SpilledVars} = {}
    BY DEF IInv, SpillSlotsDense
  <2> QED
    BY <2>1
<1> QED
  BY <1>1 DEF IInv, GraphsAgree, InducedWithout

\* Taking a vertex of low degree.
LEMMA TakeLow ==
    ASSUME IInv, LowWhenTaken, Simplify
    PROVE  LowWhenTaken'
<1>1. PICK node \in LowDegree : Take(node)
  BY DEF Simplify
<1>2. /\ node \in Vertices(g) /\ Degree(g, node) < k
      /\ pc = "simplify" /\ UNCHANGED <<input, conflicts, envTry, env, spillCnt, pc>>
  BY DEF LowDegree, Simplify
<1>3. /\ DOMAIN envTry = {}
      /\ stack \in Seq(Var) /\ Len(stack) \in Nat /\ node \in Var
  BY <1>2, LenProperties DEF IInv, Accounted, TypeOK, Vertices
<1>4. /\ Len(stack') = Len(stack) + 1
      /\ \A i \in 1 .. Len(stack) : stack'[i] = stack[i]
      /\ stack'[Len(stack) + 1] = node
  BY <1>1, <1>3, PushStack DEF Take
<1>5. Vertices(g') = Vertices(g) \ {node}
  BY <1>1 DEF Take, RemoveVertex, Vertices
<1>6. ASSUME NEW i \in 1 .. Len(stack)
      PROVE  Later(i)' = Later(i)
  <2>1. (i + 1) .. Len(stack') = ((i + 1) .. Len(stack)) \cup {Len(stack) + 1}
    BY <1>3, <1>4
  <2>2. \A j \in (i + 1) .. Len(stack) : stack'[j] = stack[j]
    BY <1>3, <1>4
  <2>3. {stack'[j] : j \in (i + 1) .. Len(stack')}
           = {stack[j] : j \in (i + 1) .. Len(stack)} \cup {node}
    BY <1>4, <2>1, <2>2
  <2> QED
    BY <1>2, <1>5, <2>3 DEF Later
<1>7. ASSUME NEW i, i = Len(stack) + 1
      PROVE  Cardinality(Neighbors(conflicts, node) \cap Later(i)') < k
  <2>1. \A j \in (i + 1) .. Len(stack') : FALSE
    BY <1>3, <1>4, <1>7
  <2>2. Later(i)' = Vertices(g) \ {node}
    BY <1>2, <1>3, <1>4, <1>5, <2>1 DEF Later
  <2>3. g[node] = conflicts[node] \ OnStack /\ Vertices(g) \cap OnStack = {}
        /\ node \in DOMAIN conflicts
    BY <1>2, <1>3 DEF IInv, GraphsAgree, InducedWithout, Accounted, Vertices
  <2>4. Neighbors(conflicts, node) \cap Later(i)' \subseteq Neighbors(g, node)
    BY <1>2, <2>2, <2>3 DEF Neighbors, Vertices
  <2>5. IsFiniteSet(Neighbors(g, node))
    BY VarAssumption, FS_Subset DEF Neighbors, IInv, TypeOK
  <2> DEFINE S == Neighbors(conflicts, node) \cap Later(i)'
  <2>6. IsFiniteSet(S) /\ Cardinality(S) <= Degree(g, node)
    BY <2>4, <2>5, FS_Subset DEF Degree
  <2>7. k \in Nat /\ Degree(g, node) \in Nat /\ Cardinality(S) \in Nat
    BY <2>5, <2>6, RegistersAssumption, FS_CardinalityType DEF k, Degree
  <2> HIDE DEF S
  <2>8. Cardinality(S) < k
    BY <1>2, <2>6, <2>7
  <2> QED
    BY <2>8 DEF S
<1>8. ASSUME NEW i \in 1 .. Len(stack')
      PROVE  Cardinality(Neighbors(conflicts', stack'[i]) \cap Later(i)') < k
  <2>1. i \in 1 .. Len(stack) \/ i = Len(stack) + 1
    BY <1>3, <1>4
  <2>2. CASE i \in 1 .. Len(stack)
    BY <1>2, <1>4, <1>6, <2>2 DEF LowWhenTaken
  <2>3. CASE i = Len(stack) + 1
    BY <1>2, <1>4, <1>7, <2>3
  <2> QED
    BY <2>1, <2>2, <2>3
<1> QED
  BY <1>8 DEF LowWhenTaken

\* A graph that comes apart always has a vertex of low degree left.
LEMMA LowDegreeLeft ==
    ASSUME IInv, spillCnt = 0, Degenerate(input), pc = "simplify", NumVertices(g) > 0
    PROVE  LowDegree # {}
<1>1. Vertices(g) # {}
  BY FS_EmptySet DEF NumVertices, Vertices
<1>2. DOMAIN envTry = {} /\ SpilledVars = {}
  BY NothingSpilled DEF IInv, Accounted
<1>3. /\ Vertices(g) \subseteq Vertices(input)
      /\ Vertices(input) = Vertices(g) \cup OnStack
      /\ \A v \in Vertices(g) : g[v] = input[v] \ OnStack
      /\ Vertices(g) \cap OnStack = {}
  BY <1>2, NothingSpilled
     DEF IInv, Accounted, GraphsAgree, InducedWithout, Vertices
<1>4. PICK v \in Vertices(g) : Cardinality(input[v] \cap Vertices(g)) < k
  BY <1>1, <1>3 DEF Degenerate
<1>5. input[v] \cap Vertices(g) = g[v]
  BY <1>3, <1>4 DEF IInv, GraphsAgree, ClosedGraph, Vertices
<1>6. Degree(g, v) < k
  BY <1>4, <1>5 DEF Degree, Neighbors, Vertices
<1> QED
  BY <1>4, <1>6 DEF LowDegree

\* Colouring the top of the stack.
LEMMA ColorLow ==
    ASSUME IInv, LowWhenTaken, Color
    PROVE  LowWhenTaken'
<1>1. stack # <<>> /\ stack \in Seq(Var) /\ UNCHANGED <<conflicts, g>>
      /\ stack' = StackPopped
  BY DEF Color, IInv, TypeOK
<1>2. /\ Len(stack) \in Nat \ {0}
      /\ Len(stack') = Len(stack) - 1
      /\ \A i \in 1 .. Len(stack') : stack'[i] = stack[i]
  BY <1>1, PopStack DEF StackPopped
<1>3. DOMAIN envTry' = DOMAIN envTry \cup {stack[Len(stack)]}
  BY DEF Color, StackTop
<1>4. ASSUME NEW i \in 1 .. Len(stack')
      PROVE  Later(i)' = Later(i)
  <2>1. (i + 1) .. Len(stack) = ((i + 1) .. Len(stack')) \cup {Len(stack)}
    BY <1>2
  <2>2. \A j \in (i + 1) .. Len(stack') : stack'[j] = stack[j]
    BY <1>2
  <2>3. {stack[j] : j \in (i + 1) .. Len(stack)}
           = {stack'[j] : j \in (i + 1) .. Len(stack')} \cup {stack[Len(stack)]}
    BY <2>1, <2>2
  <2> QED
    BY <1>1, <1>3, <2>3 DEF Later
<1>5. \A i \in 1 .. Len(stack') : i \in 1 .. Len(stack)
  BY <1>2
<1> QED
  BY <1>1, <1>2, <1>4, <1>5 DEF LowWhenTaken

\* Each vertex on the stack will find a colour.
LEMMA LowNeverSpills ==
    ASSUME IInv, LowWhenTaken, SpillAndRestart
    PROVE  FALSE
<1>1. stack # <<>> /\ stack \in Seq(Var) /\ RegsAvail(StackTop) = {} /\ pc = "select"
  BY DEF SpillAndRestart, IInv, TypeOK
<1>2. Len(stack) \in 1 .. Len(stack) /\ \A j \in (Len(stack) + 1) .. Len(stack) : FALSE
  BY <1>1, PopStack
<1>3. Vertices(g) = {}
  BY <1>1 DEF IInv, Accounted
<1>4. Later(Len(stack)) = DOMAIN envTry
  BY <1>2, <1>3 DEF Later
<1>5. Cardinality(Neighbors(conflicts, StackTop) \cap DOMAIN envTry) < k
  BY <1>2, <1>4 DEF LowWhenTaken, StackTop
<1>6. /\ k \in Nat
      /\ k <= Cardinality(Neighbors(conflicts, StackTop) \cap DOMAIN envTry)
  BY <1>1, NoColourLeft
<1>7. Cardinality(Neighbors(conflicts, StackTop) \cap DOMAIN envTry) \in Nat
  <2>1. IsFiniteSet(Neighbors(conflicts, StackTop) \cap DOMAIN envTry)
    BY VarAssumption, FS_Subset DEF IInv, TypeOK
  <2> QED
    BY <2>1, FS_CardinalityType
<1> QED
  BY <1>5, <1>6, <1>7

\* The strengthening is inductive.
LEMMA NextNoSpill == IInv /\ NoSpillInv /\ [Next]_vars => NoSpillInv'
<1>0. [Next]_vars => input' = input
  BY DEF Next, Simplify, PushMaxDegree, StartSelect, Color, SpillAndRestart,
         Return, Returned, vars
<1> SUFFICES ASSUME IInv, spillCnt = 0, LowWhenTaken, [Next]_vars, Degenerate(input)
             PROVE  spillCnt' = 0 /\ LowWhenTaken'
  BY <1>0 DEF NoSpillInv
<1>1. CASE Simplify
  BY <1>1, TakeLow DEF Simplify
<1>2. CASE PushMaxDegree
  BY <1>2, LowDegreeLeft DEF PushMaxDegree
<1>3. CASE StartSelect
  <2>1. DOMAIN envTry = {} /\ DOMAIN envTry' = {}
    BY <1>3 DEF StartSelect, IInv, Accounted, NoLocations
  <2>2. \A i : Later(i)' = Later(i)
    BY <1>3, <2>1 DEF StartSelect, Later
  <2> QED
    BY <1>3, <2>2 DEF StartSelect, LowWhenTaken
<1>4. CASE Color
  BY <1>4, ColorLow DEF Color
<1>5. CASE SpillAndRestart
  BY <1>5, LowNeverSpills
<1>6. CASE Return \/ UNCHANGED vars
  <2>1. UNCHANGED <<conflicts, g, stack, envTry, spillCnt>>
    BY <1>6 DEF Return, vars
  <2>2. \A i : Later(i)' = Later(i)
    BY <2>1 DEF Later
  <2> QED
    BY <2>1, <2>2 DEF LowWhenTaken
<1> QED
  BY <1>1, <1>2, <1>3, <1>4, <1>5, <1>6 DEF Next, Returned

\* For every conflict graph that can be taken apart below k neighbours, and
\* whatever the random choices, no variable is spilled (compile.rs:1016-1049).
THEOREM DegenerateNeverSpills == Spec => []NoSpillIfDegenerate
<1>1. Init => NoSpillInv
  <2> SUFFICES ASSUME Init PROVE spillCnt = 0 /\ LowWhenTaken
    BY DEF NoSpillInv
  <2>1. \A i \in 1 .. Len(stack) : FALSE
    BY EmptySeq DEF Init
  <2> QED
    BY <2>1 DEF Init, LowWhenTaken
<1>2. NoSpillInv => NoSpillIfDegenerate
  BY DEF NoSpillInv, NoSpillIfDegenerate
<1> QED
  BY <1>1, <1>2, Invariance, NextNoSpill, PTL DEF Spec
=============================================================================
