----------------------------- MODULE GraphProofs -----------------------------
(***************************************************************************)
(* The adjacency map of graph.rs stays consistent and acts as a set of     *)
(* vertices and a set of edges, for any names.                             *)
(***************************************************************************)
EXTENDS GraphStore, TLAPS

\* g is a map from some of the names to sets of them, kept on both sides
Typed ==
    /\ DOMAIN g \subseteq Vertex
    /\ g \in [DOMAIN g -> SUBSET Vertex]

IInv == Typed /\ Undirected

LEMMA InitIInv == Init => IInv
  BY DEF Init, IInv, Typed, EmptyGraph, Undirected, ClosedGraph, UndirectedGraph, LoopFree

LEMMA InsertVertexIInv ==
  ASSUME IInv, NEW v \in Vertex, DoInsertVertex(v) PROVE IInv'
  BY DEF IInv, Typed, DoInsertVertex, InsertVertex, Neighbors,
         Undirected, ClosedGraph, UndirectedGraph, LoopFree

\* What insert_edge leaves at each vertex
LEMMA InsertEdgeValue ==
  ASSUME NEW v1 \in Vertex, NEW v2 \in Vertex \ {v1}, IInv, DoInsertEdge(v1, v2)
  PROVE  /\ DOMAIN g' = DOMAIN g \cup {v1, v2}
         /\ g' \in [DOMAIN g' -> SUBSET Vertex]
         /\ \A w \in DOMAIN g' :
               g'[w] = Neighbors(g, w) \cup (IF w = v1 THEN {v2} ELSE IF w = v2 THEN {v1} ELSE {})
<1> DEFINE h == InsertVertex(InsertVertex(g, v1), v2)
<1>1. h = [w \in DOMAIN g \cup {v1, v2} |-> Neighbors(g, w)]
  BY DEF InsertVertex, Neighbors
<1>2. \A w : Neighbors(g, w) \subseteq Vertex
  BY DEF Neighbors, IInv, Typed
<1>3. g' = [h EXCEPT ![v1] = @ \cup {v2}, ![v2] = @ \cup {v1}]
  BY DEF DoInsertEdge, InsertEdge
<1> HIDE DEF h
<1>4. h[v1] = Neighbors(g, v1) /\ h[v2] = Neighbors(g, v2) /\ v1 # v2
  BY <1>1
<1>5. DOMAIN g' = DOMAIN g \cup {v1, v2}
  BY <1>1, <1>3
<1>6. ASSUME NEW w \in DOMAIN g \cup {v1, v2}
      PROVE  /\ g'[w] = Neighbors(g, w) \cup (IF w = v1 THEN {v2} ELSE IF w = v2 THEN {v1} ELSE {})
             /\ g'[w] \subseteq Vertex
  <2>1. CASE w = v1
    BY <1>1, <1>2, <1>3, <1>4, <2>1
  <2>2. CASE w = v2
    BY <1>1, <1>2, <1>3, <1>4, <2>2
  <2>3. CASE w # v1 /\ w # v2
    BY <1>1, <1>2, <1>3, <2>3
  <2> QED
    BY <2>1, <2>2, <2>3
<1>7. g' \in [DOMAIN g' -> SUBSET Vertex]
  <2>1. g' = [w \in DOMAIN g' |-> g'[w]]
    BY <1>3
  <2> QED
    BY <1>5, <1>6, <2>1
<1> QED
  BY <1>5, <1>6, <1>7

LEMMA InsertEdgeIInv ==
  ASSUME NEW v1 \in Vertex, NEW v2 \in Vertex \ {v1}, IInv, DoInsertEdge(v1, v2)
  PROVE  IInv'
<1> DEFINE added(w) == IF w = v1 THEN {v2} ELSE IF w = v2 THEN {v1} ELSE {}
<1>1. /\ DOMAIN g' = DOMAIN g \cup {v1, v2}
      /\ g' \in [DOMAIN g' -> SUBSET Vertex]
      /\ \A w \in DOMAIN g' : g'[w] = Neighbors(g, w) \cup added(w)
  BY InsertEdgeValue
<1>2. \A w : w \in DOMAIN g => Neighbors(g, w) = g[w]
  BY DEF Neighbors
<1>3. \A w : w \notin DOMAIN g => Neighbors(g, w) = {} /\ \A u \in DOMAIN g : w \notin g[u]
  BY DEF Neighbors, IInv, Undirected, ClosedGraph
<1>4. Typed'
  BY <1>1 DEF IInv, Typed
<1>5. ClosedGraph(g)'
  BY <1>1, <1>2, <1>3 DEF IInv, Undirected, ClosedGraph
<1>6. LoopFree(g)'
  BY <1>1, <1>2, <1>3 DEF IInv, Undirected, LoopFree
<1>7. ASSUME NEW a \in DOMAIN g', NEW b \in DOMAIN g' PROVE a \in g'[b] <=> b \in g'[a]
  <2>1. a \in Neighbors(g, b) <=> b \in Neighbors(g, a)
    <3>1. CASE a \in DOMAIN g /\ b \in DOMAIN g
      BY <3>1, <1>2 DEF IInv, Undirected, UndirectedGraph
    <3>2. CASE a \notin DOMAIN g \/ b \notin DOMAIN g
      BY <3>2, <1>2, <1>3 DEF Neighbors
    <3> QED
      BY <3>1, <3>2
  <2>2. a \in added(b) <=> b \in added(a)
    OBVIOUS
  <2> QED
    BY <1>1, <1>7, <2>1, <2>2
<1> QED
  BY <1>4, <1>5, <1>6, <1>7 DEF IInv, Undirected, UndirectedGraph

LEMMA RemoveVertexIInv ==
  ASSUME IInv, NEW v \in Vertex, DoRemoveVertex(v) PROVE IInv'
  BY DEF IInv, Typed, DoRemoveVertex, RemoveVertex,
         Undirected, ClosedGraph, UndirectedGraph, LoopFree

LEMMA StepIInv == ASSUME IInv, [Next]_vars PROVE IInv'
<1>1. CASE UNCHANGED vars
  BY <1>1 DEF vars, IInv, Typed, Undirected, ClosedGraph, UndirectedGraph, LoopFree
<1>2. CASE Next
  BY <1>2, InsertVertexIInv, InsertEdgeIInv, RemoveVertexIInv DEF Next
<1> QED
  BY <1>1, <1>2

LEMMA Invariance == Spec => []IInv
  BY InitIInv, StepIInv, PTL DEF Spec

\* The map is closed, symmetric and without loops after any methods.
THEOREM StaysUndirected == Spec => []Undirected
<1>1. IInv => Undirected
  BY DEF IInv
<1> QED
  BY <1>1, Invariance, PTL

-----------------------------------------------------------------------------
(* The refinement.                                                          *)

\* The edges of the mapping
EdgeSet == {{p[1], p[2]} : p \in {q \in Vertex \X Vertex : ContainsEdge(g, q[1], q[2])}}

\* An edge of the map is a pair of names one of which has the other for a neighbour
LEMMA EdgesAre ==
  ASSUME NEW v \in Vertex, NEW w \in Vertex, IInv
  PROVE  {v, w} \in EdgeSet <=> ContainsEdge(g, v, w)
<1>1. ContainsEdge(g, v, w) <=> ContainsEdge(g, w, v)
  BY DEF ContainsEdge, Neighbors, IInv, Typed, Undirected, ClosedGraph, UndirectedGraph
<1>2. ASSUME ContainsEdge(g, v, w) PROVE {v, w} \in EdgeSet
  <2>1. <<v, w>> \in {q \in Vertex \X Vertex : ContainsEdge(g, q[1], q[2])}
    BY <1>2
  <2>2. {<<v, w>>[1], <<v, w>>[2]} = {v, w}
    OBVIOUS
  <2> QED
    BY <2>1, <2>2 DEF EdgeSet
<1>3. ASSUME {v, w} \in EdgeSet PROVE ContainsEdge(g, v, w)
  <2>1. PICK a \in Vertex, b \in Vertex : ContainsEdge(g, a, b) /\ {v, w} = {a, b}
    BY <1>3 DEF EdgeSet
  <2>2. (v = a /\ w = b) \/ (v = b /\ w = a)
    BY <2>1
  <2> QED
    BY <2>1, <2>2, <1>1
<1> QED
  BY <1>2, <1>3

LEMMA EdgeSetInit == Init => Vertices(g) = {} /\ EdgeSet = {}
  BY DEF Init, EmptyGraph, Vertices, EdgeSet, ContainsEdge, Neighbors

LEMMA InsertVertexRefines ==
  ASSUME IInv, NEW v \in Vertex, DoInsertVertex(v)
  PROVE  Vertices(g)' = Vertices(g) \cup {v} /\ EdgeSet' = EdgeSet
<1>1. \A w : Neighbors(g, w)' = Neighbors(g, w)
  BY DEF DoInsertVertex, InsertVertex, Neighbors
<1>2. EdgeSet' = EdgeSet
  BY <1>1 DEF EdgeSet, ContainsEdge
<1> QED
  BY <1>2 DEF DoInsertVertex, InsertVertex, Vertices

LEMMA RemoveVertexRefines ==
  ASSUME IInv, NEW v \in Vertex, DoRemoveVertex(v)
  PROVE  /\ Vertices(g)' = Vertices(g) \ {v}
         /\ EdgeSet' = {e \in EdgeSet : v \notin e}
<1>1. \A a, b : ContainsEdge(g, a, b)' <=> ContainsEdge(g, a, b) /\ a # v /\ b # v
  BY DEF DoRemoveVertex, RemoveVertex, ContainsEdge, Neighbors, IInv, Undirected, ClosedGraph
<1>2. EdgeSet' = {{p[1], p[2]} : p \in {q \in Vertex \X Vertex :
                    ContainsEdge(g, q[1], q[2]) /\ q[1] # v /\ q[2] # v}}
  BY <1>1 DEF EdgeSet, ContainsEdge
<1>3. EdgeSet' = {e \in EdgeSet : v \notin e}
  BY <1>2 DEF EdgeSet
<1> QED
  BY <1>3 DEF DoRemoveVertex, RemoveVertex, Vertices

LEMMA InsertEdgeRefines ==
  ASSUME IInv, NEW v \in Vertex, NEW w \in Vertex \ {v}, DoInsertEdge(v, w)
  PROVE  /\ Vertices(g)' = Vertices(g) \cup {v, w}
         /\ EdgeSet' = EdgeSet \cup {{v, w}}
<1> DEFINE added(u) == IF u = v THEN {w} ELSE IF u = w THEN {v} ELSE {}
<1>1. /\ DOMAIN g' = DOMAIN g \cup {v, w}
      /\ \A u \in DOMAIN g' : g'[u] = Neighbors(g, u) \cup added(u)
  BY InsertEdgeValue
<1>2. ASSUME NEW a \in Vertex, NEW b \in Vertex
      PROVE  ContainsEdge(g, a, b)' <=> ContainsEdge(g, a, b) \/ {a, b} = {v, w}
  <2>1. CASE a \in DOMAIN g'
    <3>1. Neighbors(g, a)' = Neighbors(g, a) \cup added(a)
      BY <1>1, <2>1 DEF Neighbors
    <3>2. b \in added(a) <=> {a, b} = {v, w}
      OBVIOUS
    <3> QED
      BY <3>1, <3>2 DEF ContainsEdge
  <2>2. CASE a \notin DOMAIN g'
    <3>1. Neighbors(g, a)' = {} /\ Neighbors(g, a) = {}
      BY <1>1, <2>2 DEF Neighbors
    <3>2. {a, b} # {v, w}
      BY <1>1, <2>2
    <3> QED
      BY <3>1, <3>2 DEF ContainsEdge
  <2> QED
    BY <2>1, <2>2
<1>3. EdgeSet' = {{p[1], p[2]} : p \in {q \in Vertex \X Vertex :
                    ContainsEdge(g, q[1], q[2]) \/ {q[1], q[2]} = {v, w}}}
  <2>1. {q \in Vertex \X Vertex : ContainsEdge(g, q[1], q[2])'}
          = {q \in Vertex \X Vertex : ContainsEdge(g, q[1], q[2]) \/ {q[1], q[2]} = {v, w}}
    BY <1>2
  <2> QED
    BY <2>1 DEF EdgeSet
<1>4. EdgeSet' = EdgeSet \cup {{v, w}}
  <2>1. <<v, w>> \in Vertex \X Vertex /\ {<<v, w>>[1], <<v, w>>[2]} = {v, w}
    OBVIOUS
  <2> QED
    BY <1>3, <2>1 DEF EdgeSet
<1> QED
  BY <1>1, <1>4 DEF Vertices

LEMMA StepRefines == ASSUME IInv, [Next]_vars PROVE [Abstract!Next]_<<Vertices(g), EdgeSet>>
<1>1. CASE UNCHANGED vars
  BY <1>1 DEF vars, Vertices, EdgeSet, ContainsEdge, Neighbors
<1>2. ASSUME NEW v \in Vertex, DoInsertVertex(v) PROVE Abstract!Next
  <2>1. Abstract!AddVertex(v)
    BY <1>2, InsertVertexRefines DEF Abstract!AddVertex, EdgeSet
  <2> QED
    BY <2>1 DEF Abstract!Next
<1>3. ASSUME NEW v \in Vertex, NEW w \in Vertex \ {v}, DoInsertEdge(v, w) PROVE Abstract!Next
  <2>1. Abstract!AddEdge(v, w)
    BY <1>3, InsertEdgeRefines DEF Abstract!AddEdge, EdgeSet
  <2> QED
    BY <2>1 DEF Abstract!Next
<1>4. ASSUME NEW v \in Vertex, DoRemoveVertex(v) PROVE Abstract!Next
  <2>1. Abstract!DropVertex(v)
    BY <1>4, RemoveVertexRefines DEF Abstract!DropVertex, EdgeSet
  <2> QED
    BY <2>1 DEF Abstract!Next
<1> QED
  BY <1>1, <1>2, <1>3, <1>4 DEF Next

\* The methods of Graph<V> implement the operations on a set of vertices and a
\* set of edges.
THEOREM Refinement == Spec => ImplementsAbstractGraph
<1>1. Init => Abstract!Init
  BY EdgeSetInit DEF Abstract!Init, EdgeSet
<1>2. IInv /\ [Next]_vars => [Abstract!Next]_<<Vertices(g), EdgeSet>>
  BY StepRefines
<1> QED
  BY <1>1, <1>2, Invariance, PTL DEF Spec, ImplementsAbstractGraph, Abstract!Spec, EdgeSet
=============================================================================
