-------------------------------- MODULE Graph --------------------------------
(***************************************************************************)
(* The undirected graphs of src/src/graph.rs.                              *)
(*                                                                         *)
(* Graph<V> { g: HashMap<V, HashSet<V>> } is a function from the vertices  *)
(* present to their sets of neighbours.  Every method is an operator that  *)
(* returns the graph the method leaves behind; a method that answers a     *)
(* question is an operator that returns the answer.  Iteration order of a  *)
(* HashMap is arbitrary, so vertices() is a set.                           *)
(***************************************************************************)
EXTENDS FiniteSets, Integers

\* Graph::new
EmptyGraph == [v \in {} |-> {}]

\* Graph::vertices
Vertices(g) == DOMAIN g

\* Graph::neighbors followed by unwrap_or(&HashSet::new()), as every caller does
Neighbors(g, v) == IF v \in DOMAIN g THEN g[v] ELSE {}

\* The number of neighbours, g.neighbors(v).unwrap_or(..).len()
Degree(g, v) == Cardinality(Neighbors(g, v))

\* Graph::insert_vertex: a vertex that is there keeps its neighbours
InsertVertexClearing(g, v) ==
    [w \in DOMAIN g \cup {v} |-> IF w = v THEN {} ELSE g[w]]
InsertVertex(g, v) ==
    [w \in DOMAIN g \cup {v} |-> Neighbors(g, w)]

\* Graph::insert_edge: both ends become vertices, each a neighbour of the other
InsertEdgeOneWay(g, v1, v2) ==
    LET h == InsertVertex(InsertVertex(g, v1), v2)
    IN  [h EXCEPT ![v1] = @ \cup {v2}]
InsertEdge(g, v1, v2) ==
    LET h == InsertVertex(InsertVertex(g, v1), v2)
    IN  [h EXCEPT ![v1] = @ \cup {v2}, ![v2] = @ \cup {v1}]

\* Graph::remove_vertex: the vertex goes, and from every set of neighbours
RemoveVertex(g, v) == [w \in DOMAIN g \ {v} |-> g[w] \ {v}]

\* Graph::num_vertices
NumVertices(g) == Cardinality(DOMAIN g)

\* Graph::contains_edge
ContainsEdge(g, v1, v2) == v2 \in Neighbors(g, v1)

-----------------------------------------------------------------------------
(* Vocabulary for statements about graphs; not code. *)

\* The map is closed: a neighbour is a vertex
ClosedGraph(g) == \A v \in DOMAIN g : g[v] \subseteq DOMAIN g

\* graph.rs:8, "v1 is in v2s set of neighbors if and only if v2 is in v1s"
UndirectedGraph(g) ==
    \A v \in DOMAIN g, w \in DOMAIN g : v \in g[w] <=> w \in g[v]

LoopFree(g) == \A v \in DOMAIN g : v \notin g[v]

\* The graph with vertices W and the edges E, an edge being the set of its ends
GraphOf(W, E) == [v \in W |-> {w \in W \ {v} : {v, w} \in E}]

\* The graphs over subsets of S that InsertVertex and InsertEdge can build
GraphsOver(S) ==
    LET Edges(W) == {{p[1], p[2]} : p \in {q \in W \X W : q[1] # q[2]}}
    IN  UNION {{GraphOf(W, E) : E \in SUBSET Edges(W)} : W \in SUBSET S}

\* The graph h is g without the vertices in W
InducedWithout(h, g, W) ==
    /\ DOMAIN h = DOMAIN g \ W
    /\ \A v \in DOMAIN h : h[v] = g[v] \ W
=============================================================================
