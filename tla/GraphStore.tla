------------------------------ MODULE GraphStore ------------------------------
(***************************************************************************)
(* One Graph<V> of src/src/graph.rs under any sequence of its mutating     *)
(* methods, the way conflicts_helper and allocate_registers drive it:      *)
(* edges join different vertices, a vertex may be inserted twice and one   *)
(* that is not there may be removed.                                       *)
(***************************************************************************)
EXTENDS Graph

CONSTANT Vertex              \* the names that may become vertices

VARIABLES g,                 \* the HashMap
          answer             \* what the last remove_vertex returned

vars == <<g, answer>>

Init == g = EmptyGraph /\ answer = FALSE

DoInsertVertex(v) == g' = InsertVertex(g, v) /\ UNCHANGED answer

DoInsertEdge(v1, v2) == g' = InsertEdge(g, v1, v2) /\ UNCHANGED answer

\* remove_vertex reports whether the vertex was present
DoRemoveVertex(v) ==
    /\ g' = RemoveVertex(g, v)
    /\ answer' = (v \in Vertices(g))

Next ==
    \/ \E v \in Vertex : DoInsertVertex(v)
    \/ \E v1 \in Vertex : \E v2 \in Vertex \ {v1} : DoInsertEdge(v1, v2)
    \/ \E v \in Vertex : DoRemoveVertex(v)

Spec == Init /\ [][Next]_vars

-----------------------------------------------------------------------------

\* The invariant graph.rs states of itself (lines 8-9), together with what the
\* allocator relies on when it looks a neighbour up: a neighbour is a vertex,
\* and no vertex is its own neighbour.
Undirected == ClosedGraph(g) /\ UndirectedGraph(g) /\ LoopFree(g)

\* The refinement: the map implements a set of vertices and a set of edges.
Abstract == INSTANCE AbstractGraph WITH
    verts <- Vertices(g),
    edges <- {{p[1], p[2]} : p \in
              {q \in Vertex \X Vertex : ContainsEdge(g, q[1], q[2])}}

\* Every method of Graph<V> does to the map what the abstract operation does to
\* the sets of vertices and edges (graph.rs:22-76).
ImplementsAbstractGraph == Abstract!Spec
=============================================================================
