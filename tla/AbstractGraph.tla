---------------------------- MODULE AbstractGraph ----------------------------
(***************************************************************************)
(* What graph.rs promises its callers: a set of vertices and a set of      *)
(* undirected edges, an edge being the set of its two ends.                *)
(***************************************************************************)
EXTENDS FiniteSets

CONSTANT Vertex
VARIABLES verts, edges

Init == verts = {} /\ edges = {}

AddVertex(v) == verts' = verts \cup {v} /\ UNCHANGED edges

AddEdge(v, w) == verts' = verts \cup {v, w} /\ edges' = edges \cup {{v, w}}

\* A vertex takes its edges with it
DropVertex(v) ==
    /\ verts' = verts \ {v}
    /\ edges' = {e \in edges : v \notin e}

Next ==
    \/ \E v \in Vertex : AddVertex(v) \/ DropVertex(v)
    \/ \E v \in Vertex : \E w \in Vertex \ {v} : AddEdge(v, w)

Spec == Init /\ [][Next]_<<verts, edges>>
=============================================================================
