\* 113 graphs without loops, each after a successful and after an unsuccessful removal
SPECIFICATION Spec
CONSTANTS
    Vertex = {v1, v2, v3, v4}
INVARIANTS
    Undirected
PROPERTY
    ImplementsAbstractGraph
