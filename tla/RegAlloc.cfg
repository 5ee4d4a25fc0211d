\* Every conflict graph over a few variables.  The registers are two of the three,
\* by their ranks in asm.rs:2-19.
SPECIFICATION Spec
CONSTANTS
    Var = {v1, v2, v3, v4, v5}
    Registers = {1, 2}
INVARIANTS
    TypeOK
    GraphsAgree
    Accounted
    ProperColouring
    SpillSlotsDense
    NoSpillIfDegenerate
PROPERTIES
    SpillVictimHighDegree
    RoundsEnd
    ImplementsAllocSpec
    Termination
