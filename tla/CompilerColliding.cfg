SPECIFICATION Spec
CONSTANTS
    MaxInt = 3
    Fuel = 6
    MaxSlots = 2
    Registers <- TwoRegisters
    Programs <- Colliding
INVARIANT
    MeaningPreserved
