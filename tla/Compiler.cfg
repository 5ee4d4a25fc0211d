SPECIFICATION Spec
CONSTANTS
    MaxInt = 3
    Fuel = 6
    MaxSlots = 2
    Registers <- TwoRegisters
    Programs <- MCPrograms
INVARIANTS
    AcceptsExactlyWellFormed
    MeaningPreserved
    UniqueNames
    SoundAnalyses
    OnlyPrintStackPanics
    PlacesPreserveMeaning
