SPECIFICATION MachineSpec
CONSTANTS
    MaxInt = 3
    Fuel = 8
    MaxSlots = 2
    StackWords = 71
    Registers <- MCRegisters
    Keywords <- MCKeywords
    Programs <- FewerByOne
INVARIANT
    AlignedCalls
