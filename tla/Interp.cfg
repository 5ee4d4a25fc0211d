SPECIFICATION RunSpec
CONSTANTS
    MaxInt = 3
    Fuel = 12
    Programs <- MCPrograms
    Accepted <- MCAccepted
    Depth <- FrameDepth
    NoCalls <- CallFree
    TailOnly <- CallsInTail
INVARIANTS
    ValuesFit
    NoPanic
    TailCallsKeepStack
PROPERTIES
    ImplementsRunSpec
