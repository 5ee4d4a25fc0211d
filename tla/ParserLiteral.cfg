SPECIFICATION Spec
CONSTANTS
    MaxInt = 3
    MaxTokens = 1
    MaxBlanks = 0
    StartState <- MCStartState
    Transitions <- MCTransitions
    Reductions <- MCReductions
    Items <- MCItems
    Blanks <- MCBlanks
    Identifiers <- MCIdentifiers
    Numerals <- MCNumerals
    Denotes <- MCDenotes
    Width <- MCWidth
    Trees <- MCTrees
    Offered <- OfferedWords
INVARIANT
    LiteralsReachCheck
CHECK_DEADLOCK FALSE
