SPECIFICATION Spec
CONSTANTS
    MaxInt = 3
    MaxTokens = 5
    MaxBlanks = 2
    StartState <- MCStartState
    Transitions <- MCTransitions
    Reductions <- MCReductions
    Items <- MCItems
    Blanks <- MCBlanks
    Identifiers <- MCIdentifiers
    Numerals <- MCNumerals
    Denotes <- MCDenotes
    Width <- MCWidth
    Trees <- MCTrees
    Offered <- MCOffered
INVARIANTS
    StacksAgree
    Deterministic
    ParsesByGrammar
    ReadsBack
    PlacesRight
PROPERTY
    Answers
CHECK_DEADLOCK FALSE
