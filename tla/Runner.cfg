SPECIFICATION Spec
CONSTANTS
    compiled = compiled
    failing = failing
    interpreted = interpreted
    emitting = emitting
    helping = helping
    shared = shared
    Commands = {compiled, failing, interpreted, emitting, helping}
    Dirs <- MCDirs
    Nothing = Nothing
    Garbled = Garbled
    Args <- MCArgs
    DirOf <- OwnDirs
    After <- FirstAtOnce
    Lines <- MCLines
    Succeeding <- MCSucceeding
    Ending <- Programs
    PipeSize = 1
    ShortWrites <- Cut
INVARIANTS
    TypeOK
    PrivateRunsOwn
    OutcomeReported
    LeavesNoChild
PROPERTY
    CommandsEnd
CHECK_DEADLOCK FALSE
