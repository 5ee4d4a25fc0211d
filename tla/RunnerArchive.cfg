SPECIFICATION Spec
CONSTANTS
    compiled = compiled
    failing = failing
    interpreted = interpreted
    emitting = emitting
    helping = helping
    shared = shared
    Commands = {compiled, failing}
    Dirs <- MCDirs
    Nothing = Nothing
    Garbled = Garbled
    Args <- MCArgs
    DirOf <- OneDir
    After <- InTurn
    Lines <- MCLines
    Succeeding <- MCSucceeding
    Ending <- Programs
    PipeSize = 1
    ShortWrites = {}
INVARIANT
    ArchiveReplaced
CHECK_DEADLOCK FALSE
