SPECIFICATION Spec
CONSTANTS
    Sign = Sign
    Debug = Debug
    Old = Old
    Names <- Called
    Spaces = {A, B}
    Legacy = {Old}
    Intercepted = {Debug}
    InitialKeys <- AnySign
    MaxStmts = 3
    MaxChanges = 1
    NoSpace = NoSpace
CHECK_DEADLOCK FALSE
INVARIANTS
    TypeOK
    FoundUnlessForgotten
    RunsWhatWasCompiled
