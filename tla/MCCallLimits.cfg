SPECIFICATION FairSpec
CONSTANTS
    Functions = {f, g}
    MaxDepth = 3
    Timeout = 1
    StackBound = 5
    MaxClosures = 2
    MaxClock = 3
    Root = Root
INVARIANTS
    TypeOK
    DepthIsNesting
    HostContextOutsideLambdas
PROPERTIES
    NothingStartsPastDeadline
    ExecutionEnds
