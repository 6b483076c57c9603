SPECIFICATION Spec
CONSTANTS
    Functions = {f, g}
    MaxDepth = 2
    Timeout = 0
    StackBound = 4
    MaxClosures = 1
    MaxClock = 0
    Root = Root
INVARIANTS
    EveryFunctionConfined
