SPECIFICATION Spec
CONSTANTS
    Vars = {x, y}
    Params = {x}
    LoopVars = {y}
    Lets = {y}
    Args = {v1, v2}
    Locals = {w1}
    Unbound = Unbound
    MaxEnvs = 5
    MaxClosures = 3
    MaxFrames = 3
SYMMETRY MCSymmetry
CHECK_DEADLOCK FALSE
INVARIANTS
    TypeOK
    CapturesStableOutsideLoops
    ActivationsIsolated
    ScratchExclusive
