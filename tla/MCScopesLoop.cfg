SPECIFICATION Spec
CONSTANTS
    Vars = {x, y}
    Params = {x}
    LoopVars = {y}
    Lets = {}
    Args = {v1, v2}
    Locals = {w1}
    Unbound = Unbound
    MaxEnvs = 3
    MaxClosures = 2
    MaxFrames = 3
SYMMETRY MCSymmetry
CHECK_DEADLOCK FALSE
INVARIANTS
    CapturesStable
