SPECIFICATION Spec
CONSTANTS
    IntBits = 6
    Texts <- MCTexts
    Functions <- MCFunctions
    Builtins <- MCBuiltins
    HostResults <- MCHostResults
    MaxDepth = 3
    HasResolver = TRUE
    Resolvable <- MCResolvable
    Legacy = {"old"}
    Pipeline = {"$p"}
    Sources <- MCSources
    ArgumentMaps <- MCArgumentMaps
    Segments <- MCSegments
    Reads <- MCReads
    Compiles <- MCCompiles
    Runs <- MCRuns
CHECK_DEADLOCK FALSE
INVARIANTS
    NoUndefinedVariable
    CallsAreDependencies
    SpellingsAgree
