SPECIFICATION Spec
CONSTANTS
    IntBits = 6
    Texts <- MCNoTexts
    Segments <- MCSegments
    Trees <- MCTrees
    Functions <- MCFunctions
    Styles <- MCStyles
    Phrases <- MCPhrases
    MaxTyped = 4
    Reads <- MCReads
    ReadsFunction <- MCReadsFunction
CHECK_DEADLOCK FALSE
INVARIANTS
    ReadsWhatWasWritten
    NothingLost
