SPECIFICATION Spec
CONSTANTS
    IntBits = 6
    Texts <- MCTexts
    Apply <- MCApply
    MaxRange = 8
    MaxSeq = 6
    Documents <- MCDocuments
    Indices <- MCIndices
    Ways <- MCWays
    KeySets <- MCKeySets
    MaxHeld <- MCMaxHeld
    Lambdas <- MCLambdas
    Numbers <- MCNumbers
    Precise = 2
CHECK_DEADLOCK FALSE
INVARIANTS
    ValuesNeverChange
    LimitsOnlyAtEdges
    PiecesAgree
    StatisticsAgree
    PathsAnswer
