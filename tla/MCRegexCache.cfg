SPECIFICATION FairSpec
CONSTANTS
    Callers = {c1, c2}
    Patterns = {pa, pb, pd, bad}
    ValidPatterns = {pa, pb, pd}
    PatternCacheSize = 2
    NoPattern = NoPattern
    NoCaller = NoCaller
INVARIANTS
    TypeOK
    EntriesMatchOrder
    CacheBounded
    AnswersOwnPattern
PROPERTIES
    EveryCallReturns
    ImplementsMemo
