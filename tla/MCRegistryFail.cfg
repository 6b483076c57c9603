SPECIFICATION FairSpec
CONSTANTS
    F = F
    G = G
    Names = {F, G}
    Threads = {t1}
    Hosts = {h1, h2}
    Deps <- Mutual
    InlineDeps <- Inlines
    MaxVersion = 2
    MaxDepth = 1
    LoaderMayFail = TRUE
    CanDelete = TRUE
    NoName = NoName
    Inline = Inline
INVARIANTS
    TypeOK
    StaleOnlyWhenOvertaken
PROPERTIES
    ExecutionsEnd
