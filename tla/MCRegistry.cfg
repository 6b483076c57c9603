SPECIFICATION Spec
CONSTANTS
    F = F
    G = G
    Names = {F, G}
    Threads = {t1, t2}
    Hosts = {h1}
    Deps <- Mutual
    InlineDeps <- Inlines
    MaxVersion = 2
    MaxDepth = 2
    LoaderMayFail = FALSE
    CanDelete = FALSE
    NoName = NoName
    Inline = Inline
SYMMETRY MCSymmetry
INVARIANTS
    NotFoundOnlyWhenDropped
    DepthBounded
    RunsPublishedVersion
