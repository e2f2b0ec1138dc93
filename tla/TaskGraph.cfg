CONSTANTS
    Task = {t1, t2, t3}
    Client = {c1, c2}
    NoTask = NoTask
    Keep = Keep
    NoOp = NoOp
    MaxDepth = 1
    MaxDeps = 1
    Combine = FALSE
SPECIFICATION Spec
SYMMETRY Symmetry
CHECK_DEADLOCK FALSE
PROPERTIES
    OnlyOverlapsCloseCycle
    OnlyOverlapsCloseParents
    OnlyOverlapsDangle
    CycleFreezesDependencies
    OnlySubtreesExceedDepth
