CONSTANTS
    Task <- Serials
    Created = 2
    IdRank <- Ids
    Columns = {"todo", "doing"}
    Client = {c1, c2}
    Unit = 2
    LowOrder <- Lowest
    HighOrder = 4
    GivenOrders = {0}
    Limited = {"doing"}
    Limits = {1}
    Requests = 5
    NoLimit = NoLimit
    NoTask = NoTask
    NoOp = NoOp
SPECIFICATION Spec
SYMMETRY Symmetry
CHECK_DEADLOCK FALSE
PROPERTIES
    OnlyLateRenumberingRevertsStatus
    OnlyOvertakenOrHiddenTie
    OnlyLateMovesExceedWip
    MoveIsInsertion
