CONSTANTS
    Clients = {c1, c2}
    Sprint = {s1, s2}
    Task = {t1, t2}
    Hierarchies <- AtMostOneSubtask
    NoTask = NoTask
    NoSprint = NoSprint
    NoOp = NoOp
    MaxDrift = 1
SPECIFICATION Spec
CHECK_DEADLOCK FALSE
SYMMETRY Symmetry
INVARIANTS
    LiveMembershipAgrees
PROPERTIES
    OnlyNamedRequestsLeak
