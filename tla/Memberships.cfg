CONSTANTS
    User = {u1, u2, u3}
    Founder = u1
    Invitation = {i1, i2}
    Client = {c1, c2}
    Limits = {2, 3}
    NoUser = NoUser
    NoOp = NoOp
SPECIFICATION Spec
SYMMETRY Symmetry
CHECK_DEADLOCK FALSE
INVARIANTS
    MembershipsInv
PROPERTIES
    OnlyOverlapsLoseOwners
    OnlyOverlapsEscalate
    SeatsWithinLimit
