CONSTANTS
    Rows = {r1, r2}
    Workers = {w1, w2}
    MaxAttempts = 2
    ExtraAttempts = 1
    AttemptCap = 3
    NoCandidate = NoCandidate
    BatchSize = 2
SPECIFICATION Spec
SYMMETRY Symmetry
INVARIANTS
    SingleOwner
    AtMostOneEmail
PROPERTIES
    ImplementsWorkTable
