CONSTANTS
    Rows = {j1, j2}
    Workers = {w1, w2}
    MaxAttempts = 2
    ExtraAttempts = 1
    AttemptCap = 3
    BatchSize = 1
    NoCandidate = NoCandidate
SPECIFICATION Spec
SYMMETRY Symmetry
INVARIANTS
    ExportsInv
    FirstAttemptIntact
PROPERTIES
    ImplementsWorkTable
