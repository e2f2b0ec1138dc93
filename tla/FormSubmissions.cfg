CONSTANTS
    Rows = {r1, r2}
    Workers = {w1, w2}
    ApiTasks = {t1}
    MaxAttempts = 2
    ExtraAttempts = 1
    AttemptCap = 3
    BatchSize = 2
    NoCandidate = NoCandidate
SPECIFICATION FairSpec
CHECK_DEADLOCK FALSE
INVARIANTS
    SubmissionsInv
PROPERTIES
    ImplementsWorkTable
    EventuallySettledOrStranded
