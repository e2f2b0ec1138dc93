CONSTANTS
    Worker = {w1, w2}
    Resource = {1, 2, 3, 4}
    Domains <- Plan
    DomainOf <- Kinds
    ObjectDomains = {"exports"}
    ProviderDomains = {"billing_provider"}
    Tolerant = {}
    Initial = {1, 2, 3, 4}
    Blanks = {{}, {1, 2}}
    MaxAttempts = 3
    Mishaps = 2
    Idle = Idle
    NoWorker = NoWorker
SPECIFICATION Spec
CHECK_DEADLOCK FALSE
INVARIANTS
    
    StrandedHasItsCause
PROPERTIES
    DeletionEnds
