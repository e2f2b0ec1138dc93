CONSTANTS
    Rows = {e1, e2, e3}
    Workers = {w1, w2}
    MaxAttempts = 1
    ExtraAttempts = 2
    AttemptCap = 3
    BatchSize = 1
    NoCandidate = NoCandidate
    NoEvent = NoEvent
    Users = {u1}
    NoActor = NoActor
    Statuses = {"todo", "done"}
    RuleOrder <- Loop
    EditedRules <- FirstRule
    MaxDepth = 1
    RootEvents = 1
SPECIFICATION FairAutomationsSpec
CHECK_DEADLOCK FALSE
INVARIANTS
    AutomationsInv
PROPERTIES
    ImplementsWorkTable
    CascadeQuiesces
