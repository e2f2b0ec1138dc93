CONSTANTS
    Deliveries = {d1, d2}
    Events <- Story
    Rows = {r1, r2}
    FirstRow = r1
    SubscriptionIds = {"sub_1", "sub_2"}
    NoSubscription = NoSubscription
    Plans = {"free", "team", "business"}
    NoEvent = NoEvent
    NoRow = NoRow
SPECIFICATION FairSpec
CHECK_DEADLOCK FALSE
INVARIANTS
    BillingInv
PROPERTIES
    EndedStaysEnded
    OnlyOvertakenOrInternalRevert
    GraceIsBounded
