CONSTANTS
    Attachment = {a1}
    Request = {r1, r2}
    Deleting = {r2}
    MaxAttempts = 2
    NoJob = NoJob
SPECIFICATION FairSpec
CHECK_DEADLOCK FALSE
INVARIANTS
    AttachmentsInv
PROPERTIES
    PurgesOrphans
    CleanupEnds
