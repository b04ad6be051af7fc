SPECIFICATION FairSpec
CONSTANTS
    None = None
    Client = {c1}
    Thread = {w1, w2}
    Job = {j1, j2}
    Text <- Distinct
    Slot = {s1, s2}
    Limit = 2
    Window = 2
    MaxCount = 3
    Dedupe = 1
    Retention = 4
    MaxStall = 2
    Failures = TRUE
INVARIANTS
    TwinsOverlapped
    TrailBalances
PROPERTIES
    AcknowledgedIsKept
    EveryRowDeleted
CHECK_DEADLOCK FALSE
