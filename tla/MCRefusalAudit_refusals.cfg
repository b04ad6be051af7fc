SPECIFICATION AuditSpec
CONSTANTS
    Client = {c1}
    Limit = 2
    Window = 3
    MaxCount = 5
    NoRequest = NoRequest
    MaxDelay = 1
    Outages = TRUE
INVARIANTS
    HourlyRows
PROPERTIES
    Represented
CHECK_DEADLOCK FALSE
