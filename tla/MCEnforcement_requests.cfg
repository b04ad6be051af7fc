SPECIFICATION FairSpec
CONSTANTS
    None = None
    boss = boss
    lead = lead
    member = member
    stranger = stranger
    r1 = r1
    r2 = r2
    User = {boss, lead, member, stranger}
    Tenant <- Company
    SeededCodes <- RoleCodes
    SeededManager <- Line
    Request = {r1, r2, r3}
    Calls <- MCCalls
    Connections = 2
    Threads = 1
    DatabaseFails = TRUE
    Edits <- MCEdits
    MaxChanges = 2
INVARIANTS
    PermittedWhileAsked
    AnsweredReadsOnRecord
    EntriesTellTrue
PROPERTIES
    EveryRequestAnswered
CHECK_DEADLOCK FALSE
