SPECIFICATION FairSpec
CONSTANTS
    None = None
    u1 = u1
    User <- MCUser
    Owner <- MCOwner
    Session = {s1}
    Request = {r1, r2}
    IdleTimeout = 3
    AbsoluteLifetime = 4
    TokenGrain = 3
    MaxTime = 4
INVARIANTS
    BarredNeverAdmitted
    LifetimeHolds
    SignOutAuditMatches
PROPERTIES
    ImplementsContract
    RequestsAnswered
CHECK_DEADLOCK FALSE
