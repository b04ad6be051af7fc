SPECIFICATION DecideSpec
CONSTANTS
    None = None
    Person = {u1, u2}
    Company = {c1, c2}
    Department = {d1}
    Role = {r1}
    MaxGrants = 1
    MaxReports = 1
SYMMETRY Symmetric
INVARIANTS
    EarliestLayer
    SilentReadsAreOwn
PROPERTIES
    AnswersMonotone
CHECK_DEADLOCK FALSE
