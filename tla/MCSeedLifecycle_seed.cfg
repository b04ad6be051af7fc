SPECIFICATION Spec
CONSTANTS
    None = None
    full = full
    smoke = smoke
    f1 = f1
    f2 = f2
    Op = {o1, o2}
    Profile = {full, smoke}
    Typo = typo
    File = {f1, f2}
    Files <- Documents
    Collection = {documents}
    Field = {company_id, classification}
SYMMETRY Operators
INVARIANTS
    WholeUnlessDisturbed
    PointsFilterable
PROPERTIES
    SuccessIsComplete
    VerifyVouches
