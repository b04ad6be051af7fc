SPECIFICATION Spec
CONSTANTS
    None = None
    A = A
    B = B
    ann = ann
    eve = eve
    Lead = Lead
    D1 = D1
    D2 = D2
    EG = EG
    handbook = handbook
    plan = plan
    draft = draft
    secret = secret
    foreign = foreign
    leave = leave
    v1 = v1
    v2 = v2
    t1 = t1
    t2 = t2
    Company <- MCCompany
    User <- MCUser
    Role <- MCRole
    Department <- MCDepartment
    Country <- MCCountry
    Document <- MCDocument
    Question <- MCQuestion
    Version <- MCVersion
    Turn <- MCTurn
    Meta <- MCMeta
    Contents <- MCContents
    Staff <- MCStaff
    Shares <- MCShares
    Bodies <- MCBodies
    MaxEntries = 1
SYMMETRY Symmetry
INVARIANTS
    FilterAgreesWithEngine
    AnswersHold
