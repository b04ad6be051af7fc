SPECIFICATION SiteFairSpec
CONSTANTS
    Nothing = Nothing
    SomeRow = SomeRow
    p1 = p1
    p2 = p2
    v1 = v1
    Refresh = {l1, l2}
    Call = {k1, k2}
    Store = {"postgres", "redis", "worker"}
    Failures <- MCFailures
    Profile <- MCProfile
    Vacancy <- MCVacancy
    Message = {m1, m2}
    Contents <- MCContents
    MaxChanges = 1
INVARIANTS
    SiteSound
    OmissionRecorded
    FormTellsTruth
PROPERTIES
    BoardTellsTruth
    NothingHangs
