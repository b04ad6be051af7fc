SPECIFICATION FairBoundsSpec
CONSTANTS
    known = known
    here = here
    there = there
    Account <- MCKnown
    Known <- MCKnown
    Client = {"a"}
    Address = {here}
    Seen <- MCDirect
    Worker = {w1, w2}
    AccountMax = 2
    AddressMax = 3
    Window = 2
INVARIANTS
    GuessesBounded
    LockoutNoticedOnce
PROPERTIES
    ForgottenRightly
    LockoutEnds
