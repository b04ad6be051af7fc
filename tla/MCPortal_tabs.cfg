SPECIFICATION FairSpec
CONSTANTS
    t1 = t1
    t2 = t2
    s1 = s1
    s2 = s2
    None = None
    Tab <- MCTab
    Codes <- MCCodes
    Session <- MCSession
INVARIANTS
    Sound
    AccountedFor
PROPERTIES
    Settles
