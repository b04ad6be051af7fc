------------------------------ MODULE MCPortal ------------------------------
EXTENDS Portal

CONSTANTS t1, t2, s1, s2

MCTab == {t1, t2}
MCCodes == {"hr:read_team"}
MCSession == {s1, s2}
=============================================================================
