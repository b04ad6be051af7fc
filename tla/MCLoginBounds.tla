---------------------------- MODULE MCLoginBounds ----------------------------
(* A small instance of LoginBounds: one account and one client.             *)
EXTENDS LoginBounds

CONSTANTS known, here, there
MCKnown == {known}
MCDirect == [c \in Client |-> IF c = "a" THEN here ELSE there]
=============================================================================
