----------------------------- MODULE MCContact ------------------------------
(* Two messages that differ in both parts.                                  *)
EXTENDS Contact

Call == [subject |-> <<"call">>, message |-> <<"me", "now">>]
Hello == [subject |-> <<"hello">>, message |-> <<"there">>]

Distinct == {Call, Hello}
=============================================================================
