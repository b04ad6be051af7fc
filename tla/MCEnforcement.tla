--------------------------- MODULE MCEnforcement ----------------------------
(* A manager and two reports, one of whom is given to the other, and a user *)
(* of another company.  One request is anything the manager may ask while   *)
(* supplying a tenant; two more, of which one is denied, compete with it    *)
(* for threads and connections.                                            *)
EXTENDS Enforcement

CONSTANTS boss, lead, member, stranger, r1, r2

Company == [u \in User |-> IF u = stranger THEN "delta" ELSE "niletech"]
RoleCodes == [u \in User |->
    CASE u \in {boss, lead} -> {"hr:read_self", "hr:read_team"}
      [] u = member -> {"hr:read_self"}
      [] u = stranger -> {"hr:read_self", "hr:read_all"}]
Line == [u \in User |->
    IF u \in {lead, member} THEN boss ELSE None]
MCCalls == [r \in Request |->
    IF r = r1 THEN {boss} \X Routes \X {boss, member, stranger} \X {TRUE}
    ELSE IF r = r2 THEN {<<member, "compensation", lead, FALSE>>}
    ELSE {<<member, "me", member, FALSE>>}]
MCEdits == {<<boss, "hr:read_team">>, <<member, lead>>}
=============================================================================
