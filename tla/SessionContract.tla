--------------------------- MODULE SessionContract ---------------------------
(***************************************************************************)
(* What the portal's session mechanism promises its callers, with no row,  *)
(* no lock, no transaction and no clock: a session opens once and closes   *)
(* for good, a user's standing is lost for good, and a request that        *)
(* arrives when its session is closed or its user has no standing is never *)
(* granted.  A request that arrived in time may still be refused.          *)
(* Sessions.tla is shown to implement this.                                *)
(***************************************************************************)
CONSTANTS
    Session,    \* session rows that can ever be opened
    Request,    \* requests presenting a credential
    User,
    Owner,      \* Owner[s] is the user session s belongs to
    None

VARIABLES
    life,       \* life[s] in {"absent", "live", "over"}
    standing,   \* standing[u]: the user may use the portal
    phase,      \* phase[r] in {"none", "eligible", "barred", "granted", "refused"}
    on          \* on[r]: the session the request's credential names

contractVars == <<life, standing, phase, on>>

Init ==
    /\ life = [s \in Session |-> "absent"]
    /\ standing = [u \in User |-> TRUE]
    /\ phase = [r \in Request |-> "none"]
    /\ on = [r \in Request |-> None]

Open(s) ==
    /\ life[s] = "absent"
    /\ life' = [life EXCEPT ![s] = "live"]
    /\ UNCHANGED <<standing, phase, on>>

\* Several sessions can lapse at one instant: time passes for all of them.
Close(S) ==
    /\ \A s \in S : life[s] = "live"
    /\ life' = [s \in Session |-> IF s \in S THEN "over" ELSE life[s]]
    /\ UNCHANGED <<standing, phase, on>>

LoseStanding(u) ==
    /\ standing' = [standing EXCEPT ![u] = FALSE]
    /\ UNCHANGED <<life, phase, on>>

Arrive(r, s) ==
    /\ phase[r] = "none"
    /\ life[s] # "absent"
    /\ phase' = [phase EXCEPT ![r] =
            IF life[s] = "live" /\ standing[Owner[s]] THEN "eligible" ELSE "barred"]
    /\ on' = [on EXCEPT ![r] = s]
    /\ UNCHANGED <<life, standing>>

\* A credential refused on its face: the arrival and the answer are one step.
Turn(r, s) ==
    /\ phase[r] = "none"
    /\ life[s] # "absent"
    /\ phase' = [phase EXCEPT ![r] = "refused"]
    /\ on' = [on EXCEPT ![r] = s]
    /\ UNCHANGED <<life, standing>>

Grant(r) ==
    /\ phase[r] = "eligible"
    /\ phase' = [phase EXCEPT ![r] = "granted"]
    /\ UNCHANGED <<life, standing, on>>

Refuse(r) ==
    /\ phase[r] \in {"eligible", "barred"}
    /\ phase' = [phase EXCEPT ![r] = "refused"]
    /\ UNCHANGED <<life, standing, on>>

Next ==
    \/ \E s \in Session : Open(s)
    \/ \E S \in SUBSET Session : Close(S)
    \/ \E u \in User : LoseStanding(u)
    \/ \E r \in Request, s \in Session : Arrive(r, s) \/ Turn(r, s)
    \/ \E r \in Request : Grant(r) \/ Refuse(r)

ContractSpec == Init /\ [][Next]_contractVars
=============================================================================
