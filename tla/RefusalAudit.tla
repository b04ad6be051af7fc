---------------------------- MODULE RefusalAudit ----------------------------
(***************************************************************************)
(* The audit of anonymous refusals: the middleware audit_refusals and its  *)
(* is_auditable_refusal (public/refusal_audit.py) over consume and         *)
(* mark_coalesced (public/rate_limit.py).                                  *)
(*                                                                         *)
(* The middleware awaits nothing once the response is there, and the API   *)
(* is one process with one event loop: refusals are audited one at a time. *)
(* Time passes meanwhile, since Redis and the database are waited for.     *)
(***************************************************************************)
EXTENDS RateLimit, Functions

CONSTANTS
    NoRequest,
    MaxDelay,       \* bound of the checked instance: how long one audit may take
    Outages         \* whether Redis and the database may fail

ASSUME RefusalAuditAssumption ==
    /\ MaxDelay \in Nat /\ MaxDelay < Window
    /\ Outages \in BOOLEAN

\* What is refused: a path of the served prefixes, one with a route behind
\* authentication or one without any, with or without a credential.
Requests == [who : Client, path : {"served", "route", "no route"},
             credential : {"none", "forged", "expired", "accepted"}]

ASSUME NoRequestAssumption == NoRequest \notin Requests

is_auditable_refusal(r) == r.path # "served" /\ r.credential = "none"

VARIABLES
    claim,          \* ticks until the coalescing key expires; 0 when there is none
    serving, stage, stall,      \* the refusal being audited, and for how long
    answered, entry,            \* the refusal answered last and the row it wrote
    rows,           \* per address and age: the rows written by leave of Redis
    folded,         \* ticks since the last coalesced row, up to Window
    failed          \* ticks since a row was last lost, up to Window

progress == <<serving, stage, stall>>
outcome == <<answered, entry>>
trail == <<rows, folded, failed>>
auditVars == <<counters, claim, progress, outcome, trail>>

AuditStages == {"idle", "counting", "claiming", "single", "unbounded", "coalesced", "unclaimed"}

AuditTypeOK ==
    /\ CountersOK
    /\ claim \in [Client -> 0 .. Window]
    /\ serving \in Requests \cup {NoRequest}
    /\ stage \in AuditStages
    /\ stall \in 0 .. MaxDelay
    /\ answered \in Requests \cup {NoRequest}
    /\ entry \in {"none", "single", "coalesced"}
    /\ rows \in [Client -> [0 .. Window - 1 -> Nat]]
    /\ folded \in [Client -> 0 .. Window]
    /\ failed \in [Client -> 0 .. Window]

AuditInit ==
    /\ NoCounters
    /\ claim = [c \in Client |-> 0]
    /\ serving = NoRequest /\ stage = "idle" /\ stall = 0
    /\ answered = NoRequest /\ entry = "none"
    /\ rows = [c \in Client |-> [a \in 0 .. Window - 1 |-> 0]]
    /\ folded = [c \in Client |-> Window]
    /\ failed = [c \in Client |-> Window]

-----------------------------------------------------------------------------
NoticeRefusal(r) ==
    /\ serving = NoRequest
    /\ is_auditable_refusal(r)
    /\ serving' = r
    /\ stage' = "counting"
    /\ UNCHANGED <<counters, claim, stall, outcome, trail>>

\* No business of this middleware.
LeaveAlone(r) ==
    /\ serving = NoRequest
    /\ ~is_auditable_refusal(r)
    /\ answered' = r
    /\ entry' = "none"
    /\ UNCHANGED <<counters, claim, progress, trail>>

GoTo(s) ==
    /\ stage' = s
    /\ UNCHANGED <<serving, stall, outcome, trail>>

Answer(e) ==
    /\ answered' = serving
    /\ entry' = e
    /\ serving' = NoRequest
    /\ stage' = "idle"
    /\ stall' = 0

Count ==
    /\ stage = "counting"
    /\ Consume(serving.who)
    /\ GoTo(IF Allowed(serving.who) THEN "single" ELSE "claiming")
    /\ UNCHANGED claim

\* Redis is down, or its reply is lost: the individual entry is written.
CountUnavailable ==
    /\ Outages
    /\ stage = "counting"
    /\ Consume(serving.who) \/ UNCHANGED counters
    /\ GoTo("unbounded")
    /\ UNCHANGED claim

Set == claim' = [claim EXCEPT ![serving.who] = IF @ = 0 THEN Window ELSE @]

\* SET NX EX: the first caller of a window.
Claim ==
    /\ stage = "claiming"
    /\ claim[serving.who] = 0
    /\ Set
    /\ GoTo("coalesced")
    /\ UNCHANGED counters

ClaimUnavailable ==
    /\ Outages
    /\ stage = "claiming"
    /\ Set \/ UNCHANGED claim
    /\ GoTo("unclaimed")
    /\ UNCHANGED counters

\* Faulty variant: a claim is renewed by every refusal it covers.
SkipRenewing ==
    /\ stage = "claiming"
    /\ claim[serving.who] > 0
    /\ claim' = [claim EXCEPT ![serving.who] = Window]
    /\ Answer("none")
    /\ UNCHANGED <<counters, trail>>

\* The single entry of this window is another refusal's.
Skip ==
    /\ stage = "claiming"
    /\ claim[serving.who] > 0
    /\ Answer("none")
    /\ UNCHANGED <<counters, claim, trail>>

WriteSingle ==
    /\ stage \in {"single", "unbounded"}
    /\ rows' = IF stage = "single" THEN [rows EXCEPT ![serving.who][0] = @ + 1] ELSE rows
    /\ Answer("single")
    /\ UNCHANGED <<counters, claim, folded, failed>>

WriteCoalesced ==
    /\ stage \in {"coalesced", "unclaimed"}
    /\ rows' = IF stage = "coalesced" THEN [rows EXCEPT ![serving.who][0] = @ + 1] ELSE rows
    /\ folded' = [folded EXCEPT ![serving.who] = 0]
    /\ Answer("coalesced")
    /\ UNCHANGED <<counters, claim, failed>>

\* Logged; the response is what it was.
WriteFails ==
    /\ Outages
    /\ stage \in {"single", "unbounded", "coalesced", "unclaimed"}
    /\ failed' = [failed EXCEPT ![serving.who] = 0]
    /\ Answer("none")
    /\ UNCHANGED <<counters, claim, rows, folded>>

Older(age) == [c \in Client |-> IF age[c] = Window THEN Window ELSE age[c] + 1]

PassTime ==
    /\ serving # NoRequest => stall < MaxDelay
    /\ Expire
    /\ claim' = [c \in Client |-> IF claim[c] = 0 THEN 0 ELSE claim[c] - 1]
    /\ stall' = IF serving = NoRequest THEN 0 ELSE stall + 1
    /\ rows' = [c \in Client |->
           [a \in 0 .. Window - 1 |-> IF a = 0 THEN 0 ELSE rows[c][a - 1]]]
    /\ folded' = Older(folded)
    /\ failed' = Older(failed)
    /\ UNCHANGED <<serving, stage, outcome>>

AuditNext ==
    \/ \E r \in Requests : NoticeRefusal(r) \/ LeaveAlone(r)
    \/ Count \/ CountUnavailable
    \/ Claim \/ ClaimUnavailable \/ Skip
    \/ WriteSingle \/ WriteCoalesced \/ WriteFails
    \/ PassTime

AuditSpec == AuditInit /\ [][AuditNext]_auditVars

-----------------------------------------------------------------------------
\* FR-047b: as long as Redis answers, one address gets Limit rows and a
\* coalesced one into an hour, wherever it starts, and at most one more that
\* was held up between Redis and the database.
HourlyRows == \A c \in Client : FoldFunction(+, 0, rows[c]) <= Limit + 2

\* FR-047b: a refusal that leaves no row is covered by a coalesced one of its
\* address from within the window, unless a row of that window was lost.
Represented ==
    [][serving # NoRequest /\ serving' = NoRequest /\ entry' = "none" =>
          folded'[serving.who] < Window \/ failed'[serving.who] < Window]_auditVars
=============================================================================
