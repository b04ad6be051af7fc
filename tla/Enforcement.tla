---------------------------- MODULE Enforcement -----------------------------
(***************************************************************************)
(* A protected request from the worker thread it waits for to the commit   *)
(* of its transaction: authenticated, require_context with                 *)
(* build_access_context and note_supplied_authority, the /me and           *)
(* /hr/profiles handlers, authorize and the audit writer.                  *)
(*                                                                         *)
(* Dependencies and handlers are synchronous, so each runs in a thread of  *)
(* the server's pool and gives it back in between, while the request keeps *)
(* the connection of its transaction.  A denial is recorded on a second    *)
(* connection of the same pool.  Every query of the context has a READ     *)
(* COMMITTED snapshot of its own, and the records may change between two.  *)
(***************************************************************************)
EXTENDS Policy, FiniteSets

CONSTANTS
    Request, User,
    Tenant,             \* Tenant[u]: users.company_id
    SeededCodes,        \* SeededCodes[u]: the codes of u's roles at first
    SeededManager,      \* SeededManager[u]: users.manager_id at first
    Calls,              \* bound of the checked instance: what a request may be
    Connections,        \* pool_size + max_overflow of get_engine
    Threads,            \* worker threads of the server
    DatabaseFails,      \* whether writes fail for a reason other than the pool
    Edits,              \* bounds of the checked instance: changes of the records
    MaxChanges          \* and how many of them

OwnRoutes == {"me", "context", "own_profile", "reports"}
HrRoutes == {"profile", "compensation"}
Routes == OwnRoutes \cup HrRoutes

ASSUME EnforcementAssumption ==
    /\ DOMAIN Tenant = User
    /\ SeededCodes \in [User -> SUBSET Codes]
    /\ SeededManager \in [User -> User \cup {None}]
    /\ None \notin User
    /\ \A u \in User : Tenant[u] # None
    /\ Calls \in [Request -> SUBSET (User \X Routes \X User \X BOOLEAN)]
    /\ Connections \in Nat \ {0}
    /\ Threads \in Nat \ {0}
    /\ DatabaseFails \in BOOLEAN
    /\ Edits \subseteq User \X (Codes \cup User)
    /\ MaxChanges \in Nat

VARIABLES
    codes, manager, changes,                \* the records, and how often changed
    pc, caller, route, target, probing,     \* each request
    held,                                   \* whether its transaction has a connection
    ctxReports, ctxCodes,                   \* its access context
    pending,                                \* entries flushed in its transaction
    answer,                                 \* the status it will get
    audit,                                  \* its committed entries
    codesSeen, reportsSeen                  \* what was in force since it arrived

records == <<codes, manager, changes>>
asked == <<caller, route, target, probing>>
context == <<ctxReports, ctxCodes>>
seen == <<codesSeen, reportsSeen>>
vars == <<records, pc, asked, held, context, pending, answer, audit, seen>>

Stages == {"new", "queued", "checkout", "scoped", "context", "ready", "denying",
           "payload", "commit", "refusing", "answered"}
OnThread == {"checkout", "context", "denying", "payload"}
Actions == {"authz.allowed", "authz.denied", "authz.tenant_value_supplied"}

ReportsOf(u) == {v \in User : manager[v] = u}
InProgress(r) == pc[r] \notin {"new", "answered"}
FreeConnections == Connections - Cardinality({r \in Request : held[r]})
ThreadFree == Cardinality({r \in Request : pc[r] \in OnThread}) < Threads

TypeOK ==
    /\ codes \in [User -> SUBSET Codes]
    /\ manager \in [User -> User \cup {None}]
    /\ changes \in 0 .. MaxChanges
    /\ pc \in [Request -> Stages]
    /\ caller \in [Request -> User \cup {None}]
    /\ route \in [Request -> Routes]
    /\ target \in [Request -> User \cup {None}]
    /\ probing \in [Request -> BOOLEAN]
    /\ held \in [Request -> BOOLEAN]
    /\ ctxReports \in [Request -> SUBSET User]
    /\ ctxCodes \in [Request -> SUBSET Codes]
    /\ pending \in [Request -> SUBSET Actions]
    /\ answer \in [Request -> {0, 200, 403, 404, 500}]
    /\ audit \in [Request -> SUBSET Actions]
    /\ codesSeen \in [Request -> SUBSET Codes]
    /\ reportsSeen \in [Request -> SUBSET User]

Init ==
    /\ codes = SeededCodes
    /\ manager = SeededManager
    /\ changes = 0
    /\ pc = [r \in Request |-> "new"]
    /\ caller = [r \in Request |-> None]
    /\ route = [r \in Request |-> "me"]
    /\ target = [r \in Request |-> None]
    /\ probing = [r \in Request |-> FALSE]
    /\ held = [r \in Request |-> FALSE]
    /\ ctxReports = [r \in Request |-> {}]
    /\ ctxCodes = [r \in Request |-> {}]
    /\ pending = [r \in Request |-> {}]
    /\ answer = [r \in Request |-> 0]
    /\ audit = [r \in Request |-> {}]
    /\ codesSeen = [r \in Request |-> {}]
    /\ reportsSeen = [r \in Request |-> {}]

-----------------------------------------------------------------------------
(* The records change under the requests: FR-026 has the reachable set     *)
(* follow the data.  No code of the portal changes them; whoever maintains *)
(* the tables does.                                                        *)

See ==
    /\ codesSeen' = [r \in Request |->
           codesSeen[r] \cup (IF InProgress(r) THEN codes'[caller[r]] ELSE {})]
    /\ reportsSeen' = [r \in Request |->
           reportsSeen[r] \cup (IF InProgress(r) THEN ReportsOf(caller[r])' ELSE {})]

ChangeCodes(u, c) ==
    /\ <<u, c>> \in Edits
    /\ changes < MaxChanges
    /\ changes' = changes + 1
    /\ codes' = [codes EXCEPT ![u] = IF c \in @ THEN @ \ {c} ELSE @ \cup {c}]
    /\ UNCHANGED <<manager, pc, asked, held, context, pending, answer, audit>>
    /\ See

Reassign(u, m) ==
    /\ <<u, m>> \in Edits
    /\ changes < MaxChanges
    /\ m # u /\ m # manager[u]
    /\ Tenant[m] = Tenant[u]
    /\ changes' = changes + 1
    /\ manager' = [manager EXCEPT ![u] = m]
    /\ UNCHANGED <<codes, pc, asked, held, context, pending, answer, audit>>
    /\ See

-----------------------------------------------------------------------------
(* Up to the access context.                                               *)

Step(r, from, to) == pc[r] = from /\ pc' = [pc EXCEPT ![r] = to]

\* A signed-in caller asks; an own route is about the caller.
Arrive(r, u, e, t, p) ==
    /\ Step(r, "new", "queued")
    /\ e \in OwnRoutes => t = u
    /\ caller' = [caller EXCEPT ![r] = u]
    /\ route' = [route EXCEPT ![r] = e]
    /\ target' = [target EXCEPT ![r] = t]
    /\ probing' = [probing EXCEPT ![r] = p]
    /\ codesSeen' = [codesSeen EXCEPT ![r] = codes[u]]
    /\ reportsSeen' = [reportsSeen EXCEPT ![r] = ReportsOf(u)]
    /\ UNCHANGED <<records, held, context, pending, answer, audit>>

Enter(r) ==
    /\ ThreadFree
    /\ Step(r, "queued", "checkout")
    /\ UNCHANGED <<records, asked, held, context, pending, answer, audit, seen>>

\* The first statement of authenticated takes a connection.
Checkout(r) ==
    /\ FreeConnections > 0
    /\ Step(r, "checkout", "scoped")
    /\ held' = [held EXCEPT ![r] = TRUE]
    /\ UNCHANGED <<records, asked, context, pending, answer, audit, seen>>

\* Faulty variant: the pool is waited for without a bound.
WaitForever(r) == FALSE

\* pool_timeout: the request fails, its thread is free again.
CheckoutTimeout(r) ==
    /\ FreeConnections = 0
    /\ Step(r, "checkout", "answered")
    /\ answer' = [answer EXCEPT ![r] = 500]
    /\ UNCHANGED <<records, asked, held, context, pending, audit, seen>>

\* Faulty variant: the whole reporting line below the caller.
ReadEverybodyBelow(r) ==
    /\ ThreadFree
    /\ Step(r, "scoped", "context")
    /\ ctxReports' = [ctxReports EXCEPT ![r] =
           ReportsOf(caller[r]) \cup UNION {ReportsOf(v) : v \in ReportsOf(caller[r])}]
    /\ UNCHANGED <<records, asked, held, ctxCodes, pending, answer, audit, seen>>

\* The queries of the context, each with its own snapshot.
ReadReports(r) ==
    /\ ThreadFree
    /\ Step(r, "scoped", "context")
    /\ ctxReports' = [ctxReports EXCEPT ![r] = ReportsOf(caller[r])]
    /\ UNCHANGED <<records, asked, held, ctxCodes, pending, answer, audit, seen>>

\* The last query, and the entry for an authority the request supplied.
ReadCodes(r) ==
    /\ Step(r, "context", "ready")
    /\ ctxCodes' = [ctxCodes EXCEPT ![r] = codes[caller[r]]]
    /\ pending' = [pending EXCEPT ![r] =
           IF probing[r] THEN {"authz.tenant_value_supplied"} ELSE {}]
    /\ UNCHANGED <<records, asked, held, ctxReports, answer, audit, seen>>

-----------------------------------------------------------------------------
(* The handler.                                                            *)

KindOf(e) ==
    CASE e \in {"profile", "own_profile"} -> "HR_PROFILE"
      [] e = "compensation" -> "HR_COMPENSATION"
      [] e = "reports" -> "DIRECT_REPORTS"
      [] e = "context" -> "ACCESS_CONTEXT"

\* Row-level security: a row of another tenant is no row.
Within(u, t) == Tenant[t] = Tenant[u]
Visible(r) == Within(caller[r], target[r])

Subject(u, cs, reports) ==
    [user |-> u, company |-> Tenant[u], department |-> None,
     roles |-> {}, codes |-> cs, reports |-> reports]

Descriptor(u, t) ==
    [company |-> IF Within(u, t) THEN Tenant[t] ELSE None,
     owner |-> IF Within(u, t) THEN t ELSE None,
     classification |-> None, grants |-> None]

DecisionOn(u, t, e, cs, reports) ==
    Evaluate(Subject(u, cs, reports), KindOf(e), Descriptor(u, t))
DecisionOf(r) == DecisionOn(caller[r], target[r], route[r], ctxCodes[r], ctxReports[r])

\* subject_exists, asked by the routes that take an id.
Known(r) == route[r] \in HrRoutes => Visible(r)

\* Raised before the decision: nothing records it.
AnswerAbsent(r) ==
    /\ ThreadFree
    /\ ~Known(r)
    /\ Step(r, "ready", "refusing")
    /\ answer' = [answer EXCEPT ![r] = 404]
    /\ UNCHANGED <<records, asked, held, context, pending, audit, seen>>

Deny403(r) ==
    /\ ThreadFree
    /\ Known(r) /\ route[r] # "me"
    /\ ~DecisionOf(r).allowed
    /\ Step(r, "ready", "denying")
    /\ answer' = [answer EXCEPT ![r] = IF DecisionOf(r).tenant_absent THEN 404 ELSE 403]
    /\ UNCHANGED <<records, asked, held, context, pending, audit, seen>>

\* Faulty variant: allows are recorded the way denials are.
PermitRecordingAtOnce(r) ==
    /\ ThreadFree
    /\ Known(r)
    /\ route[r] # "me" => DecisionOf(r).allowed
    /\ Step(r, "ready", "payload")
    /\ audit' = [audit EXCEPT ![r] = @ \cup
           (IF route[r] # "me" /\ DecisionOf(r).audit_required
            THEN {"authz.allowed"} ELSE {})]
    /\ UNCHANGED <<records, asked, held, context, pending, answer, seen>>

\* Faulty variant: the handler restates what is sensitive, and forgets whose
\* profile it is.
PermitRecordingPayOnly(r) ==
    /\ ThreadFree
    /\ Known(r)
    /\ route[r] # "me" => DecisionOf(r).allowed
    /\ Step(r, "ready", "payload")
    /\ pending' = [pending EXCEPT ![r] = @ \cup
           (IF route[r] = "compensation" THEN {"authz.allowed"} ELSE {})]
    /\ UNCHANGED <<records, asked, held, context, answer, audit, seen>>

\* A sensitive allow is flushed into the request's own transaction; /me asks
\* for no decision.
Permit(r) ==
    /\ ThreadFree
    /\ Known(r)
    /\ route[r] # "me" => DecisionOf(r).allowed
    /\ Step(r, "ready", "payload")
    /\ pending' = [pending EXCEPT ![r] = @ \cup
           (IF route[r] # "me" /\ DecisionOf(r).audit_required
            THEN {"authz.allowed"} ELSE {})]
    /\ UNCHANGED <<records, asked, held, context, answer, audit, seen>>

ReadPayload(r) ==
    /\ Step(r, "payload", "commit")
    /\ answer' = [answer EXCEPT ![r] = 200]
    /\ UNCHANGED <<records, asked, held, context, pending, audit, seen>>

\* record_out_of_band, while the first connection is still held.
RecordDenied(r) ==
    /\ FreeConnections > 0
    /\ Step(r, "denying", "refusing")
    /\ audit' = [audit EXCEPT ![r] = @ \cup {"authz.denied"}]
    /\ UNCHANGED <<records, asked, held, context, pending, answer, seen>>

\* The write fails, or no connection came free in time; either is swallowed.
LoseDenied(r) ==
    /\ FreeConnections = 0 \/ DatabaseFails
    /\ Step(r, "denying", "refusing")
    /\ UNCHANGED <<records, asked, held, context, pending, answer, audit, seen>>

-----------------------------------------------------------------------------
(* The end of the transaction.                                             *)

Release(r) == held' = [held EXCEPT ![r] = FALSE]

\* session_scope rolls back: what was flushed is gone.
Refuse(r) ==
    /\ Step(r, "refusing", "answered")
    /\ Release(r)
    /\ UNCHANGED <<records, asked, context, pending, answer, audit, seen>>

Commit(r) ==
    /\ Step(r, "commit", "answered")
    /\ Release(r)
    /\ audit' = [audit EXCEPT ![r] = @ \cup pending[r]]
    /\ UNCHANGED <<records, asked, context, pending, answer, seen>>

\* Any other exception, or a failed commit.
Abort(r) ==
    /\ DatabaseFails
    /\ \E p \in {"scoped", "context", "ready", "payload", "commit"} : Step(r, p, "answered")
    /\ Release(r)
    /\ answer' = [answer EXCEPT ![r] = 500]
    /\ UNCHANGED <<records, asked, context, pending, audit, seen>>

Proceed(r) ==
    \/ Enter(r) \/ Checkout(r) \/ CheckoutTimeout(r) \/ ReadReports(r) \/ ReadCodes(r)
    \/ AnswerAbsent(r) \/ Deny403(r) \/ Permit(r) \/ ReadPayload(r)
    \/ RecordDenied(r) \/ LoseDenied(r) \/ Refuse(r) \/ Commit(r)

Next ==
    \/ \E u \in User, c \in Codes : ChangeCodes(u, c)
    \/ \E u, m \in User : Reassign(u, m)
    \/ \E r \in Request : \E c \in Calls[r] : Arrive(r, c[1], c[2], c[3], c[4])
    \/ \E r \in Request : Proceed(r) \/ Abort(r)

Spec == Init /\ [][Next]_vars

\* A thread that can run runs, and the pool's timeout is a timeout.
FairSpec == Spec /\ \A r \in Request : WF_vars(Proceed(r))

-----------------------------------------------------------------------------
Answered(r, status) == pc[r] = "answered" /\ answer[r] = status

\* FR-004 and FR-026: what a request is given was permitted by permissions and
\* reports in force at some time since it arrived, so a permission withdrawn or
\* a report reassigned before that opens nothing.  The union over that time is
\* the most the queries of one context can mix.
PermittedWhileAsked ==
    \A r \in Request :
        pc[r] \in {"payload", "commit"} \/ Answered(r, 200) =>
            \/ route[r] = "me"
            \/ DecisionOn(caller[r], target[r], route[r], codesSeen[r], reportsSeen[r]).allowed

\* FR-017a: a read of another's record or of compensation, and an authority the
\* request supplied, are on record once the answer is out.
AnsweredReadsOnRecord ==
    \A r \in Request : Answered(r, 200) =>
        /\ probing[r] => "authz.tenant_value_supplied" \in audit[r]
        /\ target[r] # caller[r] \/ route[r] = "compensation" => "authz.allowed" \in audit[r]

\* No entry tells of something that did not happen: an allow that was rolled
\* back leaves none, and a denial was one (audit.py record_decision).
EntriesTellTrue ==
    \A r \in Request :
        /\ "authz.allowed" \in audit[r] => Answered(r, 200)
        /\ "authz.denied" \in audit[r] => answer[r] = 403

\* FR-021: 403 is never the answer about a person of another tenant.
ForbiddenStaysInside ==
    \A r \in Request : answer[r] = 403 => Tenant[target[r]] = Tenant[caller[r]]

\* Requests that hold connections and wait for threads, requests that hold
\* threads and wait for connections, and denials that wait for a second one do
\* not wait for each other for ever: every request is answered, and whatever
\* the outcome gives its connection back.
EveryRequestAnswered == []<>(\A r \in Request : ~InProgress(r) /\ ~held[r])
=============================================================================
