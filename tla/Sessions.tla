------------------------------ MODULE Sessions ------------------------------
(***************************************************************************)
(* The server-side session of the portal and every request that presents   *)
(* its credential: create_session, verify_access_token, authenticated with *)
(* validate_session and _expire, and the sign-out handler with             *)
(* end_session (apps/api auth/sessions.py, dependencies.py, tokens.py,     *)
(* router.py).                                                             *)
(*                                                                         *)
(* Requests run concurrently, each in one READ COMMITTED transaction that  *)
(* session_scope commits when the handler returns and rolls back when      *)
(* anything raises.  A SELECT reads the committed row; the flushed UPDATE  *)
(* takes the row's lock until the transaction ends, so a second writer     *)
(* waits there and not at its SELECT.  Columns an UPDATE does not name     *)
(* keep whatever was committed meanwhile, and the next SELECT of the same  *)
(* transaction sees it.  Time is counted in ticks.                         *)
(***************************************************************************)
EXTENDS Integers, FiniteSets

CONSTANTS
    Session, Request, User,
    Owner,              \* Owner[s]: the user who signs in to open session s
    None,
    IdleTimeout,        \* cfg.auth.idle_timeout_seconds
    AbsoluteLifetime,   \* cfg.auth.absolute_lifetime_seconds
    TokenGrain,         \* ticks per second: `exp` is cut to whole seconds
    MaxTime             \* bound of the checked instance; see Tick

ASSUME SessionsAssumption ==
    /\ Owner \in [Session -> User]
    /\ IdleTimeout \in Nat \ {0}
    /\ AbsoluteLifetime \in Nat \ {0}
    /\ TokenGrain \in Nat \ {0}
    /\ MaxTime \in Nat
    /\ None \notin Int \cup Session \cup Request \cup {"IDLE", "ABSOLUTE", "SIGN_OUT"}

VARIABLES
    clock,
    active,         \* active[u]: users.is_active
    login,          \* login[s]: how far the sign-in that opens s has got
    capAt, lastSeen, endedAt, endedReason,    \* columns of the committed row
    issuedAt,
    rowLock,        \* rowLock[s]: the request whose transaction holds the row
    pc, kind, sess, now, endAt, why,          \* locals of each request
    barred,         \* what already spoke against the request when it arrived
    audit           \* committed audit_logs entries: <<action, session, request>>

rowVars == <<capAt, lastSeen, endedAt, endedReason, issuedAt>>
reqVars == <<pc, kind, sess, now, endAt, why, barred>>
vars == <<clock, active, login, rowVars, rowLock, reqVars, audit>>

Kinds == {"read", "logout"}
Bounds == {"IDLE", "ABSOLUTE"}
Waiting == {"verified", "select", "touch", "expire", "expireWrite", "auditExpiry"}
InTransaction == {"user", "handler", "commit"}    \* holds the row lock
Admitted == {"handler", "commit", "done", "failed"}
Answered == {"done", "refused", "failed", "errored"}
Stages == {"new"} \cup Waiting \cup InTransaction \cup Answered

TypeOK ==
    /\ clock \in Nat
    /\ active \in [User -> BOOLEAN]
    /\ login \in [Session -> {"none", "resolved", "open"}]
    /\ issuedAt \in [Session -> Int]
    /\ capAt \in [Session -> Int]
    /\ lastSeen \in [Session -> Int]
    /\ endedAt \in [Session -> Int \cup {None}]
    /\ endedReason \in [Session -> {None, "SIGN_OUT"} \cup Bounds]
    /\ rowLock \in [Session -> Request \cup {None}]
    /\ pc \in [Request -> Stages]
    /\ kind \in [Request -> Kinds]
    /\ sess \in [Request -> Session \cup {None}]
    /\ now \in [Request -> Int]
    /\ endAt \in [Request -> Int \cup {None}]
    /\ why \in [Request -> Bounds \cup {None}]
    /\ barred \in [Request -> SUBSET {"ended", "capped", "inactive"}]
    /\ audit \subseteq {"auth.sign_in", "auth.sign_out", "auth.session_expired"}
                         \X Session \X (Request \cup {None})

Init ==
    /\ clock = 0
    /\ active = [u \in User |-> TRUE]
    /\ login = [s \in Session |-> "none"]
    /\ issuedAt = [s \in Session |-> 0]
    /\ capAt = [s \in Session |-> 0]
    /\ lastSeen = [s \in Session |-> 0]
    /\ endedAt = [s \in Session |-> None]
    /\ endedReason = [s \in Session |-> None]
    /\ rowLock = [s \in Session |-> None]
    /\ pc = [r \in Request |-> "new"]
    /\ kind = [r \in Request |-> "read"]
    /\ sess = [r \in Request |-> None]
    /\ now = [r \in Request |-> 0]
    /\ endAt = [r \in Request |-> None]
    /\ why = [r \in Request |-> None]
    /\ barred = [r \in Request |-> {}]
    /\ audit = {}

-----------------------------------------------------------------------------
(* The environment: time, and an administrator withdrawing a user.         *)

Tick ==
    /\ clock < MaxTime
    /\ clock' = clock + 1
    /\ UNCHANGED <<active, login, rowVars, rowLock, reqVars, audit>>

Deactivate(u) ==
    /\ active[u]
    /\ active' = [active EXCEPT ![u] = FALSE]
    /\ UNCHANGED <<clock, login, rowVars, rowLock, reqVars, audit>>

-----------------------------------------------------------------------------
(* Sign-in, past the attempt bounds: the account is resolved in one        *)
(* transaction and the session created, with its audit entry, in another.  *)

ResolveAccount(s) ==
    /\ login[s] = "none"
    /\ active[Owner[s]]
    /\ login' = [login EXCEPT ![s] = "resolved"]
    /\ UNCHANGED <<clock, active, rowVars, rowLock, reqVars, audit>>

CreateSession(s) ==
    /\ login[s] = "resolved"
    /\ login' = [login EXCEPT ![s] = "open"]
    /\ issuedAt' = [issuedAt EXCEPT ![s] = clock]
    /\ capAt' = [capAt EXCEPT ![s] = clock + AbsoluteLifetime]
    /\ lastSeen' = [lastSeen EXCEPT ![s] = clock]
    /\ audit' = audit \cup {<<"auth.sign_in", s, None>>}
    /\ UNCHANGED <<clock, active, endedAt, endedReason, rowLock, reqVars>>

-----------------------------------------------------------------------------
(* A request, from the credential to the row.                              *)

Step(r, from, to) == pc[r] = from /\ pc' = [pc EXCEPT ![r] = to]

\* `exp` is signed at sign-in from the row's cap and cut to whole seconds.
TokenExpiry(s) ==
    LET cap == issuedAt[s] + AbsoluteLifetime IN cap - (cap % TokenGrain)

Against(s) ==
    {b \in {"ended", "capped", "inactive"} :
        \/ b = "ended" /\ endedAt[s] # None
        \/ b = "capped" /\ clock >= capAt[s]
        \/ b = "inactive" /\ ~active[Owner[s]]}

\* The credential of an opened session can be presented at any time and again.
VerifyToken(r, s, k) ==
    /\ login[s] = "open"
    /\ Step(r, "new", IF clock < TokenExpiry(s) THEN "verified" ELSE "refused")
    /\ kind' = [kind EXCEPT ![r] = k]
    /\ sess' = [sess EXCEPT ![r] = s]
    /\ barred' = [barred EXCEPT ![r] = Against(s)]
    /\ UNCHANGED <<clock, active, login, rowVars, rowLock, now, endAt, why, audit>>

ReadClock(r) ==
    /\ Step(r, "verified", "select")
    /\ now' = [now EXCEPT ![r] = clock]
    /\ UNCHANGED <<clock, active, login, rowVars, rowLock,
                   kind, sess, endAt, why, barred, audit>>

\* Faulty variant: the idle bound is reached one tick late.
ReachedBoundLate(s, t) ==
    IF t >= capAt[s] THEN "ABSOLUTE"
    ELSE IF t - lastSeen[s] > IdleTimeout THEN "IDLE" ELSE None

\* The bound a row has reached at t; the cap is looked at first.
ReachedBound(s, t) ==
    IF t >= capAt[s] THEN "ABSOLUTE"
    ELSE IF t - lastSeen[s] >= IdleTimeout THEN "IDLE" ELSE None

\* validate_session up to its flush.
RefuseEnded(r) ==
    /\ Step(r, "select", "refused")
    /\ endedAt[sess[r]] # None
    /\ UNCHANGED <<clock, active, login, rowVars, rowLock,
                   kind, sess, now, endAt, why, barred, audit>>

\* Faulty variant: last_seen_at is stamped before the bounds are looked at, so
\* the refused transaction holds the row while _expire writes to it.
RefuseAtBoundHoldingRow(r) ==
    /\ Step(r, "select", "expire")
    /\ endedAt[sess[r]] = None
    /\ ReachedBound(sess[r], now[r]) # None
    /\ why' = [why EXCEPT ![r] = ReachedBound(sess[r], now[r])]
    /\ rowLock[sess[r]] = None
    /\ rowLock' = [rowLock EXCEPT ![sess[r]] = r]
    /\ UNCHANGED <<clock, active, login, rowVars,
                   kind, sess, now, endAt, barred, audit>>

RefuseAtBound(r) ==
    /\ Step(r, "select", "expire")
    /\ endedAt[sess[r]] = None
    /\ ReachedBound(sess[r], now[r]) # None
    /\ why' = [why EXCEPT ![r] = ReachedBound(sess[r], now[r])]
    /\ UNCHANGED <<clock, active, login, rowVars, rowLock,
                   kind, sess, now, endAt, barred, audit>>

\* Faulty variant: liveness is judged by the two instants alone.
FindLiveByTimestamps(r) ==
    /\ Step(r, "select", "touch")
    /\ ReachedBound(sess[r], now[r]) = None
    /\ UNCHANGED <<clock, active, login, rowVars, rowLock,
                   kind, sess, now, endAt, why, barred, audit>>

FindLive(r) ==
    /\ Step(r, "select", "touch")
    /\ endedAt[sess[r]] = None
    /\ ReachedBound(sess[r], now[r]) = None
    /\ UNCHANGED <<clock, active, login, rowVars, rowLock,
                   kind, sess, now, endAt, why, barred, audit>>

\* UPDATE ... SET last_seen_at: waits for the row, then holds it to the end.
Touch(r) ==
    /\ Step(r, "touch", "user")
    /\ rowLock[sess[r]] = None
    /\ rowLock' = [rowLock EXCEPT ![sess[r]] = r]
    /\ UNCHANGED <<clock, active, login, rowVars,
                   kind, sess, now, endAt, why, barred, audit>>

Release(r) == rowLock' = [rowLock EXCEPT ![sess[r]] = None]

\* The user is read again; a refusal rolls the touch back.
AdmitUser(r) ==
    /\ Step(r, "user", "handler")
    /\ active[Owner[sess[r]]]
    /\ UNCHANGED <<clock, active, login, rowVars, rowLock,
                   kind, sess, now, endAt, why, barred, audit>>

RefuseUser(r) ==
    /\ Step(r, "user", "refused")
    /\ ~active[Owner[sess[r]]]
    /\ Release(r)
    /\ UNCHANGED <<clock, active, login, rowVars,
                   kind, sess, now, endAt, why, barred, audit>>

-----------------------------------------------------------------------------
(* The handler and the end of its transaction.                             *)

\* Faulty variant: whoever was let in ends the session, ended or not.
HandleBlindly(r) ==
    /\ Step(r, "handler", "commit")
    /\ endAt' = [endAt EXCEPT ![r] = IF kind[r] = "logout" THEN clock ELSE None]
    /\ UNCHANGED <<clock, active, login, rowVars, rowLock,
                   kind, sess, now, why, barred, audit>>

\* end_session loads the row again (validate_session handed on a plain record
\* and nothing else keeps the flushed one) while its own touch holds the lock:
\* a row that another request ended before that touch is left as it is.
Handle(r) ==
    /\ Step(r, "handler", "commit")
    /\ endAt' = [endAt EXCEPT ![r] =
           IF kind[r] = "logout" /\ endedAt[sess[r]] = None THEN clock ELSE None]
    /\ UNCHANGED <<clock, active, login, rowVars, rowLock,
                   kind, sess, now, why, barred, audit>>

\* Faulty variant: the UPDATE names every column, as the SELECT found it.
CommitWholeRow(r) ==
    LET s == sess[r]
        ends == endAt[r] # None
    IN
    /\ Step(r, "commit", "done")
    /\ lastSeen' = [lastSeen EXCEPT ![s] = now[r]]
    /\ endedAt' = [endedAt EXCEPT ![s] = endAt[r]]
    /\ endedReason' = [endedReason EXCEPT ![s] = IF ends THEN "SIGN_OUT" ELSE None]
    /\ audit' = audit \cup (IF ends THEN {<<"auth.sign_out", s, r>>} ELSE {})
    /\ Release(r)
    /\ UNCHANGED <<clock, active, login, capAt, issuedAt,
                   kind, sess, now, endAt, why, barred>>

\* The touch, and the end with its entry where end_session made one; a sign-out
\* that found the row ended is answered 204 like the one that ended it.
Commit(r) ==
    LET s == sess[r] IN
    /\ Step(r, "commit", "done")
    /\ lastSeen' = [lastSeen EXCEPT ![s] = now[r]]
    /\ IF endAt[r] # None
       THEN /\ endedAt' = [endedAt EXCEPT ![s] = endAt[r]]
            /\ endedReason' = [endedReason EXCEPT ![s] = "SIGN_OUT"]
            /\ audit' = audit \cup {<<"auth.sign_out", s, r>>}
       ELSE UNCHANGED <<endedAt, endedReason, audit>>
    /\ Release(r)
    /\ UNCHANGED <<clock, active, login, capAt, issuedAt,
                   kind, sess, now, endAt, why, barred>>

\* An exception or a killed process: nothing of the transaction survives.
Abort(r) ==
    \/ /\ \/ Step(r, "handler", "failed") \/ Step(r, "commit", "failed")
          \/ Step(r, "user", "errored")
       /\ Release(r)
       /\ UNCHANGED <<clock, active, login, rowVars,
                      kind, sess, now, endAt, why, barred, audit>>
    \/ /\ \E p \in Waiting : Step(r, p, "errored")
       /\ UNCHANGED <<clock, active, login, rowVars, rowLock,
                      kind, sess, now, endAt, why, barred, audit>>

-----------------------------------------------------------------------------
(* _expire, on a connection of its own while the refused request unwinds.  *)

ExpireSelect(r) ==
    /\ Step(r, "expire", IF endedAt[sess[r]] = None THEN "expireWrite" ELSE "auditExpiry")
    /\ UNCHANGED <<clock, active, login, rowVars, rowLock,
                   kind, sess, now, endAt, why, barred, audit>>

ExpireWrite(r) ==
    LET s == sess[r] IN
    /\ Step(r, "expireWrite", "auditExpiry")
    /\ rowLock[s] = None
    /\ endedAt' = [endedAt EXCEPT ![s] = now[r]]
    /\ endedReason' = [endedReason EXCEPT ![s] = why[r]]
    /\ UNCHANGED <<clock, active, login, capAt, lastSeen, issuedAt, rowLock,
                   kind, sess, now, endAt, why, barred, audit>>

\* Any exception of the expiry write is swallowed.
ExpireGiveUp(r) ==
    /\ \/ Step(r, "expire", "auditExpiry") \/ Step(r, "expireWrite", "auditExpiry")
    /\ UNCHANGED <<clock, active, login, rowVars, rowLock,
                   kind, sess, now, endAt, why, barred, audit>>

\* Written whatever became of the row, and best-effort itself.
AuditExpiry(r) ==
    /\ Step(r, "auditExpiry", "refused")
    /\ audit' \in {audit, audit \cup {<<"auth.session_expired", sess[r], r>>}}
    /\ UNCHANGED <<clock, active, login, rowVars, rowLock,
                   kind, sess, now, endAt, why, barred>>

-----------------------------------------------------------------------------
Proceed(r) ==
    \/ ReadClock(r) \/ RefuseEnded(r) \/ RefuseAtBound(r) \/ FindLive(r)
    \/ Touch(r) \/ AdmitUser(r) \/ RefuseUser(r)
    \/ Handle(r) \/ Commit(r)
    \/ ExpireSelect(r) \/ ExpireWrite(r) \/ AuditExpiry(r)

Next ==
    \/ Tick
    \/ \E u \in User : Deactivate(u)
    \/ \E s \in Session : ResolveAccount(s) \/ CreateSession(s)
    \/ \E r \in Request, s \in Session, k \in Kinds : VerifyToken(r, s, k)
    \/ \E r \in Request : Proceed(r) \/ ExpireGiveUp(r) \/ Abort(r)

Spec == Init /\ [][Next]_vars

\* The server runs the requests it has accepted, and the row lock's queue is
\* served; nothing obliges a client to send one, nor time to reach a bound.
FairSpec == Spec /\ \A r \in Request : WF_vars(Proceed(r))

-----------------------------------------------------------------------------
(* What the mechanism guarantees.                                          *)

\* A request that arrives after its session's end was committed, after the cap,
\* or after its user was deactivated is never admitted, whatever the requests
\* already in flight go on to write.
BarredNeverAdmitted ==
    \A r \in Request : barred[r] # {} => pc[r] \notin Admitted

\* An end, once committed, is never undone: a request that read the row while
\* it was live and commits its touch later does not bring the session back.
EndedIsFinal ==
    [][\A s \in Session : endedAt[s] # None => endedAt'[s] # None]_vars

\* However a session is used, nothing is served on a clock past sign-in plus
\* the absolute lifetime: use moves the idle bound and never the cap.
CapCountsFromSignIn ==
    \A r \in Request :
        pc[r] \in Admitted => now[r] < issuedAt[sess[r]] + AbsoluteLifetime

\* An admitted request follows a sign-in or another admitted use of the same
\* session by less than the idle timeout: there is no gap in the chain.
ActivityChain ==
    \A r \in Request : pc[r] \in Admitted =>
        \/ now[r] - issuedAt[sess[r]] < IdleTimeout
        \/ \E q \in Request \ {r} :
              /\ pc[q] = "done"
              /\ sess[q] = sess[r]
              /\ now[r] - now[q] < IdleTimeout

\* Neither bound of a session is stretched by the use that is made of it.
LifetimeHolds == CapCountsFromSignIn /\ ActivityChain

\* However many sign-outs of a session overlap, each of them answered 204 leaves
\* it ended, one of them ends it, and the trail says so once: end and entry are
\* one commit, aborted sign-outs included (end_session's second look at the row
\* and the entry that depends on it in logout).
SignOutAuditMatches ==
    /\ \A r \in Request :
          pc[r] = "done" /\ kind[r] = "logout" => endedAt[sess[r]] # None
    /\ \A s \in Session : endedReason[s] = "SIGN_OUT" =>
          \E r \in Request : <<"auth.sign_out", s, r>> \in audit
    /\ \A s \in Session, r \in Request : <<"auth.sign_out", s, r>> \in audit =>
          /\ endedAt[s] # None
          /\ pc[r] = "done"
          /\ \A q \in Request : <<"auth.sign_out", s, q>> \in audit => q = r

\* Every request the server accepts is answered: no request waits for a row it
\* holds itself, and none waits for one that is never given back.
RequestsAnswered ==
    \A r \in Request : pc[r] # "new" ~> pc[r] \in Answered

\* The abstract contract this mechanism implements.
Contract == INSTANCE SessionContract WITH
    life <- [s \in Session |->
               IF login[s] # "open" THEN "absent"
               ELSE IF endedAt[s] = None /\ clock < capAt[s] THEN "live" ELSE "over"],
    standing <- active,
    phase <- [r \in Request |->
               IF pc[r] = "new" THEN "none"
               ELSE IF pc[r] \in {"refused", "errored"} THEN "refused"
               ELSE IF pc[r] \in Admitted THEN "granted"
               ELSE IF barred[r] = {} THEN "eligible" ELSE "barred"],
    on <- sess

\* Every behaviour of the mechanism is one the contract allows.
ImplementsContract == Contract!ContractSpec
=============================================================================
