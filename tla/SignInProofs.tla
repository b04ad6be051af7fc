---------------------------- MODULE SignInProofs ----------------------------
(***************************************************************************)
(* Theorems of Sessions for every set of sessions, requests and users and  *)
(* every value of the timeouts; and of LoginBounds for every number of     *)
(* threads, accounts and addresses and every value of the bounds and the   *)
(* window.                                                                 *)
(***************************************************************************)
EXTENDS Sessions, LoginBounds, FiniteSetTheorems, TLAPS

USE DEF Step, Release

(***************************************************************************)
(* Type correctness.                                                       *)
(***************************************************************************)
\* Every variable starts in its type.
LEMMA InitTypeOK == Init => TypeOK
BY SessionsAssumption DEF Init, TypeOK, Stages, Kinds

\* The bound validate_session reports is one of the two names, or none.
LEMMA ReachedBoundType ==
    ASSUME NEW s \in Session, NEW t \in Int, TypeOK
    PROVE  ReachedBound(s, t) \in Bounds \cup {None}
BY SessionsAssumption DEF ReachedBound, Bounds, TypeOK

\* Each step of a request that has named its session keeps every variable in its type.
LEMMA RequestTypeOK ==
    ASSUME TypeOK, NEW r \in Request, sess[r] \in Session,
           Proceed(r) \/ ExpireGiveUp(r) \/ Abort(r)
    PROVE  TypeOK'
<1> USE SessionsAssumption DEF TypeOK, Stages, Waiting, InTransaction, Answered, Kinds,
        rowVars, reqVars
<1>1. CASE ReadClock(r)  BY <1>1 DEF ReadClock
<1>2. CASE RefuseEnded(r)  BY <1>2 DEF RefuseEnded
<1>3. CASE RefuseAtBound(r)
  <2>1. ReachedBound(sess[r], now[r]) \in Bounds \cup {None}  BY ReachedBoundType
  <2>2. QED  BY <1>3, <2>1 DEF RefuseAtBound
<1>4. CASE FindLive(r)  BY <1>4 DEF FindLive
<1>5. CASE Touch(r)  BY <1>5 DEF Touch
<1>6. CASE AdmitUser(r)  BY <1>6 DEF AdmitUser
<1>7. CASE RefuseUser(r)  BY <1>7 DEF RefuseUser
<1>8. CASE Handle(r)  BY <1>8 DEF Handle
<1>9. CASE Commit(r)
  <2>1. <<"auth.sign_out", sess[r], r>> \in {"auth.sign_in", "auth.sign_out", "auth.session_expired"}
                         \X Session \X (Request \cup {None})  OBVIOUS
  <2>2. QED  BY <1>9, <2>1 DEF Commit
<1>10. CASE ExpireSelect(r)  BY <1>10 DEF ExpireSelect
<1>11. CASE ExpireWrite(r)  BY <1>11 DEF ExpireWrite, Bounds
<1>12. CASE AuditExpiry(r)
  <2>1. <<"auth.session_expired", sess[r], r>> \in {"auth.sign_in", "auth.sign_out", "auth.session_expired"}
                         \X Session \X (Request \cup {None})  OBVIOUS
  <2>2. QED  BY <1>12, <2>1 DEF AuditExpiry
<1>13. CASE ExpireGiveUp(r)  BY <1>13 DEF ExpireGiveUp
<1>14. CASE Abort(r)
  <2>1. UNCHANGED <<clock, active, login, rowVars, kind, sess, now, endAt, why, barred, audit>>
        /\ \E p \in {"failed", "errored"} : pc' = [pc EXCEPT ![r] = p]
        /\ rowLock' \in {rowLock, [rowLock EXCEPT ![sess[r]] = None]}
    BY <1>14 DEF Abort
  <2>2. QED  BY <2>1
<1>15. QED  BY <1>1, <1>2, <1>3, <1>4, <1>5, <1>6, <1>7, <1>8, <1>9, <1>10, <1>11,
               <1>12, <1>13, <1>14 DEF Proceed

(***************************************************************************)
(* A request past VerifyToken names a session that is open.  Type          *)
(* correctness needs it: before that step sess[r] is None.                 *)
(***************************************************************************)
Begun == \A r \in Request : pc[r] # "new" => sess[r] \in Session /\ login[sess[r]] = "open"

\* Type correctness together with Begun is inductive.
LEMMA BegunStep == TypeOK /\ Begun /\ [Next]_vars => TypeOK' /\ Begun'
<1> SUFFICES ASSUME TypeOK, Begun, [Next]_vars PROVE TypeOK' /\ Begun'
  OBVIOUS
<1> USE SessionsAssumption DEF rowVars, reqVars
<1>1. CASE Tick
  BY <1>1 DEF Tick, TypeOK, Begun
<1>2. ASSUME NEW u \in User, Deactivate(u) PROVE TypeOK' /\ Begun'
  BY <1>2 DEF Deactivate, TypeOK, Begun
<1>3. ASSUME NEW s \in Session, ResolveAccount(s) PROVE TypeOK' /\ Begun'
  BY <1>3 DEF ResolveAccount, TypeOK, Begun
<1>4. ASSUME NEW s \in Session, CreateSession(s) PROVE TypeOK' /\ Begun'
  BY <1>4 DEF CreateSession, TypeOK, Begun
<1>5. ASSUME NEW r \in Request, NEW s \in Session, NEW k \in Kinds, VerifyToken(r, s, k)
      PROVE  TypeOK' /\ Begun'
  <2>1. Against(s) \in SUBSET {"ended", "capped", "inactive"}  BY DEF Against
  <2>2. TypeOK'  BY <1>5, <2>1 DEF VerifyToken, TypeOK, Stages, Waiting, Answered
  <2>3. Begun'  BY <1>5 DEF VerifyToken, TypeOK, Begun
  <2>4. QED  BY <2>2, <2>3
<1>6. ASSUME NEW r \in Request, Proceed(r) \/ ExpireGiveUp(r) \/ Abort(r)
      PROVE  TypeOK' /\ Begun'
  <2>1. /\ pc[r] # "new"
        /\ \E p \in Stages \ {"new"} : pc' = [pc EXCEPT ![r] = p]
        /\ UNCHANGED <<sess, login>>
    BY <1>6 DEF Proceed, ReadClock, RefuseEnded, RefuseAtBound, FindLive, Touch, AdmitUser,
        RefuseUser, Handle, Commit, ExpireSelect, ExpireWrite, AuditExpiry, ExpireGiveUp,
        Abort, Stages, Waiting, InTransaction, Answered
  <2>2. sess[r] \in Session  BY <2>1 DEF Begun
  <2>3. TypeOK'  BY <1>6, <2>2, RequestTypeOK
  <2>4. Begun'  BY <2>1 DEF Begun, TypeOK
  <2>5. QED  BY <2>3, <2>4
<1>7. CASE UNCHANGED vars
  BY <1>7 DEF vars, TypeOK, Begun
<1>8. QED  BY <1>1, <1>2, <1>3, <1>4, <1>5, <1>6, <1>7 DEF Next

\* Every reachable state is well typed, whatever the constants.
THEOREM TypeCorrect == Spec => [](TypeOK /\ Begun)
<1>1. Init => TypeOK /\ Begun  BY InitTypeOK DEF Init, Begun
<1>2. QED  BY <1>1, BegunStep, PTL DEF Spec

-----------------------------------------------------------------------------
(***************************************************************************)
(* The inductive invariant.  Passed: the request has found its row live,   *)
(* so its clock is before the cap and its use is chained to an earlier one.*)
(* A bar raised on arrival is permanent (an end, the cap and a             *)
(* deactivation all are) and stops the request before it is admitted: the  *)
(* cap at the credential, the end at the SELECT, the user at the re-read.  *)
(***************************************************************************)
Passed == {"touch"} \cup InTransaction \cup {"done", "failed"}

ChainedTo(r, t) ==
    \/ t - issuedAt[sess[r]] < IdleTimeout
    \/ \E q \in Request \ {r} :
          pc[q] = "done" /\ sess[q] = sess[r] /\ t - now[q] < IdleTimeout

BarsHold ==
    \A r \in Request :
        /\ pc[r] = "new" => barred[r] = {}
        /\ "capped" \in barred[r] => pc[r] = "refused"
        /\ "ended" \in barred[r] =>
              endedAt[sess[r]] # None /\ pc[r] \in {"verified", "select", "refused", "errored"}
        /\ "inactive" \in barred[r] => ~active[Owner[sess[r]]] /\ pc[r] \notin Admitted

RowsHold ==
    \A s \in Session :
        /\ login[s] = "open" => capAt[s] = issuedAt[s] + AbsoluteLifetime
        /\ login[s] # "open" => endedAt[s] = None
        /\ login[s] = "open" =>
              \/ lastSeen[s] = issuedAt[s]
              \/ \E q \in Request : pc[q] = "done" /\ sess[q] = s /\ now[q] = lastSeen[s]
        /\ endedAt[s] = None <=> endedReason[s] = None

PassedHold ==
    \A r \in Request : pc[r] \in Passed =>
        /\ now[r] < capAt[sess[r]]
        /\ ChainedTo(r, now[r])

\* A request on its way to end the session knows which bound was reached.
WhyHolds == \A r \in Request : pc[r] \in {"expire", "expireWrite"} => why[r] \in Bounds

\* From its touch to the end of its transaction a request holds the row of its
\* session, so what its handler finds there is what its commit finds.
LockHolds == \A r \in Request : pc[r] \in InTransaction => rowLock[sess[r]] = r
EndsHold ==
    \A r \in Request : pc[r] = "commit" =>
        /\ endAt[r] # None => endedAt[sess[r]] = None
        /\ kind[r] = "logout" /\ endAt[r] = None => endedAt[sess[r]] # None
Held == LockHolds /\ EndsHold

Grouped == BarsHold /\ RowsHold /\ PassedHold /\ SignOutAuditMatches

IInv == TypeOK /\ Begun /\ WhyHolds /\ Held /\ Grouped

\* The inductive invariant holds before anyone signs in.
LEMMA InitIInv == Init => IInv
<1>1. Init => TypeOK  BY InitTypeOK
<1>2. Init => /\ Begun /\ WhyHolds /\ Held
              /\ BarsHold /\ RowsHold /\ PassedHold /\ SignOutAuditMatches
  BY SessionsAssumption DEF Init, Begun, WhyHolds, BarsHold, RowsHold, PassedHold, Passed,
     InTransaction, Held, LockHolds, EndsHold, SignOutAuditMatches
<1>3. QED  BY <1>1, <1>2 DEF IInv, Grouped

\* The credential expires no later than the row's cap.
LEMMA TokenDiesFirst ==
    ASSUME NEW s \in Session, TypeOK, RowsHold, login[s] = "open"
    PROVE  TokenExpiry(s) \in Int /\ TokenExpiry(s) <= capAt[s]
<1> DEFINE cap == issuedAt[s] + AbsoluteLifetime
<1>1. cap \in Int /\ cap = capAt[s]  BY SessionsAssumption DEF TypeOK, RowsHold
<1> HIDE DEF cap
<1>2. cap % TokenGrain \in 0 .. (TokenGrain - 1)  BY <1>1, SessionsAssumption
<1>3. TokenExpiry(s) = cap - (cap % TokenGrain)  BY DEF TokenExpiry, cap
<1>4. QED  BY <1>1, <1>2, <1>3, SessionsAssumption

\* A row that has reached no bound at t has t before its cap and less than the
\* idle timeout after its last use.
LEMMA LiveMeansWithinBounds ==
    ASSUME NEW s \in Session, NEW t \in Int, TypeOK, ReachedBound(s, t) = None
    PROVE  t < capAt[s] /\ t - lastSeen[s] < IdleTimeout
BY SessionsAssumption DEF ReachedBound, TypeOK

\* Time, an administrator and the two transactions of a sign-in keep it: a bar
\* raised on arrival stays justified, and a new row starts at its own sign-in.
LEMMA EnvironmentStep ==
    ASSUME IInv,
           \/ Tick
           \/ \E u \in User : Deactivate(u)
           \/ \E s \in Session : ResolveAccount(s) \/ CreateSession(s)
    PROVE  Grouped'
<1> USE SessionsAssumption DEF IInv, Grouped, rowVars, reqVars
<1>1. CASE Tick
  BY <1>1 DEF Tick, BarsHold, RowsHold, PassedHold, ChainedTo, SignOutAuditMatches
<1>2. ASSUME NEW u \in User, Deactivate(u) PROVE Grouped'
  <2>1. \A v \in User : ~active[v] => ~active'[v]  BY <1>2 DEF Deactivate, TypeOK
  <2>2. \A r \in Request : pc[r] # "new" => Owner[sess[r]] \in User  BY DEF Begun
  <2>3. BarsHold'  BY <1>2, <2>1, <2>2 DEF Deactivate, BarsHold
  <2>4. RowsHold' /\ PassedHold' /\ SignOutAuditMatches'
    BY <1>2 DEF Deactivate, RowsHold, PassedHold, ChainedTo, SignOutAuditMatches
  <2>5. QED  BY <2>3, <2>4
<1>3. ASSUME NEW s \in Session, ResolveAccount(s) PROVE Grouped'
  <2>1. \A x \in Session : login'[x] = "open" <=> login[x] = "open"
    BY <1>3 DEF ResolveAccount, TypeOK
  <2>2. RowsHold'  BY <1>3, <2>1 DEF ResolveAccount, RowsHold
  <2>3. BarsHold' /\ PassedHold' /\ SignOutAuditMatches'
    BY <1>3 DEF ResolveAccount, BarsHold, PassedHold, ChainedTo, SignOutAuditMatches
  <2>4. QED  BY <2>2, <2>3
<1>4. ASSUME NEW s \in Session, CreateSession(s) PROVE Grouped'
  <2>1. \A r \in Request : pc[r] # "new" => sess[r] # s
    BY <1>4 DEF CreateSession, Begun
  <2>2. BarsHold'  BY <1>4, <2>1 DEF CreateSession, TypeOK, BarsHold
  <2>3. RowsHold'  BY <1>4, <2>1 DEF CreateSession, TypeOK, RowsHold
  <2>4. PassedHold'
    BY <1>4, <2>1 DEF CreateSession, TypeOK, Begun, PassedHold, ChainedTo, Passed, InTransaction
  <2>5. SignOutAuditMatches'  BY <1>4 DEF CreateSession, SignOutAuditMatches
  <2>6. QED  BY <2>2, <2>3, <2>4, <2>5
<1>5. QED  BY <1>1, <1>2, <1>3, <1>4

\* A request arriving past the cap is turned away by the credential itself,
\* because the credential dies no later than the row.
LEMMA VerifyTokenStep ==
    ASSUME IInv, NEW r \in Request, NEW s \in Session, NEW k \in Kinds, VerifyToken(r, s, k)
    PROVE  Grouped'
<1> USE SessionsAssumption DEF IInv, Grouped, rowVars, reqVars, VerifyToken
<1>1. "capped" \in Against(s) => ~(clock < TokenExpiry(s))
  BY TokenDiesFirst DEF Against, TypeOK
<1>2. /\ "ended" \in Against(s) => endedAt[s] # None
      /\ "inactive" \in Against(s) => ~active[Owner[s]]
  BY DEF Against
<1>3. pc'[r] \in {"verified", "refused"}  BY DEF TypeOK
<1>4. BarsHold'  BY <1>1, <1>2, <1>3 DEF TypeOK, BarsHold, Admitted
<1>5. RowsHold'  BY <1>3 DEF TypeOK, RowsHold
<1>6. PassedHold'  BY <1>3 DEF TypeOK, PassedHold, ChainedTo, Passed, InTransaction
<1>7. SignOutAuditMatches'  BY <1>3 DEF TypeOK, SignOutAuditMatches
<1>8. QED  BY <1>4, <1>5, <1>6, <1>7

(***************************************************************************)
(* The steps of a request.  Each moves pc[r]; most leave every row alone.  *)
(***************************************************************************)
LEMMA QuietStep ==
    ASSUME IInv, NEW r \in Request,
           \/ ReadClock(r) \/ RefuseEnded(r) \/ RefuseAtBound(r) \/ Touch(r)
           \/ RefuseUser(r) \/ Handle(r) \/ ExpireSelect(r) \/ ExpireGiveUp(r) \/ Abort(r)
    PROVE  Grouped'
<1> USE SessionsAssumption DEF IInv, Grouped, rowVars, reqVars
<1>1. /\ UNCHANGED <<active, login, issuedAt, capAt, lastSeen, endedAt, endedReason, sess,
                     kind, barred, audit>>
      /\ \E to \in Stages \ {"new", "done"} :
            /\ pc' = [pc EXCEPT ![r] = to]
            /\ to \in Admitted => pc[r] \in Admitted
            /\ to \in Passed => pc[r] \in Passed /\ now' = now
            /\ "ended" \in barred[r] => to \in {"verified", "select", "refused", "errored"}
      /\ pc[r] \notin {"new", "done", "refused"}
      /\ \A q \in Request : q # r \/ pc[r] \in Passed => now'[q] = now[q]
  BY DEF TypeOK, BarsHold, ReadClock, RefuseEnded, RefuseAtBound, Touch, RefuseUser, Handle,
     ExpireSelect, ExpireGiveUp, Abort, Stages, Waiting, InTransaction, Answered, Admitted,
     Passed
<1>2. PICK to \in Stages \ {"new", "done"} :
         /\ pc' = [pc EXCEPT ![r] = to]
         /\ to \in Admitted => pc[r] \in Admitted
         /\ to \in Passed => pc[r] \in Passed /\ now' = now
         /\ "ended" \in barred[r] => to \in {"verified", "select", "refused", "errored"}
  BY <1>1
<1>3. BarsHold'  BY <1>1, <1>2 DEF TypeOK, BarsHold
<1>4. RowsHold'
  <2>1. \A q \in Request : pc[q] = "done" => pc'[q] = "done" /\ now'[q] = now[q]
    BY <1>1, <1>2 DEF TypeOK
  <2>2. QED  BY <1>1, <2>1 DEF RowsHold
<1>5. PassedHold'
  <2>1. SUFFICES ASSUME NEW x \in Request, pc'[x] \in Passed
                 PROVE  now'[x] < capAt[sess[x]] /\ ChainedTo(x, now[x])' /\ now'[x] = now[x]
    BY <1>1 DEF PassedHold
  <2>2. pc[x] \in Passed /\ now'[x] = now[x]  BY <1>1, <1>2, <2>1 DEF TypeOK
  <2>3. ChainedTo(x, now[x]) /\ now[x] < capAt[sess[x]]  BY <2>2 DEF PassedHold
  <2>4. \A q \in Request : pc[q] = "done" => pc'[q] = "done" /\ now'[q] = now[q]
    BY <1>1, <1>2 DEF TypeOK
  <2>5. QED  BY <1>1, <2>2, <2>3, <2>4 DEF ChainedTo
<1>6. SignOutAuditMatches'
  <2>1. \A q \in Request : pc'[q] = "done" <=> pc[q] = "done"  BY <1>1, <1>2 DEF TypeOK
  <2>2. QED  BY <1>1, <2>1 DEF SignOutAuditMatches
<1>7. QED  BY <1>3, <1>4, <1>5, <1>6

\* Finding the row live is what chains this use to an earlier one.
LEMMA FindLiveStep ==
    ASSUME IInv, NEW r \in Request, FindLive(r)
    PROVE  Grouped'
<1> USE SessionsAssumption DEF IInv, Grouped, rowVars, reqVars
<1>1. pc[r] = "select" /\ pc' = [pc EXCEPT ![r] = "touch"] /\ endedAt[sess[r]] = None
      /\ ReachedBound(sess[r], now[r]) = None /\ sess[r] \in Session
      /\ login[sess[r]] = "open" /\ now[r] \in Int
  BY DEF FindLive, Begun, TypeOK
<1>2. now[r] < capAt[sess[r]] /\ now[r] - lastSeen[sess[r]] < IdleTimeout
  BY <1>1, LiveMeansWithinBounds
<1>3. ChainedTo(r, now[r])
  <2>1. CASE lastSeen[sess[r]] = issuedAt[sess[r]]  BY <1>2, <2>1 DEF ChainedTo
  <2>2. CASE \E q \in Request : pc[q] = "done" /\ sess[q] = sess[r]
                                 /\ now[q] = lastSeen[sess[r]]
    BY <1>1, <1>2, <2>2 DEF ChainedTo
  <2>3. QED  BY <1>1, <2>1, <2>2 DEF RowsHold
<1>4. UNCHANGED <<active, login, issuedAt, capAt, lastSeen, endedAt, endedReason, sess, now,
                  kind, barred, audit>>
  BY DEF FindLive
<1>5. \A q \in Request : /\ pc[q] = "done" <=> pc'[q] = "done"
                         /\ q # r => pc'[q] = pc[q]
  BY <1>1 DEF TypeOK
<1>6. BarsHold'  BY <1>1, <1>4, <1>5 DEF TypeOK, BarsHold, Admitted
<1>7. RowsHold'  BY <1>4, <1>5 DEF RowsHold
<1>8. PassedHold'  BY <1>2, <1>3, <1>4, <1>5 DEF PassedHold, ChainedTo
<1>9. SignOutAuditMatches'  BY <1>4, <1>5 DEF SignOutAuditMatches
<1>10. QED  BY <1>6, <1>7, <1>8, <1>9

\* Only a user who is active now is admitted, so an old deactivation stops it.
LEMMA AdmitUserStep ==
    ASSUME IInv, NEW r \in Request, AdmitUser(r)
    PROVE  Grouped'
<1> USE DEF IInv, Grouped, rowVars, reqVars
<1>1. pc[r] = "user" /\ pc' = [pc EXCEPT ![r] = "handler"] /\ active[Owner[sess[r]]]
      /\ UNCHANGED <<active, login, issuedAt, capAt, lastSeen, endedAt, endedReason, sess,
                     now, kind, barred, audit>>
  BY DEF AdmitUser
<1>2. \A q \in Request : /\ pc[q] = "done" <=> pc'[q] = "done"
                         /\ q # r => pc'[q] = pc[q]
                         /\ pc'[q] \in Passed => pc[q] \in Passed
  BY <1>1 DEF TypeOK, Passed, InTransaction
<1>3. BarsHold'  BY <1>1, <1>2 DEF TypeOK, BarsHold
<1>4. RowsHold'  BY <1>1, <1>2 DEF RowsHold
<1>5. PassedHold'  BY <1>1, <1>2 DEF PassedHold, ChainedTo
<1>6. SignOutAuditMatches'  BY <1>1, <1>2 DEF SignOutAuditMatches
<1>7. QED  BY <1>3, <1>4, <1>5, <1>6

\* The committed touch becomes the last link of the chain, and a sign-out is
\* committed with its entry.
LEMMA CommitStep ==
    ASSUME IInv, NEW r \in Request, Commit(r)
    PROVE  Grouped'
<1> USE SessionsAssumption DEF IInv, Grouped
<1>1. /\ pc[r] = "commit" /\ pc' = [pc EXCEPT ![r] = "done"]
      /\ sess[r] \in Session /\ login[sess[r]] = "open"
      /\ lastSeen' = [lastSeen EXCEPT ![sess[r]] = now[r]]
      /\ UNCHANGED <<active, login, issuedAt, capAt, sess, now, kind, barred>>
  BY DEF Commit, Begun
<1>2. \A q \in Request : /\ pc'[q] = "done" <=> pc[q] = "done" \/ q = r
                         /\ q # r => pc'[q] = pc[q]
                         /\ pc'[q] \in Passed <=> pc[q] \in Passed
  BY <1>1 DEF TypeOK, Passed, InTransaction
<1>3. /\ \A s \in Session : endedAt[s] # None => endedAt'[s] # None
      /\ \A s \in Session : s # sess[r] => endedAt'[s] = endedAt[s]
                                           /\ endedReason'[s] = endedReason[s]
      /\ \/ /\ endedAt' = endedAt /\ endedReason' = endedReason /\ audit' = audit
            /\ kind[r] = "logout" => endedAt[sess[r]] # None
         \/ /\ endedAt[sess[r]] = None
            /\ endedAt'[sess[r]] # None
            /\ endedReason'[sess[r]] = "SIGN_OUT"
            /\ audit' = audit \cup {<<"auth.sign_out", sess[r], r>>}
  <2>1. CASE endAt[r] = None
    <3>1. endedAt' = endedAt /\ endedReason' = endedReason /\ audit' = audit
      BY <2>1 DEF Commit
    <3>2. kind[r] = "logout" => endedAt[sess[r]] # None
      BY <1>1, <2>1 DEF Held, EndsHold
    <3>3. QED  BY <3>1, <3>2
  <2>2. CASE endAt[r] # None
    <3>1. endedAt[sess[r]] = None  BY <1>1, <2>2 DEF Held, EndsHold
    <3>2. QED  BY <1>1, <2>2, <3>1 DEF Commit, TypeOK
  <2>3. QED  BY <2>1, <2>2
<1>4. BarsHold'
  <2>1. barred[r] = {}  BY <1>1 DEF BarsHold, TypeOK, Admitted
  <2>2. QED  BY <1>1, <1>2, <1>3, <2>1 DEF BarsHold, Begun
<1>5. RowsHold'
  <2>1. ASSUME NEW s \in Session, login[s] = "open"
        PROVE  lastSeen'[s] = issuedAt[s]
               \/ \E q \in Request : pc'[q] = "done" /\ sess[q] = s /\ now[q] = lastSeen'[s]
    <3>1. CASE s = sess[r]  BY <1>1, <1>2, <3>1 DEF TypeOK
    <3>2. CASE s # sess[r]
      <4>1. lastSeen'[s] = lastSeen[s]  BY <1>1, <3>2 DEF TypeOK
      <4>2. QED  BY <1>2, <2>1, <4>1 DEF RowsHold
    <3>3. QED  BY <3>1, <3>2
  <2>2. \A s \in Session : endedAt'[s] = None <=> endedReason'[s] = None
    BY <1>3 DEF RowsHold
  <2>3. \A s \in Session : login[s] # "open" => endedAt'[s] = None
    BY <1>1, <1>3 DEF RowsHold
  <2>4. QED  BY <1>1, <2>1, <2>2, <2>3 DEF RowsHold
<1>6. PassedHold'  BY <1>1, <1>2 DEF PassedHold, ChainedTo
<1>7. SignOutAuditMatches'
  <2>1. CASE /\ endedAt' = endedAt /\ endedReason' = endedReason /\ audit' = audit
             /\ kind[r] = "logout" => endedAt[sess[r]] # None
    BY <1>1, <1>2, <2>1 DEF SignOutAuditMatches
  <2>2. CASE /\ endedAt[sess[r]] = None
             /\ endedAt'[sess[r]] # None
             /\ endedReason'[sess[r]] = "SIGN_OUT"
             /\ audit' = audit \cup {<<"auth.sign_out", sess[r], r>>}
    <3>1. \A q \in Request : <<"auth.sign_out", sess[r], q>> \notin audit
      BY <1>1, <2>2 DEF SignOutAuditMatches
    <3>2. \A s \in Session, q \in Request : <<"auth.sign_out", s, q>> \in audit' <=>
             <<"auth.sign_out", s, q>> \in audit \/ (s = sess[r] /\ q = r)
      BY <2>2
    <3>3. \A q \in Request : pc'[q] = "done" /\ kind[q] = "logout" => endedAt'[sess[q]] # None
      BY <1>1, <1>2, <1>3, <2>2 DEF SignOutAuditMatches, Begun
    <3>4. \A s \in Session : endedReason'[s] = "SIGN_OUT" =>
             \E q \in Request : <<"auth.sign_out", s, q>> \in audit'
      BY <1>1, <1>3, <3>2 DEF SignOutAuditMatches
    <3>5. \A s \in Session, q \in Request : <<"auth.sign_out", s, q>> \in audit' =>
             /\ endedAt'[s] # None
             /\ pc'[q] = "done"
             /\ \A x \in Request : <<"auth.sign_out", s, x>> \in audit' => x = q
      BY <1>1, <1>2, <1>3, <2>2, <3>1, <3>2 DEF SignOutAuditMatches
    <3>6. QED  BY <1>1, <3>3, <3>4, <3>5 DEF SignOutAuditMatches
  <2>3. QED  BY <1>3, <2>1, <2>2
<1>8. QED  BY <1>4, <1>5, <1>6, <1>7

\* An end written by _expire names a bound and never a sign-out.
LEMMA ExpireWriteStep ==
    ASSUME IInv, NEW r \in Request, ExpireWrite(r)
    PROVE  Grouped'
<1> USE SessionsAssumption DEF IInv, Grouped
<1>1. /\ pc[r] = "expireWrite" /\ pc' = [pc EXCEPT ![r] = "auditExpiry"]
      /\ sess[r] \in Session /\ login[sess[r]] = "open"
      /\ endedAt' = [endedAt EXCEPT ![sess[r]] = now[r]]
      /\ endedReason' = [endedReason EXCEPT ![sess[r]] = why[r]]
      /\ UNCHANGED <<active, login, issuedAt, capAt, lastSeen, sess, now, kind, barred, audit>>
  BY DEF ExpireWrite, Begun
<1>2. \A q \in Request : /\ pc'[q] = "done" <=> pc[q] = "done"
                         /\ q # r => pc'[q] = pc[q]
                         /\ pc'[q] \in Passed <=> pc[q] \in Passed
  BY <1>1 DEF TypeOK, Passed, InTransaction
<1>3. endedAt'[sess[r]] # None  BY <1>1 DEF TypeOK
<1>4. why[r] \in Bounds  BY <1>1 DEF WhyHolds
<1>5. BarsHold'
  <2>1. barred[r] \subseteq {"inactive"}  BY <1>1 DEF BarsHold, TypeOK
  <2>2. "auditExpiry" \notin Admitted  BY DEF Admitted
  <2>3. \A s \in Session : endedAt[s] # None => endedAt'[s] # None
    BY <1>1, <1>3 DEF TypeOK
  <2>4. QED  BY <1>1, <1>2, <2>1, <2>2, <2>3 DEF BarsHold, Begun, TypeOK
<1>6. RowsHold'
  <2>1. \A s \in Session : endedAt'[s] = None <=> endedReason'[s] = None
    BY <1>1, <1>3, <1>4 DEF TypeOK, RowsHold, Bounds
  <2>2. \A s \in Session : login[s] # "open" => endedAt'[s] = None
    BY <1>1 DEF RowsHold, TypeOK
  <2>3. QED  BY <1>1, <1>2, <2>1, <2>2 DEF RowsHold
<1>7. PassedHold'  BY <1>1, <1>2 DEF PassedHold, ChainedTo
<1>8. SignOutAuditMatches'
  <2>1. why[r] # "SIGN_OUT"  BY <1>4 DEF Bounds
  <2>2. \A s \in Session : /\ endedReason'[s] = "SIGN_OUT" => endedReason[s] = "SIGN_OUT"
                           /\ endedAt[s] # None => endedAt'[s] # None
    BY <1>1, <1>3, <2>1 DEF TypeOK
  <2>3. QED  BY <1>1, <1>2, <2>2 DEF SignOutAuditMatches
<1>9. QED  BY <1>5, <1>6, <1>7, <1>8

\* The entry of an expiry is no sign-out entry, whether or not it is written.
LEMMA AuditExpiryStep ==
    ASSUME IInv, NEW r \in Request, AuditExpiry(r)
    PROVE  Grouped'
<1> USE SessionsAssumption DEF IInv, Grouped, rowVars
<1>1. /\ pc[r] = "auditExpiry" /\ pc' = [pc EXCEPT ![r] = "refused"]
      /\ audit' \in {audit, audit \cup {<<"auth.session_expired", sess[r], r>>}}
      /\ UNCHANGED <<active, login, issuedAt, capAt, lastSeen, endedAt, endedReason,
                     sess, now, kind, barred>>
  BY DEF AuditExpiry
<1>2. \A q \in Request : /\ pc'[q] = "done" <=> pc[q] = "done"
                         /\ q # r => pc'[q] = pc[q]
                         /\ pc'[q] \in Passed <=> pc[q] \in Passed
  BY <1>1 DEF TypeOK, Passed, InTransaction
<1>3. BarsHold'  BY <1>1, <1>2 DEF TypeOK, BarsHold, Admitted
<1>4. RowsHold'  BY <1>1, <1>2 DEF RowsHold
<1>5. PassedHold'  BY <1>1, <1>2 DEF PassedHold, ChainedTo
<1>6. \A s \in Session, q \in Request :
         <<"auth.sign_out", s, q>> \in audit' <=> <<"auth.sign_out", s, q>> \in audit
  BY <1>1
<1>7. SignOutAuditMatches'  BY <1>1, <1>2, <1>6 DEF SignOutAuditMatches
<1>8. QED  BY <1>3, <1>4, <1>5, <1>7

\* Only reaching a bound sends a request to end its row, and names the bound.
LEMMA WhyHoldsStep ==
    ASSUME IInv, NEW r \in Request, Proceed(r) \/ ExpireGiveUp(r) \/ Abort(r)
    PROVE  WhyHolds'
<1> USE DEF IInv, TypeOK, WhyHolds
<1>1. CASE RefuseAtBound(r)
  <2>1. ReachedBound(sess[r], now[r]) \in Bounds
    BY <1>1, ReachedBoundType DEF RefuseAtBound, Begun
  <2>2. QED  BY <1>1, <2>1 DEF RefuseAtBound
<1>2. CASE ~RefuseAtBound(r)
  <2>1. /\ why' = why
        /\ \E to \in Stages \ {"expire"} :
              /\ pc' = [pc EXCEPT ![r] = to]
              /\ to = "expireWrite" => pc[r] = "expire"
    BY <1>2 DEF Proceed, ReadClock, RefuseEnded, FindLive, Touch, AdmitUser, RefuseUser, Handle,
       Commit, ExpireSelect, ExpireWrite, AuditExpiry, ExpireGiveUp, Abort, Stages, Waiting,
       InTransaction, Answered
  <2>2. QED  BY <2>1
<1>3. QED  BY <1>1, <1>2

\* The row passes from one transaction to the next: whoever takes it finds nobody
\* in possession, and whoever ends it is in possession or finds nobody there.
LEMMA HeldStep ==
    ASSUME IInv, NEW r \in Request, Proceed(r) \/ ExpireGiveUp(r) \/ Abort(r)
    PROVE  Held'
<1> USE SessionsAssumption DEF IInv, Held, rowVars
<1>1. /\ UNCHANGED <<sess, kind>>
      /\ \A q \in Request \ {r} : pc'[q] = pc[q] /\ endAt'[q] = endAt[q]
      /\ sess[r] \in Session
  <2>1. UNCHANGED <<sess, kind>> /\ pc[r] # "new"
        /\ \A q \in Request \ {r} : pc'[q] = pc[q] /\ endAt'[q] = endAt[q]
    BY DEF TypeOK, Proceed, ReadClock, RefuseEnded, RefuseAtBound, FindLive, Touch, AdmitUser,
       RefuseUser, Handle, Commit, ExpireSelect, ExpireWrite, AuditExpiry, ExpireGiveUp, Abort,
       Waiting
  <2>2. QED  BY <2>1 DEF Begun
<1>2. ASSUME rowLock[sess[r]] \in {None, r},
             pc'[r] \in InTransaction => rowLock'[sess[r]] = r,
             \A s \in Session \ {sess[r]} :
                rowLock'[s] = rowLock[s] /\ endedAt'[s] = endedAt[s],
             pc'[r] = "commit" =>
                /\ endAt'[r] # None => endedAt'[sess[r]] = None
                /\ kind[r] = "logout" /\ endAt'[r] = None => endedAt'[sess[r]] # None
      PROVE  Held'
  <2>1. \A q \in Request \ {r} : pc'[q] \in InTransaction => sess[q] \in Session \ {sess[r]}
    BY <1>1, <1>2 DEF LockHolds, Begun, InTransaction
  <2>2. LockHolds'  BY <1>1, <1>2, <2>1 DEF LockHolds
  <2>3. \A q \in Request \ {r} : pc'[q] = "commit" => endedAt'[sess[q]] = endedAt[sess[q]]
    BY <1>2, <2>1 DEF InTransaction
  <2>4. EndsHold'  BY <1>1, <1>2, <2>3 DEF EndsHold
  <2>5. QED  BY <2>2, <2>4
<1>3. CASE Handle(r)
  <2>1. /\ pc[r] = "handler" /\ pc' = [pc EXCEPT ![r] = "commit"]
        /\ UNCHANGED <<rowLock, endedAt>>
        /\ endAt'[r] = IF kind[r] = "logout" /\ endedAt[sess[r]] = None THEN clock ELSE None
    BY <1>3 DEF Handle, TypeOK
  <2>2. rowLock[sess[r]] = r  BY <2>1 DEF LockHolds, InTransaction
  <2>3. clock # None  BY DEF TypeOK
  <2>4. QED  BY <1>1, <1>2, <2>1, <2>2, <2>3
<1>4. CASE Touch(r) \/ ExpireWrite(r)
  <2>1. rowLock[sess[r]] = None /\ pc'[r] # "commit"
    BY <1>4 DEF Touch, ExpireWrite, TypeOK
  <2>2. pc'[r] \in InTransaction => rowLock'[sess[r]] = r
    BY <1>1, <1>4 DEF Touch, ExpireWrite, InTransaction, TypeOK
  <2>3. \A s \in Session \ {sess[r]} : rowLock'[s] = rowLock[s] /\ endedAt'[s] = endedAt[s]
    BY <1>1, <1>4 DEF Touch, ExpireWrite, TypeOK
  <2>4. QED  BY <1>2, <2>1, <2>2, <2>3
<1>5. CASE RefuseUser(r) \/ Commit(r) \/ (Abort(r) /\ pc[r] \in InTransaction)
  <2>1. pc[r] \in InTransaction /\ pc'[r] \notin InTransaction
    BY <1>5 DEF RefuseUser, Commit, Abort, InTransaction, Waiting, TypeOK
  <2>2. rowLock[sess[r]] = r  BY <2>1 DEF LockHolds
  <2>3. \A s \in Session \ {sess[r]} : rowLock'[s] = rowLock[s] /\ endedAt'[s] = endedAt[s]
    BY <1>1, <1>5 DEF RefuseUser, Commit, Abort, TypeOK
  <2>4. QED  BY <1>2, <2>1, <2>2, <2>3 DEF InTransaction
<1>6. CASE \/ ReadClock(r) \/ RefuseEnded(r) \/ RefuseAtBound(r) \/ FindLive(r) \/ AdmitUser(r)
           \/ ExpireSelect(r) \/ AuditExpiry(r) \/ ExpireGiveUp(r)
           \/ (Abort(r) /\ pc[r] \notin InTransaction)
  <2>1. /\ UNCHANGED <<rowLock, endedAt>> /\ pc'[r] # "commit"
        /\ pc'[r] \in InTransaction => pc[r] \in InTransaction
    BY <1>6 DEF ReadClock, RefuseEnded, RefuseAtBound, FindLive, AdmitUser, ExpireSelect,
       AuditExpiry, ExpireGiveUp, Abort, InTransaction, Waiting, TypeOK
  <2>2. LockHolds'  BY <1>1, <2>1 DEF LockHolds
  <2>3. EndsHold'  BY <1>1, <2>1 DEF EndsHold
  <2>4. QED  BY <2>2, <2>3
<1>7. QED  BY <1>3, <1>4, <1>5, <1>6 DEF Proceed

\* Every step of the mechanism keeps the inductive invariant.
LEMMA IInvStep == IInv /\ [Next]_vars => IInv'
<1> SUFFICES ASSUME IInv, [Next]_vars PROVE IInv'
  OBVIOUS
<1>1. TypeOK' /\ Begun'  BY BegunStep DEF IInv
<1>2. CASE \/ Tick
           \/ \E u \in User : Deactivate(u)
           \/ \E s \in Session : ResolveAccount(s) \/ CreateSession(s)
  <2>1. UNCHANGED <<pc, why, kind, sess, endAt, rowLock, endedAt>>
    BY <1>2 DEF Tick, Deactivate, ResolveAccount, CreateSession, reqVars, rowVars
  <2>2. WhyHolds' /\ Held'  BY <2>1 DEF IInv, WhyHolds, Held, LockHolds, EndsHold
  <2>3. QED  BY <1>1, <1>2, <2>2, EnvironmentStep DEF IInv
<1>3. ASSUME NEW r \in Request, NEW s \in Session, NEW k \in Kinds, VerifyToken(r, s, k)
      PROVE  IInv'
  <2>1. WhyHolds' /\ Held'
    BY <1>3 DEF VerifyToken, IInv, TypeOK, WhyHolds, Held, LockHolds, EndsHold, InTransaction,
       rowVars
  <2>2. QED  BY <1>1, <1>3, <2>1, VerifyTokenStep DEF IInv
<1>4. ASSUME NEW r \in Request, Proceed(r) \/ ExpireGiveUp(r) \/ Abort(r)
      PROVE  IInv'
  <2>1. WhyHolds' /\ Held'  BY <1>4, WhyHoldsStep, HeldStep
  <2>2. Grouped'
    BY <1>4, QuietStep, FindLiveStep, AdmitUserStep, CommitStep, ExpireWriteStep,
       AuditExpiryStep DEF Proceed
  <2>3. QED  BY <1>1, <2>1, <2>2 DEF IInv
<1>5. CASE UNCHANGED vars
  BY <1>1, <1>5 DEF vars, reqVars, rowVars, IInv, WhyHolds, Held, LockHolds, EndsHold, Grouped,
     BarsHold, RowsHold, PassedHold, ChainedTo, SignOutAuditMatches
<1>6. QED  BY <1>2, <1>3, <1>4, <1>5 DEF Next

\* The inductive invariant holds in every reachable state.
THEOREM Invariance == Spec => []IInv
BY InitIInv, IInvStep, PTL DEF Spec

-----------------------------------------------------------------------------
(* The properties the runs check, for every instance.                      *)

\* A request that arrives after its session ended, after the cap or after its
\* user was deactivated is never admitted.
THEOREM NeverAdmitted == Spec => []BarredNeverAdmitted
<1>1. IInv => BarredNeverAdmitted
  BY DEF IInv, Grouped, BarsHold, BarredNeverAdmitted, TypeOK, Admitted
<1>2. QED  BY <1>1, Invariance, PTL

\* Nothing is served past sign-in plus the absolute lifetime.
THEOREM CapHolds == Spec => []CapCountsFromSignIn
<1>1. IInv => CapCountsFromSignIn
  BY DEF IInv, Grouped, RowsHold, PassedHold, Begun, CapCountsFromSignIn, Passed, Admitted,
     InTransaction
<1>2. QED  BY <1>1, Invariance, PTL

\* Every admitted use is within the idle timeout of an earlier one.
THEOREM ChainHolds == Spec => []ActivityChain
<1>1. IInv => ActivityChain
  BY DEF IInv, Grouped, PassedHold, ChainedTo, ActivityChain, Passed, Admitted, InTransaction
<1>2. QED  BY <1>1, Invariance, PTL

\* Overlapping sign-outs end their session once, with one entry in the same commit,
\* and every one of them that is answered leaves it ended.
THEOREM SignOutAudited == Spec => []SignOutAuditMatches
<1>1. IInv => SignOutAuditMatches  BY DEF IInv, Grouped
<1>2. QED  BY <1>1, Invariance, PTL

\* Both bounds together.
THEOREM LifetimesHold == Spec => []LifetimeHolds
BY CapHolds, ChainHolds, PTL DEF LifetimeHolds

\* A committed end is never undone.
THEOREM EndsAreFinal == Spec => EndedIsFinal
<1>1. IInv /\ [Next]_vars => [\A s \in Session : endedAt[s] # None => endedAt'[s] # None]_vars
  <2> SUFFICES ASSUME IInv, Next, NEW s \in Session, endedAt[s] # None
               PROVE  endedAt'[s] # None
    OBVIOUS
  <2>1. endedAt' = endedAt
        \/ \E r \in Request, t \in Int : endedAt' = [endedAt EXCEPT ![sess[r]] = t]
    BY DEF IInv, TypeOK, Next, Tick, Deactivate, ResolveAccount, CreateSession, VerifyToken,
       Proceed, ReadClock, RefuseEnded, RefuseAtBound, FindLive, Touch, AdmitUser, RefuseUser,
       Handle, Commit, ExpireSelect, ExpireWrite, AuditExpiry, ExpireGiveUp, Abort, rowVars,
       reqVars
  <2>2. QED  BY <2>1, SessionsAssumption DEF IInv, TypeOK
<1>2. QED  BY <1>1, Invariance, PTL DEF Spec, EndedIsFinal

-----------------------------------------------------------------------------
(***************************************************************************)
(* The mechanism implements the contract.  Life and Phase are the mapped   *)
(* variables; a step of the mechanism is a step of the contract on them or *)
(* leaves them alone.                                                      *)
(***************************************************************************)
Life ==
    [s \in Session |->
       IF login[s] # "open" THEN "absent"
       ELSE IF endedAt[s] = None /\ clock < capAt[s] THEN "live" ELSE "over"]

Phase ==
    [r \in Request |->
       IF pc[r] = "new" THEN "none"
       ELSE IF pc[r] \in {"refused", "errored"} THEN "refused"
       ELSE IF pc[r] \in Admitted THEN "granted"
       ELSE IF barred[r] = {} THEN "eligible" ELSE "barred"]

\* A closing of any set of sessions is a step of the contract.
LEMMA CloseIsNext ==
    ASSUME NEW S \in SUBSET Session, Contract!Close(S)
    PROVE  Contract!Next
BY Zenon DEF Contract!Next

\* Sessions can only go from live to over here: the mapped step is a Close.
LEMMA LapseIsClose ==
    ASSUME UNCHANGED <<login, active, sess, Phase>>,
           \A s \in Session : login[s] = "open" /\ Life'[s] # Life[s] =>
               Life[s] = "live" /\ Life'[s] = "over"
    PROVE  Contract!Next \/ UNCHANGED Contract!contractVars
<1>1. PICK S \in SUBSET Session : S = {s \in Session : Life[s] = "live" /\ Life'[s] = "over"}
  OBVIOUS
<1>2. Life' = [s \in Session |-> IF s \in S THEN "over" ELSE Life[s]]
  BY <1>1 DEF Life
<1>3. Contract!Close(S)  BY <1>1, <1>2 DEF Contract!Close, Life, Phase
<1>4. QED  BY <1>3, CloseIsNext

\* The mapped initial state is the contract's.
LEMMA InitRefines == Init => Contract!Init
BY DEF Init, Contract!Init

\* Every step of the mechanism is a step of the contract or stutters on it.
LEMMA StepRefines == IInv /\ [Next]_vars => [Contract!Next]_(Contract!contractVars)
<1> SUFFICES ASSUME IInv, [Next]_vars
             PROVE  Contract!Next \/ UNCHANGED Contract!contractVars
  OBVIOUS
<1> USE SessionsAssumption
<1>1. CASE Tick
  <2>1. UNCHANGED <<login, active, sess, Phase>> /\ clock' = clock + 1
        /\ UNCHANGED <<endedAt, capAt>>
    BY <1>1 DEF Tick, reqVars, rowVars, Phase
  <2>2. \A s \in Session : Life'[s] # Life[s] => Life[s] = "live" /\ Life'[s] = "over"
    BY <2>1 DEF Life, IInv, TypeOK
  <2>3. QED  BY <2>1, <2>2, LapseIsClose
<1>2. ASSUME NEW u \in User, Deactivate(u)
      PROVE  Contract!Next \/ UNCHANGED Contract!contractVars
  <2>1. Contract!LoseStanding(u)
    BY <1>2 DEF Deactivate, Contract!LoseStanding, reqVars, rowVars
  <2>2. QED  BY <2>1, Zenon DEF Contract!Next
<1>3. ASSUME NEW s \in Session, ResolveAccount(s)
      PROVE  Contract!Next \/ UNCHANGED Contract!contractVars
  <2>1. UNCHANGED <<active, sess, pc, barred, endedAt, capAt, clock>>
        /\ \A x \in Session : login'[x] = "open" <=> login[x] = "open"
    BY <1>3 DEF ResolveAccount, reqVars, rowVars, IInv, TypeOK
  <2>2. UNCHANGED <<active, sess, Life, Phase>>  BY <2>1 DEF Life, Phase
  <2>3. QED  BY <2>2 DEF Contract!contractVars, Life, Phase
<1>4. ASSUME NEW s \in Session, CreateSession(s)
      PROVE  Contract!Next \/ UNCHANGED Contract!contractVars
  <2>1. /\ login[s] = "resolved" /\ login' = [login EXCEPT ![s] = "open"]
        /\ capAt' = [capAt EXCEPT ![s] = clock + AbsoluteLifetime]
        /\ UNCHANGED <<active, sess, pc, barred, endedAt, clock>>
        /\ endedAt[s] = None
    BY <1>4 DEF CreateSession, reqVars, IInv, Grouped, RowsHold
  <2>2. Life[s] = "absent" /\ Life' = [Life EXCEPT ![s] = "live"]
    <3>1. clock < clock + AbsoluteLifetime  BY DEF IInv, TypeOK
    <3>2. login'[s] = "open" /\ capAt'[s] = clock + AbsoluteLifetime
      BY <2>1 DEF IInv, TypeOK
    <3>3. Life'[s] = "live"  BY <2>1, <3>1, <3>2 DEF Life
    <3>4. \A x \in Session : x # s => Life'[x] = Life[x]
      BY <2>1 DEF Life, IInv, TypeOK
    <3>5. QED  BY <2>1, <3>3, <3>4 DEF Life
  <2>3. UNCHANGED <<active, sess, Phase>>  BY <2>1 DEF Phase
  <2>4. Contract!Open(s)  BY <2>2, <2>3 DEF Contract!Open, Life, Phase
  <2>5. QED  BY <2>4, Zenon DEF Contract!Next
<1>5. ASSUME NEW r \in Request, NEW s \in Session, NEW k \in Kinds, VerifyToken(r, s, k)
      PROVE  Contract!Next \/ UNCHANGED Contract!contractVars
  <2>1. /\ login[s] = "open" /\ pc[r] = "new"
        /\ pc' = [pc EXCEPT ![r] = IF clock < TokenExpiry(s) THEN "verified" ELSE "refused"]
        /\ sess' = [sess EXCEPT ![r] = s]
        /\ barred' = [barred EXCEPT ![r] = Against(s)]
        /\ UNCHANGED <<clock, active, login, endedAt, capAt>>
    BY <1>5 DEF VerifyToken, rowVars
  <2>2. Life[s] # "absent" /\ Phase[r] = "none" /\ UNCHANGED Life
    BY <2>1 DEF Life, Phase
  <2>3. CASE clock < TokenExpiry(s)
    <3>1. Against(s) = {} <=> Life[s] = "live" /\ active[Owner[s]]
      <4>1. Against(s) = {} <=> endedAt[s] = None /\ ~(clock >= capAt[s]) /\ active[Owner[s]]
        BY DEF Against
      <4>2. clock >= capAt[s] <=> ~(clock < capAt[s])  BY DEF IInv, TypeOK
      <4>3. QED  BY <2>1, <4>1, <4>2 DEF Life
    <3>2. Phase' = [Phase EXCEPT ![r] = IF Against(s) = {} THEN "eligible" ELSE "barred"]
      BY <2>1, <2>3 DEF Phase, IInv, TypeOK, Admitted
    <3>3. Contract!Arrive(r, s)
      BY <2>1, <2>2, <3>1, <3>2 DEF Contract!Arrive, Life, Phase
    <3>4. QED  BY <3>3, Zenon DEF Contract!Next
  <2>4. CASE ~(clock < TokenExpiry(s))
    <3>1. Phase' = [Phase EXCEPT ![r] = "refused"]
      BY <2>1, <2>4 DEF Phase, IInv, TypeOK
    <3>2. Contract!Turn(r, s)  BY <2>1, <2>2, <3>1 DEF Contract!Turn, Life, Phase
    <3>3. QED  BY <3>2, Zenon DEF Contract!Next
  <2>5. QED  BY <2>3, <2>4
<1>6. ASSUME NEW r \in Request, Proceed(r) \/ ExpireGiveUp(r) \/ Abort(r)
      PROVE  Contract!Next \/ UNCHANGED Contract!contractVars
  <2>1. UNCHANGED <<clock, active, login, capAt, sess, barred>> /\ pc[r] # "new"
        /\ sess[r] \in Session /\ pc[r] \in Stages
    <3>1. UNCHANGED <<clock, active, login, capAt, sess, barred>> /\ pc[r] # "new"
      BY <1>6 DEF Proceed, ReadClock, RefuseEnded, RefuseAtBound, FindLive, Touch, AdmitUser,
         RefuseUser, Handle, Commit, ExpireSelect, ExpireWrite, AuditExpiry, ExpireGiveUp,
         Abort, rowVars, Waiting
    <3>2. QED  BY <3>1 DEF IInv, TypeOK, Begun
  <2>2. CASE AdmitUser(r)
    <3>1. barred[r] = {}
      BY <2>2 DEF AdmitUser, IInv, Grouped, BarsHold, TypeOK
    <3>2. pc[r] = "user" /\ pc' = [pc EXCEPT ![r] = "handler"] /\ UNCHANGED endedAt
      BY <2>2 DEF AdmitUser, rowVars
    <3>3. Phase[r] = "eligible" /\ Phase' = [Phase EXCEPT ![r] = "granted"] /\ UNCHANGED Life
      BY <2>1, <3>1, <3>2 DEF Phase, Life, IInv, TypeOK, Admitted
    <3>4. Contract!Grant(r)  BY <2>1, <3>3 DEF Contract!Grant, Life, Phase
    <3>5. QED  BY <3>4, Zenon DEF Contract!Next
  <2>3. ASSUME NEW p \in Waiting \cup {"user"}, NEW to \in {"refused", "errored"},
               pc[r] = p, pc' = [pc EXCEPT ![r] = to], UNCHANGED endedAt
        PROVE  Contract!Next \/ UNCHANGED Contract!contractVars
    <3>1. Phase[r] \in {"eligible", "barred"} /\ Phase' = [Phase EXCEPT ![r] = "refused"]
          /\ UNCHANGED Life
      BY <2>1, <2>3 DEF Phase, Life, IInv, TypeOK, Admitted, Waiting
    <3>2. Contract!Refuse(r)  BY <2>1, <3>1 DEF Contract!Refuse, Life, Phase
    <3>3. QED  BY <3>2, Zenon DEF Contract!Next
  <2>4. ASSUME NEW to \in Stages \ {"new", "refused", "errored"},
               pc' = [pc EXCEPT ![r] = to], pc[r] \notin {"new", "refused", "errored"},
               to \in Admitted <=> pc[r] \in Admitted,
               \A s \in Session : endedAt[s] # None => endedAt'[s] # None
        PROVE  Contract!Next \/ UNCHANGED Contract!contractVars
    <3>1. UNCHANGED Phase  BY <2>1, <2>4 DEF Phase, IInv, TypeOK
    <3>2. \A s \in Session : Life'[s] # Life[s] => Life[s] = "live" /\ Life'[s] = "over"
      BY <2>1, <2>4 DEF Life
    <3>3. QED  BY <2>1, <3>1, <3>2, LapseIsClose
  <2>5. CASE RefuseEnded(r) \/ RefuseUser(r) \/ AuditExpiry(r)
    BY <2>3, <2>5 DEF RefuseEnded, RefuseUser, AuditExpiry, Waiting, rowVars
  <2>6. CASE \/ ReadClock(r) \/ RefuseAtBound(r) \/ FindLive(r) \/ Touch(r) \/ Handle(r)
             \/ ExpireSelect(r) \/ ExpireGiveUp(r)
    <3>1. /\ UNCHANGED endedAt /\ pc[r] \notin {"new", "refused", "errored"}
          /\ \E to \in Stages \ {"new", "refused", "errored"} :
                pc' = [pc EXCEPT ![r] = to] /\ (to \in Admitted <=> pc[r] \in Admitted)
      BY <2>6 DEF ReadClock, RefuseAtBound, FindLive, Touch, Handle, ExpireSelect,
         ExpireGiveUp, rowVars, Stages, Waiting, InTransaction, Answered, Admitted
    <3>2. QED  BY <2>4, <3>1
  <2>7. CASE Commit(r) \/ ExpireWrite(r)
    <3>1. /\ pc[r] \notin {"new", "refused", "errored"}
          /\ \E to \in Stages \ {"new", "refused", "errored"} :
                pc' = [pc EXCEPT ![r] = to] /\ (to \in Admitted <=> pc[r] \in Admitted)
      BY <2>7 DEF Commit, ExpireWrite, Stages, Waiting, InTransaction, Answered, Admitted
    <3>2. \A s \in Session : endedAt[s] # None => endedAt'[s] # None
      BY <2>7 DEF Commit, ExpireWrite, IInv, TypeOK
    <3>3. QED  BY <2>4, <3>1, <3>2
  <2>8. CASE Abort(r)
    <3>1. UNCHANGED endedAt  BY <2>8 DEF Abort, rowVars
    <3>2. \/ \E p \in Waiting \cup {"user"} : pc[r] = p /\ pc' = [pc EXCEPT ![r] = "errored"]
          \/ pc[r] \in {"handler", "commit"} /\ pc' = [pc EXCEPT ![r] = "failed"]
      BY <2>8 DEF Abort
    <3>3. CASE \E p \in Waiting \cup {"user"} : pc[r] = p /\ pc' = [pc EXCEPT ![r] = "errored"]
      BY <2>3, <3>1, <3>3
    <3>4. CASE pc[r] \in {"handler", "commit"} /\ pc' = [pc EXCEPT ![r] = "failed"]
      BY <2>4, <3>1, <3>4 DEF Stages, Answered, Admitted
    <3>5. QED  BY <3>2, <3>3, <3>4
  <2>9. QED  BY <1>6, <2>2, <2>5, <2>6, <2>7, <2>8 DEF Proceed
<1>7. CASE UNCHANGED vars
  BY <1>7 DEF vars, reqVars, rowVars, Contract!contractVars
<1>8. QED  BY <1>1, <1>2, <1>3, <1>4, <1>5, <1>6, <1>7 DEF Next

\* Every behaviour of the rows, locks and transactions is one the contract
\* allows: no request that arrives too late is ever granted.
THEOREM Refinement == Spec => ImplementsContract
<1>1. Init => Contract!Init  BY InitRefines
<1>2. IInv /\ [Next]_vars => [Contract!Next]_(Contract!contractVars)  BY StepRefines
<1>3. QED  BY <1>1, <1>2, Invariance, PTL DEF Spec, ImplementsContract, Contract!ContractSpec

-----------------------------------------------------------------------------
(***************************************************************************)
(* LoginBounds                                                             *)
(***************************************************************************)

USE LoginAssumption DEF Go, Reply, Key

(***************************************************************************)
(* Type correctness.                                                       *)
(***************************************************************************)

\* Both counters of an attempt are keys.
LEMMA KeysAreKeys == ASSUME BoundsTypeOK, NEW w \in Worker PROVE Keys(w) \subseteq Key
BY DEF BoundsTypeOK, Keys

\* Either bound is a positive number.
LEMMA BoundIsPositive == \A k \in Key : Bound(k) \in Nat \ {0}
BY DEF Bound

\* Forgetting keys and raising counters keep the counters in their types.
LEMMA CountersTyped ==
    ASSUME BoundsTypeOK, NEW w \in Worker
    PROVE  /\ \A gone \in SUBSET Key : Forget(gone) =>
                 /\ failures' \in [Key -> Nat]
                 /\ noticed' \in [Key -> Nat]
                 /\ reported' \subseteq Key
           /\ Raise(w) =>
                 /\ failures' \in [Key -> Nat]
                 /\ ttl' \in [Key -> 0 .. Window]
<1>1. \A gone \in SUBSET Key : Forget(gone) =>
         failures' \in [Key -> Nat] /\ noticed' \in [Key -> Nat] /\ reported' \subseteq Key
  BY DEF Forget, BoundsTypeOK
<1>2. Raise(w) => failures' \in [Key -> Nat] /\ ttl' \in [Key -> 0 .. Window]
   BY DEF Raise, BoundsTypeOK
<1>3. QED  BY <1>1, <1>2

\* Every variable starts in its type.
LEMMA BoundsInitTyped == BoundsInit => BoundsTypeOK
BY DEF BoundsInit, BoundsTypeOK, WorkerStages, Answers

\* Every step keeps every variable in its type.
LEMMA BoundsTypeStep == BoundsTypeOK /\ [BoundsNext]_boundsVars => BoundsTypeOK'
<1> SUFFICES ASSUME BoundsTypeOK, [BoundsNext]_boundsVars PROVE BoundsTypeOK'
  OBVIOUS
<1> USE DEF WorkerStages, Answers, counters, attempt
<1>1. CASE PassTime
  <2>1. ttl' \in [Key -> 0 .. Window]  BY <1>1 DEF PassTime, BoundsTypeOK
  <2>2. Forget({k \in Key : ttl[k] = 1})  BY <1>1 DEF PassTime
  <2>3. \A gone \in SUBSET Key : Forget(gone) =>
           failures' \in [Key -> Nat] /\ noticed' \in [Key -> Nat] /\ reported' \subseteq Key
    BY DEF Forget, BoundsTypeOK
  <2>4. QED  BY <1>1, <2>1, <2>2, <2>3 DEF PassTime, BoundsTypeOK
<1>2. ASSUME NEW w \in Worker, NEW a \in Account, NEW c \in Client, NEW p \in BOOLEAN,
             Arrive(w, a, c, p)
      PROVE  BoundsTypeOK'
  BY <1>2 DEF Arrive, BoundsTypeOK
<1>3. ASSUME NEW w \in Worker, Serve(w) \/ Die(w) PROVE BoundsTypeOK'
  <2> USE <1>3
  <2>1. CASE PassBounds(w)  BY <2>1 DEF PassBounds, BoundsTypeOK
  <2>2. CASE RefuseBlocked(w)  BY <2>2 DEF RefuseBlocked, BoundsTypeOK
  <2>3. CASE ReadUnavailable(w)  BY <2>3 DEF ReadUnavailable, BoundsTypeOK
  <2>4. CASE Judge(w)  BY <2>4 DEF Judge, BoundsTypeOK
  <2>5. CASE RecordFailure(w)
    <3>1. JustReached(w) \subseteq Key  BY KeysAreKeys DEF JustReached
    <3>2. noticed' \in [Key -> Nat] /\ reached' \in [Worker -> SUBSET Key]
      BY <2>5, <3>1 DEF RecordFailure, BoundsTypeOK
    <3>3. QED  BY <2>5, <3>2, CountersTyped DEF RecordFailure, BoundsTypeOK
  <2>6. CASE RecordUnavailable(w)
    <3>1. failures' \in [Key -> Nat] /\ ttl' \in [Key -> 0 .. Window]
           /\ counted' \in [Worker -> BOOLEAN]
      BY <2>6, CountersTyped DEF RecordUnavailable, BoundsTypeOK
    <3>2. QED  BY <2>6, <3>1 DEF RecordUnavailable, BoundsTypeOK
  <2>7. CASE AuditFailure(w)  BY <2>7 DEF AuditFailure, BoundsTypeOK
  <2>8. CASE AuditLockout(w)
    <3>1. reached[w] \subseteq Key  BY DEF BoundsTypeOK
    <3>2. QED  BY <2>8, <3>1 DEF AuditLockout, BoundsTypeOK
  <2>9. CASE OpenSession(w)  BY <2>9 DEF OpenSession, BoundsTypeOK
  <2>10. CASE ClearAccount(w)
    <3>1. {account[w]} \in SUBSET Key  BY DEF BoundsTypeOK
    <3>2. CASE UNCHANGED counters  BY <2>10, <3>2 DEF ClearAccount, BoundsTypeOK
    <3>3. CASE Forget({account[w]}) /\ ttl' = [ttl EXCEPT ![account[w]] = 0]
      <4>1. ttl' \in [Key -> 0 .. Window]  BY <3>3 DEF BoundsTypeOK
      <4>2. QED  BY <2>10, <3>1, <3>3, <4>1, CountersTyped DEF ClearAccount, BoundsTypeOK
    <3>4. QED  BY <2>10, <3>2, <3>3 DEF ClearAccount
  <2>11. CASE Die(w)  BY <2>11 DEF Die, BoundsTypeOK
  <2>12. QED
    BY <2>1, <2>2, <2>3, <2>4, <2>5, <2>6, <2>7, <2>8, <2>9, <2>10, <2>11 DEF Serve
<1>4. CASE UNCHANGED boundsVars  BY <1>4 DEF boundsVars, BoundsTypeOK
<1>5. QED  BY <1>1, <1>2, <1>3, <1>4 DEF BoundsNext

\* Every reachable state is well typed.
THEOREM BoundsTypeCorrect == BoundsSpec => []BoundsTypeOK
BY BoundsInitTyped, BoundsTypeStep, PTL DEF BoundsSpec

-----------------------------------------------------------------------------
(***************************************************************************)
(* How far past a bound the counters go.  An attempt is in flight on a key *)
(* from its read of the counters to its raising of them.  Counting those   *)
(* attempts with the failures makes the bound inductive: only a read that  *)
(* found the key below its bound adds one, and raising the key moves one   *)
(* from one term of the sum to the other.                                  *)
(***************************************************************************)
InFlight(k) == {w \in Worker : phase[w] \in {"judge", "record"} /\ k \in Keys(w)}

Charged ==
    \A k \in Key :
        failures[k] + Cardinality(InFlight(k)) <= Bound(k) + Cardinality(Worker) - 1

\* The attempts in flight are finitely many, and no more than the threads.
LEMMA FewInFlight ==
    ASSUME NEW S \in SUBSET Worker
    PROVE  /\ IsFiniteSet(S)
           /\ Cardinality(S) \in Nat
           /\ Cardinality(S) <= Cardinality(Worker)
           /\ \A w \in S : Cardinality(S \ {w}) = Cardinality(S) - 1
BY FS_Subset, FS_CardinalityType, FS_RemoveElement

\* A step that raises no counter and starts no attempt keeps the sum in bounds.
LEMMA NothingAdded ==
    ASSUME BoundsTypeOK, BoundsTypeOK', Charged,
           \A k \in Key : failures'[k] <= failures[k] /\ InFlight(k)' \subseteq InFlight(k)
    PROVE  Charged'
<1> SUFFICES ASSUME NEW k \in Key
             PROVE  failures'[k] + Cardinality(InFlight(k)')
                       <= Bound(k) + Cardinality(Worker) - 1
  BY DEF Charged, Bound
<1>1. InFlight(k) \in SUBSET Worker /\ IsFiniteSet(InFlight(k))
  BY FewInFlight DEF InFlight
<1>2. Cardinality(InFlight(k)') <= Cardinality(InFlight(k))  BY <1>1, FS_Subset
<1>3. Cardinality(InFlight(k)') \in Nat /\ Cardinality(InFlight(k)) \in Nat
  BY FewInFlight DEF InFlight
<1>4. failures[k] \in Nat /\ failures'[k] \in Nat  BY DEF BoundsTypeOK
<1>5. Cardinality(Worker) \in Nat  BY FS_CardinalityType
<1>6. QED  BY <1>2, <1>3, <1>4, <1>5, BoundIsPositive DEF Charged

\* A read that finds both keys below their bounds can only bring them up to the
\* number of threads.
LEMMA ReadCharged ==
    ASSUME BoundsTypeOK, Charged, NEW w \in Worker, PassBounds(w)
    PROVE  Charged'
<1> SUFFICES ASSUME NEW k \in Key
             PROVE  failures[k] + Cardinality(InFlight(k)')
                       <= Bound(k) + Cardinality(Worker) - 1
  BY DEF Charged, Bound, PassBounds, counters
<1>1. phase' = [phase EXCEPT ![w] = "judge"] /\ phase[w] = "read" /\ UNCHANGED <<account, client>>
  BY DEF PassBounds, attempt
<1>2. failures[k] \in Nat /\ Bound(k) \in Nat /\ Cardinality(Worker) \in Nat
      /\ Cardinality(InFlight(k)') \in Nat
      /\ Cardinality(InFlight(k)') <= Cardinality(Worker)
  BY FewInFlight, FS_CardinalityType, BoundIsPositive DEF BoundsTypeOK, InFlight
<1>3. CASE k \in Keys(w)
  <2>1. failures[k] < Bound(k)  BY <1>2, <1>3 DEF PassBounds, Locked
  <2>2. QED  BY <1>2, <2>1
<1>4. CASE k \notin Keys(w)
  <2>1. InFlight(k)' = InFlight(k)  BY <1>1, <1>4 DEF InFlight, Keys, BoundsTypeOK
  <2>2. QED  BY <2>1 DEF Charged
<1>5. QED  BY <1>3, <1>4

\* Raising a key takes its attempt out of flight.
LEMMA RaiseCharged ==
    ASSUME BoundsTypeOK, Charged, NEW w \in Worker, Raise(w), phase[w] = "record",
           NEW to \in {"idle", "auditFailure"}, phase' = [phase EXCEPT ![w] = to],
           UNCHANGED <<account, client>>
    PROVE  Charged'
<1> SUFFICES ASSUME NEW k \in Key
             PROVE  failures'[k] + Cardinality(InFlight(k)')
                       <= Bound(k) + Cardinality(Worker) - 1
  BY DEF Charged, Bound
<1>1. InFlight(k) \in SUBSET Worker /\ failures[k] \in Nat /\ Bound(k) \in Nat
      /\ Cardinality(Worker) \in Nat
  BY FS_CardinalityType, BoundIsPositive DEF InFlight, BoundsTypeOK
<1>2. CASE k \in Keys(w)
  <2>1. w \in InFlight(k) /\ InFlight(k)' = InFlight(k) \ {w}
    BY <1>2 DEF InFlight, Keys, BoundsTypeOK
  <2>2. failures'[k] = failures[k] + 1  BY <1>2 DEF Raise
  <2>3. Cardinality(InFlight(k)') = Cardinality(InFlight(k)) - 1
        /\ Cardinality(InFlight(k)) \in Nat
    BY <1>1, <2>1, FewInFlight
  <2>4. QED  BY <1>1, <2>2, <2>3 DEF Charged
<1>3. CASE k \notin Keys(w)
  <2>1. InFlight(k)' = InFlight(k)  BY <1>3 DEF InFlight, Keys, BoundsTypeOK
  <2>2. failures'[k] = failures[k]  BY <1>3 DEF Raise
  <2>3. QED  BY <2>1, <2>2 DEF Charged
<1>4. QED  BY <1>2, <1>3

\* Every step keeps the sum in bounds.
LEMMA ChargedStep == BoundsTypeOK /\ Charged /\ [BoundsNext]_boundsVars => Charged'
<1> SUFFICES ASSUME BoundsTypeOK, Charged, [BoundsNext]_boundsVars PROVE Charged'
  OBVIOUS
<1>1. BoundsTypeOK'  BY BoundsTypeStep
<1>2. \A k \in Key : failures[k] \in Nat  BY DEF BoundsTypeOK
<1>3. CASE PassTime
  <2>1. UNCHANGED <<phase, account, client>> /\ \A k \in Key : failures'[k] <= failures[k]
    BY <1>2, <1>3 DEF PassTime, Forget, attempt
  <2>2. QED  BY <1>1, <2>1, NothingAdded DEF InFlight, Keys
<1>4. ASSUME NEW w \in Worker, NEW a \in Account, NEW c \in Client, NEW p \in BOOLEAN,
             Arrive(w, a, c, p)
      PROVE  Charged'
  <2>1. \A v \in Worker : phase'[v] \in {"judge", "record"} =>
           v # w /\ phase'[v] = phase[v] /\ account'[v] = account[v] /\ client'[v] = client[v]
    BY <1>4 DEF Arrive, BoundsTypeOK
  <2>2. \A k \in Key : failures'[k] <= failures[k]  BY <1>2, <1>4 DEF Arrive, counters
  <2>3. \A k \in Key : InFlight(k)' \subseteq InFlight(k)  BY <2>1 DEF InFlight, Keys
  <2>4. QED  BY <1>1, <2>2, <2>3, NothingAdded
<1>5. ASSUME NEW w \in Worker, Serve(w) \/ Die(w) PROVE Charged'
  <2> USE <1>5
  <2>1. UNCHANGED <<account, client>>
    BY DEF Serve, PassBounds, RefuseBlocked, ReadUnavailable, Judge, RecordFailure,
       RecordUnavailable, AuditFailure, AuditLockout, OpenSession, ClearAccount, Die,
       attempt
  <2>2. CASE PassBounds(w)  BY <2>2, ReadCharged
  <2>3. CASE RecordFailure(w)  BY <2>1, <2>3, RaiseCharged DEF RecordFailure
  <2>4. CASE RecordUnavailable(w) /\ Raise(w)
    BY <2>1, <2>4, RaiseCharged DEF RecordUnavailable
  <2>5. CASE /\ \E to \in WorkerStages : phase' = [phase EXCEPT ![w] = to]
                    /\ (to \in {"judge", "record"} => phase[w] \in {"judge", "record"})
             /\ \A k \in Key : failures'[k] <= failures[k]
    <3>1. \A k \in Key : InFlight(k)' \subseteq InFlight(k)
      BY <2>1, <2>5 DEF InFlight, Keys, BoundsTypeOK
    <3>2. QED  BY <1>1, <2>5, <3>1, NothingAdded
  <2>6. CASE RecordUnavailable(w) /\ ~Raise(w)
    BY <1>2, <2>5, <2>6 DEF RecordUnavailable, WorkerStages
  <2>7. CASE RefuseBlocked(w) \/ ReadUnavailable(w) \/ Judge(w)
    BY <1>2, <2>5, <2>7 DEF RefuseBlocked, ReadUnavailable, Judge, WorkerStages, counters
  <2>8. CASE AuditFailure(w) \/ AuditLockout(w) \/ OpenSession(w) \/ Die(w)
    BY <1>2, <2>5, <2>8 DEF AuditFailure, AuditLockout, OpenSession, Die, WorkerStages, counters
  <2>9. CASE ClearAccount(w)
    <3>1. \A k \in Key : failures'[k] <= failures[k]
      BY <1>2, <2>9 DEF ClearAccount, Forget, counters
    <3>2. phase' = [phase EXCEPT ![w] = "idle"]  BY <2>9 DEF ClearAccount
    <3>3. QED  BY <2>5, <3>1, <3>2 DEF WorkerStages
  <2>10. QED  BY <2>2, <2>3, <2>4, <2>6, <2>7, <2>8, <2>9 DEF Serve
<1>6. CASE UNCHANGED boundsVars
  BY <1>1, <1>2, <1>6, NothingAdded DEF boundsVars, counters, attempt, InFlight, Keys
<1>7. QED  BY <1>3, <1>4, <1>5, <1>6 DEF BoundsNext

\* The counters overshoot a bound by fewer than there are threads, whatever the
\* bound, the window and the interleaving.
THEOREM Overshoot == BoundsSpec => []OvershootBounded
<1>1. BoundsInit => Charged
  <2> SUFFICES ASSUME BoundsInit, NEW k \in Key
               PROVE  failures[k] + Cardinality(InFlight(k))
                         <= Bound(k) + Cardinality(Worker) - 1
    BY DEF Charged
  <2>1. InFlight(k) = {} /\ failures[k] = 0  BY DEF BoundsInit, InFlight
  <2>2. Cardinality(InFlight(k)) = 0  BY <2>1, FS_EmptySet
  <2>3. Cardinality(Worker) \in Nat /\ Bound(k) \in Nat \ {0}
    BY FS_CardinalityType, BoundIsPositive
  <2>4. QED  BY <2>1, <2>2, <2>3
<1>2. BoundsTypeOK /\ Charged => OvershootBounded
  <2> SUFFICES ASSUME BoundsTypeOK, Charged, NEW k \in Key
               PROVE  failures[k] <= Bound(k) + Cardinality(Worker) - 1
    BY DEF OvershootBounded
  <2>1. Cardinality(InFlight(k)) \in Nat /\ failures[k] \in Nat
    BY FewInFlight DEF InFlight, BoundsTypeOK
  <2>2. QED  BY <2>1, BoundIsPositive, FS_CardinalityType DEF Charged
<1>3. QED  BY <1>1, <1>2, ChargedStep, BoundsTypeCorrect, PTL DEF BoundsSpec

-----------------------------------------------------------------------------
(***************************************************************************)
(* What an attempt has done by the time it is answered, and who is told    *)
(* that a bound was reached.                                               *)
(***************************************************************************)
Progress ==
    \A w \in Worker :
        /\ phase[w] # "idle" => answer[w] = "none"
        /\ phase[w] \in {"read", "judge"} => hashed[w] = 0
        /\ phase[w] \in WorkerStages \ {"idle", "read", "judge"} => hashed[w] = 1
        /\ phase[w] \in {"auditFailure", "auditLockout"} => counted[w]
        /\ phase[w] \in {"create", "clear"} => right[w]

BoundsInv == BoundsTypeOK /\ Progress /\ NoFreeGuess /\ LockoutNoticedOnce

\* Raising keys and noticing those that come to their bound notices each once.
LEMMA NoticeOnce ==
    ASSUME BoundsTypeOK, LockoutNoticedOnce, NEW w \in Worker, Raise(w),
           \/ noticed' = [k \in Key |-> IF k \in JustReached(w) THEN noticed[k] + 1
                                         ELSE noticed[k]]
           \/ UNCHANGED noticed
    PROVE  LockoutNoticedOnce'
<1> SUFFICES ASSUME NEW k \in Key
             PROVE  noticed'[k] <= 1 /\ (noticed'[k] = 1 => failures'[k] >= Bound(k))
  BY DEF LockoutNoticedOnce, Locked, Bound
<1>1. failures[k] \in Nat /\ noticed[k] \in Nat /\ Bound(k) \in Nat
  BY BoundIsPositive DEF BoundsTypeOK
<1>2. failures'[k] \in Nat /\ failures'[k] >= failures[k]  BY <1>1 DEF Raise
<1>3. noticed[k] <= 1 /\ (noticed[k] = 1 => failures[k] >= Bound(k))
  BY DEF LockoutNoticedOnce, Locked
<1>4. CASE noticed'[k] = noticed[k]  BY <1>1, <1>2, <1>3, <1>4
<1>5. CASE noticed'[k] = noticed[k] + 1 /\ k \in JustReached(w)
  <2>1. k \in Keys(w) /\ failures[k] + 1 = Bound(k)  BY <1>5 DEF JustReached
  <2>2. noticed[k] = 0  BY <1>1, <1>3, <2>1
  <2>3. failures'[k] = Bound(k)  BY <2>1 DEF Raise
  <2>4. QED  BY <1>1, <1>5, <2>2, <2>3
<1>6. QED  BY <1>4, <1>5

\* Forgetting a key forgets that its bound was noticed.
LEMMA ForgetNotice ==
    ASSUME BoundsTypeOK, LockoutNoticedOnce, NEW gone, Forget(gone)
    PROVE  LockoutNoticedOnce'
BY BoundIsPositive DEF LockoutNoticedOnce, Forget, Locked, Bound, BoundsTypeOK

\* The strengthened invariant is inductive.
LEMMA BoundsInvStep == BoundsInv /\ [BoundsNext]_boundsVars => BoundsInv'
<1> SUFFICES ASSUME BoundsInv, [BoundsNext]_boundsVars PROVE BoundsInv'
  OBVIOUS
<1>1. BoundsTypeOK'  BY BoundsTypeStep DEF BoundsInv
<1> USE DEF BoundsInv, counters, attempt
<1>2. CASE PassTime
  <2>1. LockoutNoticedOnce'  BY <1>2, ForgetNotice DEF PassTime
  <2>2. QED  BY <1>1, <1>2, <2>1 DEF PassTime, Progress, NoFreeGuess
<1>3. ASSUME NEW w \in Worker, NEW a \in Account, NEW c \in Client, NEW p \in BOOLEAN,
             Arrive(w, a, c, p)
      PROVE  BoundsInv'
  <2>1. Progress'  BY <1>3 DEF Arrive, Progress, BoundsTypeOK, WorkerStages
  <2>2. NoFreeGuess'  BY <1>3 DEF Arrive, NoFreeGuess, BoundsTypeOK
  <2>3. LockoutNoticedOnce'  BY <1>3 DEF Arrive, LockoutNoticedOnce, Locked
  <2>4. QED  BY <1>1, <2>1, <2>2, <2>3
<1>4. ASSUME NEW w \in Worker, Serve(w) \/ Die(w) PROVE BoundsInv'
  <2> USE <1>4
  <2>1. LockoutNoticedOnce'
    <3>1. CASE RecordFailure(w)  BY <3>1, NoticeOnce DEF RecordFailure
    <3>2. CASE RecordUnavailable(w) /\ Raise(w)  BY <3>2, NoticeOnce DEF RecordUnavailable
    <3>3. CASE RecordUnavailable(w) /\ ~Raise(w)
      BY <3>3 DEF RecordUnavailable, LockoutNoticedOnce, Locked
    <3>4. CASE ClearAccount(w) /\ Forget({account[w]})  BY <3>4, ForgetNotice
    <3>5. CASE ClearAccount(w) /\ ~Forget({account[w]})
      BY <3>5 DEF ClearAccount, LockoutNoticedOnce, Locked
    <3>6. CASE ~RecordFailure(w) /\ ~RecordUnavailable(w) /\ ~ClearAccount(w)
      <4>1. UNCHANGED <<failures, noticed>>
        BY <3>6 DEF Serve, PassBounds, RefuseBlocked, ReadUnavailable, Judge, AuditFailure,
           AuditLockout, OpenSession, Die
      <4>2. QED  BY <4>1 DEF LockoutNoticedOnce, Locked
    <3>7. QED  BY <3>1, <3>2, <3>3, <3>4, <3>5, <3>6
  <2>2. Progress' /\ NoFreeGuess'
    <3> USE DEF Progress, NoFreeGuess, BoundsTypeOK, WorkerStages
    <3>1. CASE PassBounds(w)  BY <3>1 DEF PassBounds
    <3>2. CASE RefuseBlocked(w)  BY <3>2 DEF RefuseBlocked
    <3>3. CASE ReadUnavailable(w)  BY <3>3 DEF ReadUnavailable
    <3>4. CASE Judge(w)  BY <3>4 DEF Judge
    <3>5. CASE RecordFailure(w)  BY <3>5 DEF RecordFailure
    <3>6. CASE RecordUnavailable(w)  BY <3>6 DEF RecordUnavailable
    <3>7. CASE AuditFailure(w)  BY <3>7 DEF AuditFailure
    <3>8. CASE AuditLockout(w)  BY <3>8 DEF AuditLockout
    <3>9. CASE OpenSession(w)  BY <3>9 DEF OpenSession
    <3>10. CASE ClearAccount(w)  BY <3>10 DEF ClearAccount
    <3>11. CASE Die(w)  BY <3>11 DEF Die
    <3>12. QED
      BY <3>1, <3>2, <3>3, <3>4, <3>5, <3>6, <3>7, <3>8, <3>9, <3>10, <3>11 DEF Serve
  <2>3. QED  BY <1>1, <2>1, <2>2
<1>5. CASE UNCHANGED boundsVars
  BY <1>1, <1>5 DEF boundsVars, Progress, NoFreeGuess, LockoutNoticedOnce, Locked
<1>6. QED  BY <1>2, <1>3, <1>4, <1>5 DEF BoundsNext

\* The strengthened invariant holds in every reachable state.
THEOREM BoundsInvariance == BoundsSpec => []BoundsInv
<1>1. BoundsInit => BoundsInv
  BY BoundsInitTyped DEF BoundsInit, BoundsInv, Progress, NoFreeGuess, LockoutNoticedOnce
<1>2. QED  BY <1>1, BoundsInvStep, PTL DEF BoundsSpec

\* No wrong password is answered as such without having been counted, and every
\* 401 has cost exactly one password hash.
THEOREM EveryGuessCounts == BoundsSpec => []NoFreeGuess
<1>1. BoundsInv => NoFreeGuess  BY DEF BoundsInv
<1>2. QED  BY <1>1, BoundsInvariance, PTL

\* Guesses are bounded and each one counts.
THEOREM GuessesAreBounded == BoundsSpec => []GuessesBounded
BY Overshoot, EveryGuessCounts, PTL DEF GuessesBounded

\* At most one attempt per counter's life is told that it reached the bound.
THEOREM NoticedOnce == BoundsSpec => []LockoutNoticedOnce
<1>1. BoundsInv => LockoutNoticedOnce  BY DEF BoundsInv
<1>2. QED  BY <1>1, BoundsInvariance, PTL

\* Failures are forgotten when their window runs out, or for one account by a
\* sign-in with its password; the address counter survives every success.
THEOREM Forgotten == BoundsSpec => ForgottenRightly
<1> DEFINE Rightly(k) == \/ ttl[k] = 1
                         \/ \E w \in Worker : /\ phase[w] = "clear" /\ phase'[w] = "idle"
                                              /\ account[w] = k /\ right[w]
<1>1. BoundsInv /\ [BoundsNext]_boundsVars => [\A k \in Key : failures'[k] < failures[k] => Rightly(k)]_boundsVars
  <2> SUFFICES ASSUME BoundsInv, BoundsNext, NEW k \in Key, failures'[k] < failures[k]
               PROVE  Rightly(k)
    OBVIOUS
  <2>1. failures[k] \in Nat  BY DEF BoundsInv, BoundsTypeOK
  <2>2. CASE PassTime  BY <2>1, <2>2 DEF PassTime, Forget
  <2>3. ASSUME NEW w \in Worker, ClearAccount(w) PROVE Rightly(k)
    <3>1. k = account[w]  BY <2>1, <2>3 DEF ClearAccount, Forget, counters
    <3>2. phase[w] = "clear" /\ phase'[w] = "idle" /\ right[w]
      BY <2>3 DEF ClearAccount, BoundsInv, Progress, BoundsTypeOK
    <3>3. QED  BY <3>1, <3>2
  <2>4. ASSUME NEW w \in Worker, Raise(w) PROVE Rightly(k)
    BY <2>1, <2>4 DEF Raise
  <2>5. CASE UNCHANGED failures  BY <2>1, <2>5
  <2>6. \/ PassTime \/ UNCHANGED failures
        \/ \E w \in Worker : ClearAccount(w) \/ Raise(w)
    BY DEF BoundsNext, Serve, Arrive, PassBounds, RefuseBlocked, ReadUnavailable, Judge,
       RecordFailure, RecordUnavailable, AuditFailure, AuditLockout, OpenSession, Die,
       counters
  <2>7. QED  BY <2>2, <2>3, <2>4, <2>5, <2>6
<1>2. QED  BY <1>1, BoundsInvariance, PTL DEF BoundsSpec, ForgottenRightly
=============================================================================
