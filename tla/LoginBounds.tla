----------------------------- MODULE LoginBounds -----------------------------
(***************************************************************************)
(* Sign-in under its two attempt bounds: POST /auth/login with _resolve    *)
(* and _record_failure (apps/api auth/router.py) over the Redis counters   *)
(* of auth/login_bounds.py.                                                *)
(*                                                                         *)
(* A worker is a server thread, serving one attempt after another.  The    *)
(* counters are read in one command and raised in a later transaction, so  *)
(* several workers can pass the read before any of them raises.  Every     *)
(* Redis call may fail, with or without having taken effect; an audit      *)
(* entry is written out of band and may be lost; a worker may die.         *)
(***************************************************************************)
EXTENDS Integers, FiniteSets

CONSTANTS
    Account,        \* digests of the addresses people sign in with
    Address,        \* client addresses as the API sees them
    Client,         \* where attempts really come from
    Seen,           \* Seen[c]: client_identity of a request c makes
    Known,          \* accounts exactly one tenant has an active user for
    Worker,
    AccountMax,     \* cfg.auth.login_account_max_failures
    AddressMax,     \* cfg.auth.login_address_max_failures
    Window          \* cfg.auth.login_bound_window_seconds, in ticks

Key == Account \cup Address

ASSUME LoginAssumption ==
    /\ Account \cap Address = {}
    /\ Known \subseteq Account
    /\ Seen \in [Client -> Address]
    /\ Account # {} /\ Client # {}
    /\ IsFiniteSet(Worker)
    /\ AccountMax \in Nat \ {0}
    /\ AddressMax \in Nat \ {0}
    /\ Window \in Nat \ {0}

VARIABLES
    failures, ttl,      \* the Redis counters; a missing key counts 0 and has ttl 0
    phase, account, client, right,   \* the attempt each worker serves
    hashed,             \* password hashes computed for the attempt
    counted,            \* the attempt has raised its counters
    reached,            \* bounds the attempt is the one to have reached
    answer,             \* what the worker last answered
    noticed,            \* attempts told to have reached the bound, per key's life
    reported            \* bounds with an auth.locked_out entry, per key's life

counters == <<failures, ttl, noticed, reported>>
attempt == <<account, client, right, hashed, counted, reached>>
boundsVars == <<counters, phase, attempt, answer>>

Bound(k) == IF k \in Account THEN AccountMax ELSE AddressMax
Locked(k) == failures[k] >= Bound(k)
Keys(w) == {account[w], Seen[client[w]]}

WorkerStages == {"idle", "read", "judge", "record", "auditFailure", "auditLockout", "create", "clear"}
\* "blocked" and "refused" are one and the same 401 to the caller.
Answers == {"none", "accepted", "blocked", "refused", "unavailable", "errored"}

BoundsTypeOK ==
    /\ failures \in [Key -> Nat]
    /\ ttl \in [Key -> 0 .. Window]
    /\ phase \in [Worker -> WorkerStages]
    /\ account \in [Worker -> Account]
    /\ client \in [Worker -> Client]
    /\ right \in [Worker -> BOOLEAN]
    /\ hashed \in [Worker -> Nat]
    /\ counted \in [Worker -> BOOLEAN]
    /\ reached \in [Worker -> SUBSET Key]
    /\ answer \in [Worker -> Answers]
    /\ noticed \in [Key -> Nat]
    /\ reported \subseteq Key

BoundsInit ==
    /\ failures = [k \in Key |-> 0]
    /\ ttl = [k \in Key |-> 0]
    /\ phase = [w \in Worker |-> "idle"]
    /\ account = [w \in Worker |-> CHOOSE a \in Account : TRUE]
    /\ client = [w \in Worker |-> CHOOSE c \in Client : TRUE]
    /\ right = [w \in Worker |-> FALSE]
    /\ hashed = [w \in Worker |-> 0]
    /\ counted = [w \in Worker |-> FALSE]
    /\ reached = [w \in Worker |-> {}]
    /\ answer = [w \in Worker |-> "none"]
    /\ noticed = [k \in Key |-> 0]
    /\ reported = {}

-----------------------------------------------------------------------------
Go(w, from, to) == phase[w] = from /\ phase' = [phase EXCEPT ![w] = to]

Reply(w, from, a) == Go(w, from, "idle") /\ answer' = [answer EXCEPT ![w] = a]

\* The keys in gone no longer exist: expired, or deleted.
Forget(gone) ==
    /\ failures' = [k \in Key |-> IF k \in gone THEN 0 ELSE failures[k]]
    /\ noticed' = [k \in Key |-> IF k \in gone THEN 0 ELSE noticed[k]]
    /\ reported' = reported \ gone

PassTime ==
    /\ \E k \in Key : ttl[k] > 0
    /\ ttl' = [k \in Key |-> IF ttl[k] > 0 THEN ttl[k] - 1 ELSE 0]
    /\ Forget({k \in Key : ttl[k] = 1})
    /\ UNCHANGED <<phase, attempt, answer>>

Arrive(w, a, c, p) ==
    /\ Go(w, "idle", "read")
    /\ account' = [account EXCEPT ![w] = a]
    /\ client' = [client EXCEPT ![w] = c]
    /\ right' = [right EXCEPT ![w] = p /\ a \in Known]
    /\ hashed' = [hashed EXCEPT ![w] = 0]
    /\ counted' = [counted EXCEPT ![w] = FALSE]
    /\ reached' = [reached EXCEPT ![w] = {}]
    /\ answer' = [answer EXCEPT ![w] = "none"]
    /\ UNCHANGED counters

\* MULTI: INCR and EXPIRE of both keys.
Raise(w) ==
    /\ failures' = [k \in Key |-> IF k \in Keys(w) THEN failures[k] + 1 ELSE failures[k]]
    /\ ttl' = [k \in Key |-> IF k \in Keys(w) THEN Window ELSE ttl[k]]

\* Faulty variant: only the account's counter is looked at.
PassBoundsOfAccount(w) ==
    /\ Go(w, "read", "judge")
    /\ ~Locked(account[w])
    /\ UNCHANGED <<counters, attempt, answer>>

\* current_state: read, never raised; a blocked attempt hashes the dummy.
PassBounds(w) ==
    /\ Go(w, "read", "judge")
    /\ \A k \in Keys(w) : ~Locked(k)
    /\ UNCHANGED <<counters, attempt, answer>>

\* Faulty variant: a blocked attempt starts the windows anew.
RefuseBlockedRenewing(w) ==
    /\ Reply(w, "read", "blocked")
    /\ \E k \in Keys(w) : Locked(k)
    /\ ttl' = [k \in Key |-> IF k \in Keys(w) THEN Window ELSE ttl[k]]
    /\ hashed' = [hashed EXCEPT ![w] = @ + 1]
    /\ UNCHANGED <<failures, noticed, reported,
                   account, client, right, counted, reached>>

RefuseBlocked(w) ==
    /\ Reply(w, "read", "blocked")
    /\ \E k \in Keys(w) : Locked(k)
    /\ hashed' = [hashed EXCEPT ![w] = @ + 1]
    /\ UNCHANGED <<counters, account, client, right, counted, reached>>

ReadUnavailable(w) ==
    /\ Reply(w, "read", "unavailable")
    /\ UNCHANGED <<counters, attempt>>

\* _resolve and verify_password; an unknown account hashes the dummy instead.
Judge(w) ==
    /\ Go(w, "judge", IF right[w] THEN "create" ELSE "record")
    /\ hashed' = [hashed EXCEPT ![w] = @ + 1]
    /\ UNCHANGED <<counters, account, client, right, counted, reached, answer>>

\* Faulty variant: every failure at or past the bound is taken for the first.
PastBound(w) == {k \in Keys(w) : failures[k] + 1 >= Bound(k)}

\* The bounds this failure is the one to have reached.
JustReached(w) == {k \in Keys(w) : failures[k] + 1 = Bound(k)}

RecordFailure(w) ==
    /\ Go(w, "record", "auditFailure")
    /\ Raise(w)
    /\ counted' = [counted EXCEPT ![w] = TRUE]
    /\ reached' = [reached EXCEPT ![w] = JustReached(w)]
    /\ noticed' = [k \in Key |-> IF k \in JustReached(w) THEN noticed[k] + 1 ELSE noticed[k]]
    /\ UNCHANGED <<reported, account, client, right, hashed, answer>>

\* The call fails before the transaction runs, or its reply is lost after it.
RecordUnavailable(w) ==
    /\ Reply(w, "record", "unavailable")
    /\ \/ UNCHANGED <<failures, ttl, counted>>
       \/ Raise(w) /\ counted' = [counted EXCEPT ![w] = TRUE]
    /\ UNCHANGED <<noticed, reported, account, client, right, hashed, reached>>

\* record_out_of_band of auth.sign_in_failed, then of auth.locked_out.
AuditFailure(w) ==
    /\ \/ reached[w] = {} /\ Reply(w, "auditFailure", "refused")
       \/ reached[w] # {} /\ Go(w, "auditFailure", "auditLockout") /\ UNCHANGED answer
    /\ UNCHANGED <<counters, attempt>>

AuditLockout(w) ==
    /\ Reply(w, "auditLockout", "refused")
    /\ reported' \in {reported, reported \cup reached[w]}
    /\ UNCHANGED <<failures, ttl, noticed, attempt>>

\* create_session and its audit entry commit together.
OpenSession(w) ==
    /\ Go(w, "create", "clear")
    /\ UNCHANGED <<counters, attempt, answer>>

\* Faulty variant: a success clears the address along with the account.
ClearBoth(w) ==
    /\ Reply(w, "clear", "accepted")
    /\ Forget(Keys(w))
    /\ ttl' = [k \in Key |-> IF k \in Keys(w) THEN 0 ELSE ttl[k]]
    /\ UNCHANGED attempt

\* DEL of the account's key; a failure is swallowed.
ClearAccount(w) ==
    /\ Reply(w, "clear", "accepted")
    /\ \/ Forget({account[w]}) /\ ttl' = [ttl EXCEPT ![account[w]] = 0]
       \/ UNCHANGED counters
    /\ UNCHANGED attempt

\* An exception outside the Redis calls, or the thread's death.
Die(w) ==
    /\ \E from \in WorkerStages \ {"idle"} : Reply(w, from, "errored")
    /\ UNCHANGED <<counters, attempt>>

-----------------------------------------------------------------------------
Serve(w) ==
    \/ PassBounds(w) \/ RefuseBlocked(w) \/ ReadUnavailable(w) \/ Judge(w)
    \/ RecordFailure(w) \/ RecordUnavailable(w) \/ AuditFailure(w) \/ AuditLockout(w)
    \/ OpenSession(w) \/ ClearAccount(w)

BoundsNext ==
    \/ PassTime
    \/ \E w \in Worker, a \in Account, c \in Client, p \in BOOLEAN : Arrive(w, a, c, p)
    \/ \E w \in Worker : Serve(w) \/ Die(w)

BoundsSpec == BoundsInit /\ [][BoundsNext]_boundsVars

\* Time passes and the server's threads run; nobody has to attempt anything,
\* and nobody has to stop.
FairBoundsSpec == BoundsSpec /\ WF_boundsVars(PassTime) /\ \A w \in Worker : WF_boundsVars(Serve(w))

-----------------------------------------------------------------------------
\* Reading the counters and raising them are two steps, so attempts already
\* past the read still count after the bound is reached: by fewer than there
\* are threads, never by more, however the attempts are spread and retried.
OvershootBounded ==
    \A k \in Key : failures[k] <= Bound(k) + Cardinality(Worker) - 1

\* A caller told its password was wrong has been counted against both bounds,
\* outages included, and a 401 costs one password hash whatever its cause.
NoFreeGuess ==
    \A w \in Worker :
        /\ answer[w] = "refused" => counted[w]
        /\ answer[w] \in {"blocked", "refused"} => hashed[w] = 1

\* What a caller may guess is bounded, and every guess counts.
GuessesBounded == OvershootBounded /\ NoFreeGuess

\* Among the attempts that raise one counter, at most one is told that it
\* reached the bound, so a lockout is reported once and not once per retry.
LockoutNoticedOnce ==
    \A k \in Key : noticed[k] <= 1 /\ (noticed[k] = 1 => Locked(k))

\* Failures are forgotten by their window running out, or for one account by a
\* sign-in that opened a session for it; a success never clears an address.
ForgottenRightly ==
    [][\A k \in Key : failures'[k] < failures[k] =>
          \/ ttl[k] = 1
          \/ \E w \in Worker : /\ phase[w] = "clear" /\ phase'[w] = "idle"
                               /\ account[w] = k /\ right[w]]_boundsVars

\* A bound that was reached is lifted again, however often the locked-out
\* caller keeps trying meanwhile.
LockoutEnds == \A k \in Key : Locked(k) ~> ~Locked(k)
=============================================================================
