----------------------------- MODULE RateLimit ------------------------------
(***************************************************************************)
(* The bounds of the anonymous write paths (public/rate_limit.py): one     *)
(* counter per client address in Redis, raised and given its expiry in one *)
(* transaction, on every event.                                            *)
(***************************************************************************)
EXTENDS Integers

CONSTANTS
    Client,     \* addresses, as client_identity tells them apart
    Limit,      \* CONTACT_LIMIT, REFUSAL_AUDIT_LIMIT
    Window,     \* CONTACT_WINDOW_SECONDS, REFUSAL_AUDIT_WINDOW_SECONDS, in ticks
    MaxCount    \* bound of the checked instance: events in a counter's life

ASSUME RateLimitAssumption ==
    /\ Limit \in Nat \ {0}
    /\ Window \in Nat \ {0}
    /\ MaxCount \in Nat

VARIABLES
    count, ttl      \* a missing key counts 0 and has ttl 0

counters == <<count, ttl>>

CountersOK ==
    /\ count \in [Client -> Nat]
    /\ ttl \in [Client -> 0 .. Window]

NoCounters ==
    /\ count = [c \in Client |-> 0]
    /\ ttl = [c \in Client |-> 0]

Incr(c) ==
    /\ count[c] < MaxCount
    /\ count' = [count EXCEPT ![c] = @ + 1]

\* Faulty variant: the expiry is set when the key is created.
ConsumeExpiringOnce(c) ==
    /\ Incr(c)
    /\ ttl' = [ttl EXCEPT ![c] = IF @ = 0 THEN Window ELSE @]

\* INCR and EXPIRE, whether or not the event is allowed.
Consume(c) ==
    /\ Incr(c)
    /\ ttl' = [ttl EXCEPT ![c] = Window]

\* What a reply to Consume says.
Allowed(c) == count[c] + 1 <= Limit

\* Redis drops a key whose time is over.
Expire ==
    /\ ttl' = [c \in Client |-> IF ttl[c] = 0 THEN 0 ELSE ttl[c] - 1]
    /\ count' = [c \in Client |-> IF ttl[c] = 1 THEN 0 ELSE count[c]]
=============================================================================
