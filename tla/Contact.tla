------------------------------ MODULE Contact -------------------------------
(***************************************************************************)
(* The contact form from the bound to the retention purge: submit_contact  *)
(* (public/router.py), record_contact (public/queries.py) and the worker's *)
(* purge_contact_submissions (tasks/retention.py).                         *)
(*                                                                         *)
(* Handlers run in threads, each with a transaction of its own under READ  *)
(* COMMITTED.  Times are kept as ages: of a row since its submitted_at, of *)
(* a submission since it read the clock.  A counter's bound on the stored  *)
(* rows, Slot, stands for the table.                                       *)
(***************************************************************************)
EXTENDS RateLimit, Sequences, FiniteSets

CONSTANTS
    Thread, Job,
    Text,           \* what is submitted: subject and message, folded and stripped
    Slot,           \* bound of the checked instance: rows at a time
    None,
    Dedupe,         \* DEDUPE_WINDOW, in ticks
    Retention,      \* RETENTION_DAYS, in ticks
    MaxStall,       \* bound of the checked instance: how long a submission may take
    Failures        \* whether Redis and the database may fail

ASSUME ContactAssumption ==
    /\ Text \subseteq [subject : Seq(STRING), message : Seq(STRING)]
    /\ None \notin Text
    /\ IsFiniteSet(Slot) /\ IsFiniteSet(Thread)
    /\ Dedupe \in Nat /\ MaxStall \in Nat
    /\ Retention \in Nat /\ Retention > Dedupe + MaxStall
    /\ Failures \in BOOLEAN

VARIABLES
    pc, text, age,              \* the submission each thread serves
    answer,
    row, rowAge,                \* the table: Slot's text, or None
    marked,                     \* rows an open purge has deleted
    ledger,                     \* contact.submit entries less what the purges say they deleted
    unseen,                     \* rows stored since the thread counted
    twins                       \* per row: the rows its own count did not see

submission == <<text, age>>
table == <<row, rowAge>>
history == <<unseen, twins>>
vars == <<counters, pc, submission, answer, table, marked, ledger, history>>

Stages == {"idle", "counting", "duplicate", "storing"}
Used == {s \in Slot : row[s] # None}
Room == Cardinality(Used) + Cardinality({w \in Thread : pc[w] # "idle"}) < Cardinality(Slot)

\* content_hash joins the parts with nothing in between.
Hash(t) == t.subject \o t.message

\* Within a window of length d of the moment thread w read the clock, or later.
Recent(w, s, d) == rowAge[s] <= age[w] + d
Same(t, s) == row[s] # None /\ Hash(row[s]) = Hash(t)

TypeOK ==
    /\ CountersOK
    /\ pc \in [Thread -> Stages]
    /\ text \in [Thread -> Text \cup {None}]
    /\ age \in [Thread -> 0 .. MaxStall]
    /\ answer \in [Thread -> {0, 202, 429, 500}]
    /\ row \in [Slot -> Text \cup {None}]
    /\ rowAge \in [Slot -> 0 .. Retention + 1]
    /\ marked \in [Job -> SUBSET Slot]
    /\ ledger \in Int
    /\ unseen \in [Thread -> SUBSET Slot]
    /\ twins \in [Slot -> SUBSET Slot]

Init ==
    /\ NoCounters
    /\ pc = [w \in Thread |-> "idle"]
    /\ text = [w \in Thread |-> None]
    /\ age = [w \in Thread |-> 0]
    /\ answer = [w \in Thread |-> 0]
    /\ row = [s \in Slot |-> None]
    /\ rowAge = [s \in Slot |-> 0]
    /\ marked = [j \in Job |-> {}]
    /\ ledger = 0
    /\ unseen = [w \in Thread |-> {}]
    /\ twins = [s \in Slot |-> {}]

-----------------------------------------------------------------------------
(* submit_contact and record_contact.                                      *)

\* The submission goes on to the table; its clock is read now.
GoOn(w, t) ==
    /\ pc[w] = "idle"
    /\ Room
    /\ pc' = [pc EXCEPT ![w] = "counting"]
    /\ text' = [text EXCEPT ![w] = t]
    /\ age' = [age EXCEPT ![w] = 0]
    /\ answer' = [answer EXCEPT ![w] = 0]
    /\ UNCHANGED <<table, marked, ledger, unseen, twins>>

Admit(w, c, t) ==
    /\ Allowed(c)
    /\ Consume(c)
    /\ GoOn(w, t)

Refuse(w, c, t) ==
    /\ pc[w] = "idle"
    /\ ~Allowed(c)
    /\ Consume(c)
    /\ answer' = [answer EXCEPT ![w] = 429]
    /\ UNCHANGED <<pc, submission, table, marked, ledger, history>>

\* Redis is down, or its reply is lost after the transaction ran: let through.
AdmitUncounted(w, c, t) ==
    /\ Failures
    /\ Consume(c) \/ UNCHANGED counters
    /\ GoOn(w, t)

\* Faulty variant: one message is stored once and for all.
CountEver(w) ==
    /\ pc[w] = "counting"
    /\ pc' = [pc EXCEPT ![w] =
           IF \E s \in Slot : Same(text[w], s) THEN "duplicate" ELSE "storing"]
    /\ unseen' = [unseen EXCEPT ![w] = {}]
    /\ UNCHANGED <<counters, submission, answer, table, marked, ledger, twins>>

\* Faulty variant: only rows from before the moment the clock was read count.
CountOlder(w) ==
    /\ pc[w] = "counting"
    /\ pc' = [pc EXCEPT ![w] =
           IF \E s \in Slot : Same(text[w], s) /\ rowAge[s] \in age[w] .. age[w] + Dedupe
           THEN "duplicate" ELSE "storing"]
    /\ unseen' = [unseen EXCEPT ![w] = {}]
    /\ UNCHANGED <<counters, submission, answer, table, marked, ledger, twins>>

\* The query of the transaction: committed rows of the window.
CountRecent(w) ==
    /\ pc[w] = "counting"
    /\ pc' = [pc EXCEPT ![w] =
           IF \E s \in Slot : Same(text[w], s) /\ Recent(w, s, Dedupe)
           THEN "duplicate" ELSE "storing"]
    /\ unseen' = [unseen EXCEPT ![w] = {}]
    /\ UNCHANGED <<counters, submission, answer, table, marked, ledger, twins>>

Done(w, status) ==
    /\ pc' = [pc EXCEPT ![w] = "idle"]
    /\ text' = [text EXCEPT ![w] = None]
    /\ age' = [age EXCEPT ![w] = 0]
    /\ answer' = [answer EXCEPT ![w] = status]

\* Reported as success without a row.
Suppress(w) ==
    /\ pc[w] = "duplicate"
    /\ Done(w, 202)
    /\ UNCHANGED <<counters, table, marked, ledger, history>>

\* Row and entry, flushed inside the scope and committed together.
Store(w, s) ==
    /\ pc[w] = "storing"
    /\ row[s] = None
    /\ Done(w, 202)
    /\ row' = [row EXCEPT ![s] = text[w]]
    /\ rowAge' = [rowAge EXCEPT ![s] = age[w]]
    /\ ledger' = ledger + 1
    /\ unseen' = [v \in Thread |->
           IF v # w /\ pc[v] = "storing" THEN unseen[v] \cup {s} ELSE {}]
    /\ twins' = [twins EXCEPT ![s] = unseen[w]]
    /\ UNCHANGED <<counters, marked>>

Fail(w) ==
    /\ Failures
    /\ pc[w] \in {"counting", "duplicate", "storing"}
    /\ Done(w, 500)
    /\ unseen' = [unseen EXCEPT ![w] = {}]
    /\ UNCHANGED <<counters, table, marked, ledger, twins>>

-----------------------------------------------------------------------------
(* purge_contact_submissions.  Beat's daily run and a redelivered one may  *)
(* overlap; a row the one has deleted is locked for the other.             *)

Locked == UNION {marked[j] : j \in Job}
Expired == {s \in Used : rowAge[s] > Retention}

\* Faulty variant: the window is measured against the dataset's pinned date,
\* which no submission is older than.
DeleteByReferenceDate(j) == FALSE

\* Faulty variant: the rows are selected first, so that nothing is locked.
DeleteSelected(j) ==
    /\ marked[j] = {}
    /\ Expired # {}
    /\ marked' = [marked EXCEPT ![j] = Expired]
    /\ UNCHANGED <<counters, pc, submission, answer, table, ledger, history>>

\* A run that finds nothing changes nothing but the trail.
Delete(j) ==
    /\ marked[j] = {}
    /\ Expired # {} /\ Expired \cap Locked = {}
    /\ marked' = [marked EXCEPT ![j] = Expired]
    /\ UNCHANGED <<counters, pc, submission, answer, table, ledger, history>>

\* The deletion and the entry with its number, in one transaction.
Purge(j) ==
    /\ marked[j] # {}
    /\ row' = [s \in Slot |-> IF s \in marked[j] THEN None ELSE row[s]]
    /\ rowAge' = [s \in Slot |-> IF s \in marked[j] THEN 0 ELSE rowAge[s]]
    /\ ledger' = ledger - Cardinality(marked[j])
    /\ marked' = [marked EXCEPT ![j] = {}]
    /\ unseen' = [w \in Thread |-> unseen[w] \ marked[j]]
    /\ twins' = [s \in Slot |-> IF s \in marked[j] THEN {} ELSE twins[s] \ marked[j]]
    /\ UNCHANGED <<counters, pc, submission, answer>>

\* The worker dies or the commit fails: the rows are as they were, and the
\* next run, redelivered or tomorrow's, starts over.
PurgeFails(j) ==
    /\ Failures
    /\ marked[j] # {}
    /\ marked' = [marked EXCEPT ![j] = {}]
    /\ UNCHANGED <<counters, pc, submission, answer, table, ledger, history>>

-----------------------------------------------------------------------------
Tick ==
    /\ \A w \in Thread : pc[w] # "idle" => age[w] < MaxStall
    /\ Expire
    /\ age' = [w \in Thread |-> IF pc[w] = "idle" THEN age[w] ELSE age[w] + 1]
    /\ rowAge' = [s \in Slot |->
           IF row[s] = None \/ rowAge[s] > Retention THEN rowAge[s] ELSE rowAge[s] + 1]
    /\ UNCHANGED <<pc, text, answer, row, marked, ledger, unseen, twins>>

Serve(w) == CountRecent(w) \/ Suppress(w) \/ (\E s \in Slot : Store(w, s)) \/ Fail(w)
Clean(j) == Delete(j) \/ Purge(j)

Next ==
    \/ \E w \in Thread, c \in Client, t \in Text :
           Admit(w, c, t) \/ Refuse(w, c, t) \/ AdmitUncounted(w, c, t)
    \/ \E w \in Thread : Serve(w)
    \/ \E j \in Job : Clean(j) \/ PurgeFails(j)
    \/ Tick

Spec == Init /\ [][Next]_vars

\* Submissions are served, beat starts a run every day and time goes on.
FairSpec ==
    /\ Spec
    /\ \A w \in Thread : WF_vars(Serve(w))
    /\ \A j \in Job : WF_vars(Clean(j)) /\ SF_vars(Purge(j))
    /\ WF_vars(Tick)

-----------------------------------------------------------------------------
\* FR-022, SC-007: who is told that the message was received has, at that
\* moment, a row of it from within the window, his own or an earlier one.
AcknowledgedIsKept ==
    [][\A w \in Thread :
          pc[w] # "idle" /\ pc'[w] = "idle" /\ answer'[w] = 202 =>
              \E s \in Slot :
                  /\ row'[s] # None /\ Hash(row'[s]) = Hash(text[w])
                  /\ rowAge'[s] <= age[w] + Dedupe]_vars

\* FR-022: two rows of one message within the window are of submissions of
\* which the one was stored between the other's count and its insert.
TwinsOverlapped ==
    \A s, t \in Used :
        /\ s # t /\ Hash(row[s]) = Hash(row[t])
        /\ rowAge[s] <= Retention /\ rowAge[t] \in rowAge[s] .. rowAge[s] + Dedupe
        /\ rowAge[t] <= Retention
        => s \in twins[t] \/ t \in twins[s]

\* FR-023 and retention.py: what the trail says came in and was deleted is
\* what is left, through failed and overlapping purges.
TrailBalances == ledger = Cardinality(Used)

\* FR-024b: kept for 90 days and then deleted.
EveryRowDeleted == \A s \in Slot : row[s] # None ~> row[s] = None
=============================================================================
