--------------------------- MODULE AnonymousProofs ----------------------------
(***************************************************************************)
(* Proofs about what anyone may write without signing in: the contact form *)
(* with its retention (Contact), and the audit of anonymous refusals       *)
(* (RefusalAudit), for every limit, window, delay and set of addresses.    *)
(***************************************************************************)
EXTENDS Contact, RefusalAudit, Sums, FiniteSetTheorems, TLAPS

(***************************************************************************)
(* The contact form.                                                       *)
(***************************************************************************)
\* Type correctness of counters, submissions, table and purges.
THEOREM TypeCorrect == Spec => []TypeOK
<1>1. Init => TypeOK
  BY ContactAssumption, RateLimitAssumption DEF Init, TypeOK, NoCounters, CountersOK, Stages
<1>2. TypeOK /\ [Next]_vars => TypeOK'
  <2> SUFFICES ASSUME TypeOK, [Next]_vars
               PROVE  TypeOK'
    OBVIOUS
  <2> USE ContactAssumption, RateLimitAssumption
      DEF TypeOK, CountersOK, counters, submission, table, history, Stages
  <2>1. ASSUME NEW w \in Thread, NEW t \in Text, GoOn(w, t)
        PROVE  /\ pc' \in [Thread -> Stages]
               /\ text' \in [Thread -> Text \cup {None}]
               /\ age' \in [Thread -> 0 .. MaxStall]
               /\ answer' \in [Thread -> {0, 202, 429, 500}]
    BY <2>1 DEF GoOn
  <2>2. ASSUME NEW c \in Client, Consume(c)
        PROVE  CountersOK'
    BY <2>2 DEF Consume, Incr
  <2>3. ASSUME NEW w \in Thread, NEW c \in Client, NEW t \in Text, Admit(w, c, t)
        PROVE  TypeOK'
    BY <2>1, <2>2, <2>3 DEF Admit, GoOn
  <2>4. ASSUME NEW w \in Thread, NEW c \in Client, NEW t \in Text, Refuse(w, c, t)
        PROVE  TypeOK'
    <3>1. CountersOK'
      BY <2>2, <2>4 DEF Refuse
    <3>2. answer' \in [Thread -> {0, 202, 429, 500}]
      BY <2>4 DEF Refuse
    <3> HIDE DEF CountersOK
    <3> QED
      BY <2>4, <3>1, <3>2 DEF Refuse
  <2>5. ASSUME NEW w \in Thread, NEW c \in Client, NEW t \in Text, AdmitUncounted(w, c, t)
        PROVE  TypeOK'
    <3>1. CountersOK'
      <4>1. CASE Consume(c)
        BY <2>2, <4>1
      <4>2. CASE UNCHANGED counters
        BY <4>2
      <4> QED
        BY <2>5, <4>1, <4>2 DEF AdmitUncounted
    <3>2. GoOn(w, t)
      BY <2>5 DEF AdmitUncounted
    <3> HIDE DEF CountersOK
    <3> QED
      BY <2>1, <3>1, <3>2 DEF GoOn
  <2>6. ASSUME NEW w \in Thread, CountRecent(w)
        PROVE  TypeOK'
    BY <2>6 DEF CountRecent
  <2>7. ASSUME NEW w \in Thread, Suppress(w)
        PROVE  TypeOK'
    BY <2>7 DEF Suppress, Done
  <2>8. ASSUME NEW w \in Thread, NEW s \in Slot, Store(w, s)
        PROVE  TypeOK'
    BY <2>8 DEF Store, Done
  <2>9. ASSUME NEW w \in Thread, Fail(w)
        PROVE  TypeOK'
    BY <2>9 DEF Fail, Done
  <2>10. ASSUME NEW j \in Job, Delete(j)
         PROVE  TypeOK'
    BY <2>10 DEF Delete, Expired, Used
  <2>11. ASSUME NEW j \in Job, Purge(j), marked[j] \subseteq Slot
         PROVE  TypeOK'
    <3>1. Cardinality(marked[j]) \in Nat
      BY <2>11, FS_Subset, FS_CardinalityType
    <3>2. row' \in [Slot -> Text \cup {None}] /\ rowAge' \in [Slot -> 0 .. Retention + 1]
      BY <2>11 DEF Purge
    <3>3. ledger' \in Int /\ marked' \in [Job -> SUBSET Slot]
      BY <2>11, <3>1 DEF Purge
    <3>4. unseen' \in [Thread -> SUBSET Slot] /\ twins' \in [Slot -> SUBSET Slot]
      BY <2>11 DEF Purge
    <3> QED
      BY <2>11, <3>2, <3>3, <3>4 DEF Purge
  <2>12. ASSUME NEW j \in Job, PurgeFails(j)
         PROVE  TypeOK'
    BY <2>12 DEF PurgeFails
  <2>13. CASE Tick
    <3>1. CountersOK'
      BY <2>13 DEF Tick, Expire
    <3>2. age' \in [Thread -> 0 .. MaxStall]
      BY <2>13 DEF Tick
    <3>3. rowAge' \in [Slot -> 0 .. Retention + 1]
      BY <2>13 DEF Tick
    <3> QED
      BY <2>13, <3>1, <3>2, <3>3 DEF Tick
  <2>14. CASE UNCHANGED vars
    BY <2>14 DEF vars
  <2> QED
    BY <2>3, <2>4, <2>5, <2>6, <2>7, <2>8, <2>9, <2>10, <2>11, <2>12, <2>13, <2>14
       DEF Next, Serve, Clean
<1> QED
  BY <1>1, <1>2, PTL DEF Spec

-----------------------------------------------------------------------------
(* The table and the submissions over it.                                  *)

\* What holds a row back: a purge holds rows past retention, each for itself.
Held(j) ==
    /\ marked[j] \subseteq Expired
    /\ \A i \in Job \ {j} : marked[i] \cap marked[j] = {}

\* What a submission has seen: one that will report a duplicate has a row of
\* its message in the window, one that will store has no other than those
\* stored since.
SawRight(w) ==
    /\ pc[w] = "duplicate" => \E s \in Slot : Same(text[w], s) /\ Recent(w, s, Dedupe)
    /\ pc[w] = "storing" =>
         \A s \in Slot : Same(text[w], s) /\ Recent(w, s, Dedupe) => s \in unseen[w]

Consistent ==
    /\ \A j \in Job : Held(j)
    /\ \A w \in Thread : SawRight(w)
    /\ TwinsOverlapped

\* A row in anybody's window is not one that a purge holds.
LEMMA RecentIsNotExpired ==
  ASSUME TypeOK, NEW w \in Thread, NEW s \in Slot, Recent(w, s, Dedupe)
  PROVE  rowAge[s] <= Retention
  BY ContactAssumption DEF TypeOK, Recent

\* Steps that leave table, purges and what was seen alone keep all of it.
LEMMA TableUntouched ==
  ASSUME TypeOK, Consistent, UNCHANGED <<table, marked, twins>>,
         \A w \in Thread : SawRight(w)'
  PROVE  Consistent'
  BY DEF Consistent, Held, Expired, Used, TwinsOverlapped, table

LEMMA ConsistentInvariant == Spec => []Consistent
<1>1. Init => Consistent
  BY DEF Init, Consistent, Held, SawRight, TwinsOverlapped, Used, Expired
<1>2. TypeOK /\ Consistent /\ [Next]_vars => Consistent'
  <2> SUFFICES ASSUME TypeOK, Consistent, [Next]_vars
               PROVE  Consistent'
    OBVIOUS
  <2>0. /\ pc \in [Thread -> Stages]
        /\ text \in [Thread -> Text \cup {None}]
        /\ age \in [Thread -> 0 .. MaxStall]
        /\ row \in [Slot -> Text \cup {None}]
        /\ rowAge \in [Slot -> 0 .. Retention + 1]
        /\ marked \in [Job -> SUBSET Slot]
        /\ unseen \in [Thread -> SUBSET Slot]
        /\ twins \in [Slot -> SUBSET Slot]
    BY DEF TypeOK
  <2> USE DEF submission, table, history
  <2>1. ASSUME NEW w \in Thread, NEW t \in Text, GoOn(w, t)
        PROVE  Consistent'
    <3>1. \A v \in Thread : SawRight(v)'
      BY <2>0, <2>1 DEF GoOn, Consistent, SawRight, Same, Recent
    <3> QED
      BY <2>1, <3>1, TableUntouched DEF GoOn
  <2>2. ASSUME NEW w \in Thread, NEW c \in Client, NEW t \in Text, Refuse(w, c, t)
        PROVE  Consistent'
    <3>1. \A v \in Thread : SawRight(v)'
      BY <2>2 DEF Refuse, Consistent, SawRight, Same, Recent
    <3> QED
      BY <2>2, <3>1, TableUntouched DEF Refuse
  <2>3. ASSUME NEW w \in Thread, CountRecent(w)
        PROVE  Consistent'
    <3>1. \A v \in Thread : SawRight(v)'
      BY <2>0, <2>3 DEF CountRecent, Consistent, SawRight, Same, Recent
    <3> QED
      BY <2>3, <3>1, TableUntouched DEF CountRecent
  <2>4. ASSUME NEW w \in Thread, Suppress(w) \/ Fail(w)
        PROVE  Consistent'
    <3>1. \A v \in Thread : SawRight(v)'
      BY <2>0, <2>4 DEF Suppress, Fail, Done, Consistent, SawRight, Same, Recent
    <3> QED
      BY <2>4, <3>1, TableUntouched DEF Suppress, Fail
  <2>5. ASSUME NEW w \in Thread, NEW s \in Slot, Store(w, s)
        PROVE  Consistent'
    <3>1. /\ row[s] = None /\ row' = [row EXCEPT ![s] = text[w]]
          /\ rowAge' = [rowAge EXCEPT ![s] = age[w]]
          /\ marked' = marked /\ twins' = [twins EXCEPT ![s] = unseen[w]]
          /\ pc[w] = "storing"
      BY <2>5 DEF Store
    <3>2. \A j \in Job : Held(j)'
      <4>1. \A j \in Job : s \notin marked[j]
        BY <3>1 DEF Consistent, Held, Expired, Used
      <4>2. Expired \ {s} \subseteq Expired'
        BY <2>0, <3>1 DEF Expired, Used
      <4> QED
        BY <3>1, <4>1, <4>2 DEF Consistent, Held
    <3>3. \A v \in Thread : SawRight(v)'
      <4> SUFFICES ASSUME NEW v \in Thread
                   PROVE  SawRight(v)'
        OBVIOUS
      <4>1. CASE v = w
        BY <2>0, <2>5, <4>1 DEF Store, Done, SawRight
      <4>2. CASE v # w
        <5>1. pc'[v] = pc[v] /\ text'[v] = text[v] /\ age'[v] = age[v]
          BY <2>0, <2>5, <4>2 DEF Store, Done
        <5>2. pc[v] = "storing" => unseen'[v] = unseen[v] \cup {s}
          BY <2>5, <4>2 DEF Store
        <5>3. SawRight(v)
          BY DEF Consistent
        <5> QED
          BY <2>0, <3>1, <5>1, <5>2, <5>3 DEF SawRight, Same, Recent
      <4> QED
        BY <4>1, <4>2
    <3>4. TwinsOverlapped'
      <4>1. \A t \in Used : /\ t # s /\ Hash(row[t]) = Hash(text[w])
                            /\ rowAge[t] <= age[w] + Dedupe
                            => t \in unseen[w]
        BY <3>1 DEF Consistent, SawRight, Same, Recent, Used
      <4>2. Used' \subseteq Used \cup {s} /\ s \notin Used
        BY <2>0, <3>1 DEF Used
      <4>3. \A t \in Used : rowAge[t] \in Nat
        BY <2>0, ContactAssumption DEF Used
      <4>4. age[w] \in Nat /\ Dedupe \in Nat /\ Retention \in Nat
        BY <2>0, ContactAssumption
      <4>5. \A t \in Used : row'[t] = row[t] /\ rowAge'[t] = rowAge[t] /\ twins'[t] = twins[t]
        BY <2>0, <3>1, <4>2 DEF Used
      <4>6. s \in Slot /\ row'[s] = text[w] /\ rowAge'[s] = age[w] /\ twins'[s] = unseen[w]
        BY <2>0, <3>1
      <4> SUFFICES ASSUME NEW a \in Used', NEW b \in Used', a # b,
                          Hash(row'[a]) = Hash(row'[b]), rowAge'[a] <= Retention,
                          rowAge'[b] \in rowAge'[a] .. rowAge'[a] + Dedupe,
                          rowAge'[b] <= Retention
                   PROVE  a \in twins'[b] \/ b \in twins'[a]
        BY DEF TwinsOverlapped
      <4>7. CASE a # s /\ b # s
        <5>1. a \in Used /\ b \in Used
          BY <4>2, <4>7
        <5> QED
          BY <4>5, <5>1 DEF Consistent, TwinsOverlapped
      <4>8. CASE a = s
        <5>1. b \in Used
          BY <4>2, <4>8
        <5>2. rowAge[b] <= age[w] + Dedupe /\ Hash(row[b]) = Hash(text[w])
          BY <4>3, <4>4, <4>5, <4>6, <4>8, <5>1
        <5> QED
          BY <4>1, <4>2, <4>6, <4>8, <5>1, <5>2
      <4>9. CASE b = s
        <5>1. a \in Used
          BY <4>2, <4>9
        <5>2. rowAge[a] <= age[w] + Dedupe /\ Hash(row[a]) = Hash(text[w])
          BY <4>3, <4>4, <4>5, <4>6, <4>9, <5>1
        <5> QED
          BY <4>1, <4>2, <4>6, <4>9, <5>1, <5>2
      <4> QED
        BY <4>7, <4>8, <4>9
    <3> QED
      BY <3>2, <3>3, <3>4 DEF Consistent
  <2>6. ASSUME NEW j \in Job, Delete(j) \/ PurgeFails(j)
        PROVE  Consistent'
    <3>1. UNCHANGED <<pc, text, age, row, rowAge, unseen, twins>>
      BY <2>6 DEF Delete, PurgeFails
    <3>2. \A v \in Thread : SawRight(v)'
      BY <3>1 DEF Consistent, SawRight, Same, Recent
    <3>3. \A i \in Job : Held(i)'
      <4>1. CASE Delete(j)
        BY <2>0, <3>1, <4>1 DEF Delete, Consistent, Held, Expired, Used, Locked
      <4>2. CASE PurgeFails(j)
        BY <2>0, <3>1, <4>2 DEF PurgeFails, Consistent, Held, Expired, Used
      <4> QED
        BY <2>6, <4>1, <4>2
    <3>4. TwinsOverlapped'
      BY <3>1 DEF Consistent, TwinsOverlapped, Used
    <3> QED
      BY <3>2, <3>3, <3>4 DEF Consistent
  <2>7. ASSUME NEW j \in Job, Purge(j)
        PROVE  Consistent'
    <3>1. UNCHANGED <<pc, text, age>>
      BY <2>7 DEF Purge
    <3>2. /\ row' = [s \in Slot |-> IF s \in marked[j] THEN None ELSE row[s]]
          /\ rowAge' = [s \in Slot |-> IF s \in marked[j] THEN 0 ELSE rowAge[s]]
          /\ marked' = [marked EXCEPT ![j] = {}]
          /\ unseen' = [w \in Thread |-> unseen[w] \ marked[j]]
          /\ twins' = [s \in Slot |-> IF s \in marked[j] THEN {} ELSE twins[s] \ marked[j]]
      BY <2>7 DEF Purge
    <3>3. Used' = Used \ marked[j]
      BY <3>2 DEF Used
    <3>4. \A i \in Job : Held(i)'
      <4> SUFFICES ASSUME NEW i \in Job
                   PROVE  Held(i)'
        OBVIOUS
      <4>1. marked[i] \subseteq Expired /\ \A k \in Job \ {i} : marked[k] \cap marked[i] = {}
        BY DEF Consistent, Held
      <4>2. Expired \ marked[j] \subseteq Expired'
        BY <3>2, <3>3 DEF Expired, Used
      <4>3. marked'[i] = IF i = j THEN {} ELSE marked[i]
        BY <2>0, <3>2
      <4> QED
        BY <2>0, <3>2, <4>1, <4>2, <4>3 DEF Held
    <3>5. \A v \in Thread : SawRight(v)'
      <4> SUFFICES ASSUME NEW v \in Thread
                   PROVE  SawRight(v)'
        OBVIOUS
      <4>1. SawRight(v)
        BY DEF Consistent
      <4>2. CASE pc[v] = "duplicate"
        <5>1. PICK s \in Slot : Same(text[v], s) /\ Recent(v, s, Dedupe)
          BY <4>1, <4>2 DEF SawRight
        <5>2. s \notin marked[j]
          BY <2>0, <5>1, RecentIsNotExpired, ContactAssumption DEF Consistent, Held, Expired
        <5>3. row'[s] = row[s] /\ rowAge'[s] = rowAge[s]
          BY <3>2, <5>2
        <5> QED
          BY <3>1, <4>2, <5>1, <5>3 DEF SawRight, Same, Recent
      <4>3. CASE pc[v] = "storing"
        <5>1. ASSUME NEW s \in Slot, Same(text[v], s)', Recent(v, s, Dedupe)'
              PROVE  s \in unseen'[v]
          <6>1. s \notin marked[j]
            BY <3>2, <5>1 DEF Same
          <6>2. row'[s] = row[s] /\ rowAge'[s] = rowAge[s]
            BY <3>2, <6>1
          <6>3. s \in unseen[v]
            BY <3>1, <4>1, <4>3, <5>1, <6>2 DEF SawRight, Same, Recent
          <6> QED
            BY <3>2, <6>1, <6>3
        <5> QED
          BY <3>1, <4>3, <5>1 DEF SawRight
      <4> QED
        BY <3>1, <4>2, <4>3 DEF SawRight
    <3>6. TwinsOverlapped'
      BY <2>0, <3>2, <3>3 DEF Consistent, TwinsOverlapped, Used
    <3> QED
      BY <3>4, <3>5, <3>6 DEF Consistent
  <2>8. CASE Tick
    <3>1. UNCHANGED <<pc, text, row, marked, unseen, twins>>
      BY <2>8 DEF Tick
    <3>2. rowAge' = [s \in Slot |->
             IF row[s] = None \/ rowAge[s] > Retention THEN rowAge[s] ELSE rowAge[s] + 1]
      BY <2>8 DEF Tick
    <3>3. \A w \in Thread : pc[w] # "idle" => age[w] < MaxStall /\ age'[w] = age[w] + 1
      BY <2>0, <2>8 DEF Tick
    <3>4. \A j \in Job : Held(j)'
      BY <2>0, <3>1, <3>2, ContactAssumption DEF Consistent, Held, Expired, Used
    <3>5. \A v \in Thread : SawRight(v)'
      <4> SUFFICES ASSUME NEW v \in Thread, pc[v] # "idle"
                   PROVE  SawRight(v)'
        BY <3>1 DEF SawRight
      <4>1. SawRight(v)
        BY DEF Consistent
      <4>2. age[v] \in Nat /\ age[v] < MaxStall /\ age'[v] = age[v] + 1
        BY <2>0, <3>3, ContactAssumption
      <4>3. \A s \in Slot : row[s] # None => (rowAge'[s] <= age'[v] + Dedupe <=> rowAge[s] <= age[v] + Dedupe)
        BY <2>0, <3>2, <4>2, ContactAssumption
      <4> QED
        BY <3>1, <4>1, <4>3 DEF SawRight, Same, Recent
    <3>6. TwinsOverlapped'
      <4>1. \A s \in Slot : rowAge'[s] <= Retention /\ row[s] # None => rowAge'[s] = rowAge[s] + 1
        BY <2>0, <3>2, ContactAssumption
      <4>2. Used' = Used
        BY <3>1 DEF Used
      <4>3. Used \subseteq Slot /\ \A s \in Used : row[s] # None
        BY DEF Used
      <4>4. \A s \in Slot : rowAge[s] \in Nat
        BY <2>0, ContactAssumption
      <4> SUFFICES ASSUME NEW s \in Used, NEW t \in Used, s # t, Hash(row[s]) = Hash(row[t]),
                          rowAge'[s] <= Retention, rowAge'[t] <= Retention,
                          rowAge'[t] \in rowAge'[s] .. rowAge'[s] + Dedupe
                   PROVE  s \in twins[t] \/ t \in twins[s]
        BY <3>1, <4>2 DEF TwinsOverlapped
      <4>5. rowAge[s] <= Retention /\ rowAge[t] <= Retention
            /\ rowAge[t] \in rowAge[s] .. rowAge[s] + Dedupe
        BY <4>1, <4>3, <4>4, ContactAssumption
      <4> QED
        BY <4>5 DEF Consistent, TwinsOverlapped
    <3> QED
      BY <3>4, <3>5, <3>6 DEF Consistent
  <2>9. CASE UNCHANGED vars
    BY <2>9 DEF vars, Consistent, Held, Expired, Used, SawRight, Same, Recent, TwinsOverlapped
  <2> QED
    BY <2>1, <2>2, <2>3, <2>4, <2>5, <2>6, <2>7, <2>8, <2>9
       DEF Next, Serve, Clean, Admit, AdmitUncounted
<1> QED
  BY <1>1, <1>2, TypeCorrect, PTL DEF Spec

\* Two rows of one message within the window come from overlapping requests.
THEOREM Twins == Spec => []TwinsOverlapped
  BY ConsistentInvariant, PTL DEF Consistent

\* A submission that is being served has a text.
HasText == \A w \in Thread : pc[w] # "idle" => text[w] \in Text

LEMMA HasTextInvariant == Spec => []HasText
<1>1. Init => HasText
  BY DEF Init, HasText
<1>2. TypeOK /\ HasText /\ [Next]_vars => HasText'
  <2> SUFFICES ASSUME TypeOK, HasText, [Next]_vars
               PROVE  HasText'
    OBVIOUS
  <2>0. pc \in [Thread -> Stages] /\ text \in [Thread -> Text \cup {None}]
    BY DEF TypeOK
  <2>1. ASSUME NEW w \in Thread, NEW t \in Text, GoOn(w, t)
        PROVE  HasText'
    BY <2>0, <2>1 DEF GoOn, HasText
  <2>2. ASSUME NEW w \in Thread, Serve(w)
        PROVE  HasText'
    BY <2>0, <2>2 DEF Serve, CountRecent, Suppress, Store, Fail, Done, HasText, submission
  <2>3. ASSUME UNCHANGED <<pc, text>>
        PROVE  HasText'
    BY <2>3 DEF HasText
  <2> QED
    BY <2>1, <2>2, <2>3
       DEF Next, Admit, AdmitUncounted, Refuse, Clean, Delete, Purge, PurgeFails, Tick,
           vars, submission
<1> QED
  BY <1>1, <1>2, TypeCorrect, PTL DEF Spec

\* Whoever is told that the message was received has a row of it in the window.
THEOREM Kept == Spec => AcknowledgedIsKept
<1>1. TypeOK /\ HasText /\ Consistent /\ [Next]_vars =>
        [\A w \in Thread :
            pc[w] # "idle" /\ pc'[w] = "idle" /\ answer'[w] = 202 =>
                \E s \in Slot :
                    /\ row'[s] # None /\ Hash(row'[s]) = Hash(text[w])
                    /\ rowAge'[s] <= age[w] + Dedupe]_vars
  <2> SUFFICES ASSUME TypeOK, HasText, Consistent, Next,
                      NEW w \in Thread, pc[w] # "idle", pc'[w] = "idle", answer'[w] = 202
               PROVE  \E s \in Slot :
                          /\ row'[s] # None /\ Hash(row'[s]) = Hash(text[w])
                          /\ rowAge'[s] <= age[w] + Dedupe
    OBVIOUS
  <2>0. /\ pc \in [Thread -> Stages]
        /\ text \in [Thread -> Text \cup {None}]
        /\ age \in [Thread -> 0 .. MaxStall]
        /\ answer \in [Thread -> {0, 202, 429, 500}]
        /\ row \in [Slot -> Text \cup {None}]
        /\ rowAge \in [Slot -> 0 .. Retention + 1]
    BY DEF TypeOK
  <2>1. ASSUME Suppress(w)
        PROVE  \E s \in Slot :
                   /\ row'[s] # None /\ Hash(row'[s]) = Hash(text[w])
                   /\ rowAge'[s] <= age[w] + Dedupe
    <3>1. PICK s \in Slot : Same(text[w], s) /\ Recent(w, s, Dedupe)
      BY <2>1 DEF Suppress, Consistent, SawRight
    <3>2. row' = row /\ rowAge' = rowAge
      BY <2>1 DEF Suppress, table
    <3> QED
      BY <3>1, <3>2 DEF Same, Recent
  <2>2. ASSUME NEW s \in Slot, Store(w, s)
        PROVE  \E r \in Slot :
                   /\ row'[r] # None /\ Hash(row'[r]) = Hash(text[w])
                   /\ rowAge'[r] <= age[w] + Dedupe
    <3>1. row'[s] = text[w] /\ rowAge'[s] = age[w]
      BY <2>0, <2>2 DEF Store
    <3>2. age[w] <= age[w] + Dedupe
      BY <2>0, ContactAssumption
    <3>3. text[w] # None
      BY <2>2, ContactAssumption DEF Store, HasText
    <3> QED
      BY <3>1, <3>2, <3>3
  <2>3. \A v \in Thread : ~Fail(v) \/ v # w
    BY <2>0 DEF Fail, Done
  <2>4. \A v \in Thread \ {w} : ~Suppress(v) /\ ~Fail(v) /\ \A s \in Slot : ~Store(v, s)
    BY <2>0 DEF Suppress, Fail, Store, Done
  <2>5. \A v \in Thread, t \in Text : ~GoOn(v, t)
    BY <2>0 DEF GoOn
  <2>6. \A v \in Thread, c \in Client, t \in Text : ~Refuse(v, c, t)
    BY <2>0 DEF Refuse
  <2>7. \A v \in Thread : ~CountRecent(v)
    BY <2>0 DEF CountRecent
  <2>8. \A j \in Job : ~Delete(j) /\ ~Purge(j) /\ ~PurgeFails(j)
    BY DEF Delete, Purge, PurgeFails
  <2>9. ~Tick
    BY DEF Tick
  <2> QED
    BY <2>1, <2>2, <2>3, <2>4, <2>5, <2>6, <2>7, <2>8, <2>9
       DEF Next, Serve, Clean, Admit, AdmitUncounted
<1> QED
  BY <1>1, TypeCorrect, HasTextInvariant, ConsistentInvariant, PTL DEF Spec, AcknowledgedIsKept

\* What the trail says came in and went is what is there.
THEOREM Balances == Spec => []TrailBalances
<1>1. Init => TrailBalances
  <2>1. Init => Used = {}
    BY DEF Init, Used
  <2> QED
    BY <2>1, FS_EmptySet DEF Init, TrailBalances
<1>2. TypeOK /\ HasText /\ Consistent /\ TrailBalances /\ [Next]_vars => TrailBalances'
  <2> SUFFICES ASSUME TypeOK, HasText, Consistent, TrailBalances, [Next]_vars
               PROVE  TrailBalances'
    OBVIOUS
  <2>0. row \in [Slot -> Text \cup {None}] /\ marked \in [Job -> SUBSET Slot]
    BY DEF TypeOK
  <2>1. IsFiniteSet(Used)
    BY FS_Subset, ContactAssumption DEF Used
  <2>2. ASSUME NEW w \in Thread, NEW s \in Slot, Store(w, s)
        PROVE  TrailBalances'
    <3>1. /\ text[w] # None /\ row[s] = None
          /\ row' = [row EXCEPT ![s] = text[w]] /\ ledger' = ledger + 1
      BY <2>2, ContactAssumption DEF Store, HasText
    <3>2. Used' = Used \cup {s} /\ s \notin Used
      BY <2>0, <3>1 DEF Used
    <3>3. Cardinality(Used \cup {s}) = Cardinality(Used) + 1
      BY <2>1, <3>2, FS_AddElement
    <3> QED
      BY <3>1, <3>2, <3>3 DEF TrailBalances
  <2>3. ASSUME NEW j \in Job, Purge(j)
        PROVE  TrailBalances'
    <3>1. marked[j] \subseteq Used
      BY DEF Consistent, Held, Expired
    <3>2. /\ row' = [s \in Slot |-> IF s \in marked[j] THEN None ELSE row[s]]
          /\ ledger' = ledger - Cardinality(marked[j])
      BY <2>3 DEF Purge
    <3>3. Used' = Used \ marked[j]
      BY <3>2 DEF Used
    <3>4. Used \cap marked[j] = marked[j]
      BY <3>1
    <3>5. Cardinality(Used \ marked[j]) = Cardinality(Used) - Cardinality(marked[j])
      BY <2>1, <3>4, FS_Difference
    <3> QED
      BY <3>2, <3>3, <3>5 DEF TrailBalances
  <2>4. ASSUME UNCHANGED <<row, ledger>>
        PROVE  TrailBalances'
    BY <2>4 DEF TrailBalances, Used
  <2> QED
    BY <2>2, <2>3, <2>4
       DEF Next, Serve, Clean, Admit, AdmitUncounted, GoOn, Refuse, CountRecent, Suppress, Fail,
           Delete, PurgeFails, Tick, vars, table
<1> QED
  BY <1>1, <1>2, TypeCorrect, HasTextInvariant, ConsistentInvariant, PTL DEF Spec

-----------------------------------------------------------------------------
(***************************************************************************)
(* The audit of anonymous refusals.                                        *)
(***************************************************************************)
\* Whoever is audited has an address, and the stages are of a refusal.
Busy == stage # "idle" => serving \in Requests /\ serving.who \in Client

\* Type correctness of counters, claims, the refusal in progress and the trail.
THEOREM AuditTypeCorrect == AuditSpec => [](AuditTypeOK /\ Busy)
<1>1. AuditInit => AuditTypeOK /\ Busy
  BY RateLimitAssumption, RefusalAuditAssumption
     DEF AuditInit, AuditTypeOK, NoCounters, CountersOK, AuditStages, Busy
<1>2. AuditTypeOK /\ Busy /\ [AuditNext]_auditVars => (AuditTypeOK /\ Busy)'
  <2> SUFFICES ASSUME AuditTypeOK, Busy, [AuditNext]_auditVars
               PROVE  (AuditTypeOK /\ Busy)'
    OBVIOUS
  <2> USE RateLimitAssumption, RefusalAuditAssumption, NoRequestAssumption
      DEF AuditTypeOK, Busy, counters, progress, outcome, trail, AuditStages
  <2>1. ASSUME NEW c \in Client, Consume(c)
        PROVE  CountersOK'
    BY <2>1 DEF Consume, Incr, CountersOK
  <2>2. ASSUME UNCHANGED counters
        PROVE  CountersOK'
    BY <2>2 DEF CountersOK
  <2> HIDE DEF counters
  <2>3. \A r \in Requests : r.who \in Client
    BY DEF Requests
  <2>4. ASSUME NEW r \in Requests, NoticeRefusal(r) \/ LeaveAlone(r)
        PROVE  (AuditTypeOK /\ Busy)'
    BY <2>2, <2>3, <2>4 DEF NoticeRefusal, LeaveAlone
  <2>5. CASE Count
    <3>1. CountersOK'
      BY <2>1, <2>5 DEF Count
    <3> QED
      BY <2>5, <3>1 DEF Count, GoTo
  <2>6. CASE CountUnavailable
    <3>1. CountersOK'
      <4>1. CASE Consume(serving.who)
        BY <2>1, <2>6, <4>1 DEF CountUnavailable
      <4>2. CASE UNCHANGED counters
        BY <2>2, <4>2
      <4> QED
        BY <2>6, <4>1, <4>2 DEF CountUnavailable
    <3>2. stage' = "unbounded" /\ UNCHANGED <<claim, serving, stall, outcome, trail>>
      BY <2>6 DEF CountUnavailable, GoTo
    <3>3. stage # "idle"
      BY <2>6 DEF CountUnavailable
    <3> HIDE DEF CountersOK
    <3> QED
      BY <3>1, <3>2, <3>3
  <2>7. CASE Claim \/ ClaimUnavailable
    <3>1. claim' \in [Client -> 0 .. Window]
      <4>1. claim \in [Client -> 0 .. Window] /\ Window \in 0 .. Window
        OBVIOUS
      <4>2. Set \/ UNCHANGED claim
        BY <2>7 DEF Claim, ClaimUnavailable
      <4> QED
        BY ONLY <4>1, <4>2 DEF Set
    <3>2. UNCHANGED <<counters, outcome, trail, serving, stall>>
      BY <2>7 DEF Claim, ClaimUnavailable, GoTo
    <3>3. stage' \in AuditStages /\ stage # "idle"
      BY <2>7 DEF Claim, ClaimUnavailable, GoTo
    <3> QED
      BY <2>2, <3>1, <3>2, <3>3
  <2>8. CASE Skip
    BY <2>2, <2>8 DEF Skip, Answer
  <2>9. CASE WriteSingle \/ WriteCoalesced
    <3>1. rows' \in [Client -> [0 .. Window - 1 -> Nat]]
      <4>1. 0 \in 0 .. Window - 1 /\ serving.who \in Client
        BY <2>9 DEF WriteSingle, WriteCoalesced, Busy
      <4>2. rows[serving.who][0] + 1 \in Nat
        BY <4>1
      <4> DEFINE more == [rows[serving.who] EXCEPT ![0] = rows[serving.who][0] + 1]
      <4>3. more \in [0 .. Window - 1 -> Nat]
        BY <4>1, <4>2
      <4>4. rows' = rows \/ rows' = [rows EXCEPT ![serving.who] = more]
        BY <2>9 DEF WriteSingle, WriteCoalesced
      <4> QED
        BY <4>1, <4>3, <4>4
    <3>2. folded' \in [Client -> 0 .. Window]
      <4>1. folded \in [Client -> 0 .. Window] /\ 0 \in 0 .. Window
        OBVIOUS
      <4>2. folded' = folded \/ folded' = [folded EXCEPT ![serving.who] = 0]
        BY <2>9 DEF WriteSingle, WriteCoalesced
      <4> QED
        BY ONLY <4>1, <4>2
    <3>3. /\ UNCHANGED <<counters, claim, failed>> /\ answered' = serving
          /\ entry' \in {"none", "single", "coalesced"}
          /\ serving' = NoRequest /\ stage' = "idle" /\ stall' = 0
      BY <2>9 DEF WriteSingle, WriteCoalesced, Answer
    <3>4. CountersOK'
      BY <2>2, <3>3
    <3> HIDE DEF CountersOK
    <3> QED
      BY <3>1, <3>2, <3>3, <3>4
  <2>10. CASE WriteFails
    BY <2>2, <2>10 DEF WriteFails, Answer
  <2>11. CASE PassTime
    <3>1. CountersOK'
      BY <2>11 DEF PassTime, Expire, CountersOK
    <3>2. claim' \in [Client -> 0 .. Window] /\ stall' \in 0 .. MaxDelay
      BY <2>11 DEF PassTime
    <3>3. folded' \in [Client -> 0 .. Window] /\ failed' \in [Client -> 0 .. Window]
      <4>1. \A f \in [Client -> 0 .. Window] : Older(f) \in [Client -> 0 .. Window]
        BY ONLY Window \in Nat DEF Older
      <4> QED
        BY <2>11, <4>1 DEF PassTime
    <3>4. rows' \in [Client -> [0 .. Window - 1 -> Nat]]
      BY <2>11 DEF PassTime
    <3> QED
      BY <2>11, <3>1, <3>2, <3>3, <3>4 DEF PassTime
  <2>12. CASE UNCHANGED auditVars
    BY <2>2, <2>12 DEF auditVars
  <2> QED
    BY <2>4, <2>5, <2>6, <2>7, <2>8, <2>9, <2>10, <2>11, <2>12 DEF AuditNext
<1> QED
  BY <1>1, <1>2, PTL DEF AuditSpec

-----------------------------------------------------------------------------
(* Every claim has its row.                                                *)

\* A row, written or lost, that is at least as young as the claim.
HasRow(c) ==
    \/ folded[c] + claim[c] <= Window
    \/ failed[c] + claim[c] <= Window

\* The refusal that made the claim is about to write.
Writing(c) == stage \in {"coalesced", "unclaimed"} /\ serving.who = c

Claimed == \A c \in Client : claim[c] > 0 => Writing(c) \/ HasRow(c)

LEMMA ClaimedInvariant == AuditSpec => []Claimed
<1>1. AuditInit => Claimed
  BY DEF AuditInit, Claimed
<1>2. AuditTypeOK /\ Busy /\ Claimed /\ [AuditNext]_auditVars => Claimed'
  <2> SUFFICES ASSUME AuditTypeOK, Busy, Claimed, [AuditNext]_auditVars, NEW c \in Client, claim'[c] > 0
               PROVE  (Writing(c) \/ HasRow(c))'
    BY DEF Claimed
  <2>0. /\ claim \in [Client -> 0 .. Window]
        /\ folded \in [Client -> 0 .. Window]
        /\ failed \in [Client -> 0 .. Window]
        /\ Window \in Nat
    BY RateLimitAssumption DEF AuditTypeOK
  <2> USE DEF Claimed, Writing, HasRow, progress, trail
  <2>1. ASSUME NEW r \in Requests, NoticeRefusal(r) \/ LeaveAlone(r)
        PROVE  (Writing(c) \/ HasRow(c))'
    BY <2>1, NoRequestAssumption DEF NoticeRefusal, LeaveAlone, Busy
  <2>2. CASE Count \/ CountUnavailable \/ Skip
    BY <2>2 DEF Count, CountUnavailable, Skip, GoTo, Answer
  <2>3. CASE Claim \/ ClaimUnavailable
    BY <2>0, <2>3 DEF Claim, ClaimUnavailable, Set, GoTo
  <2>4. CASE WriteSingle
    BY <2>4 DEF WriteSingle, Answer
  <2>5. CASE WriteCoalesced \/ WriteFails
    BY <2>0, <2>5 DEF WriteCoalesced, WriteFails, Answer
  <2>6. CASE PassTime
    <3>1. claim[c] > 0 /\ claim'[c] = claim[c] - 1
      BY <2>0, <2>6 DEF PassTime
    <3>2. folded'[c] <= folded[c] + 1 /\ failed'[c] <= failed[c] + 1
          /\ folded'[c] \in Nat /\ failed'[c] \in Nat
      BY <2>0, <2>6 DEF PassTime, Older
    <3>3. stage' = stage /\ serving' = serving
      BY <2>6 DEF PassTime
    <3> QED
      BY <2>0, <3>1, <3>2, <3>3
  <2>7. CASE UNCHANGED auditVars
    BY <2>7 DEF auditVars
  <2> QED
    BY <2>1, <2>2, <2>3, <2>4, <2>5, <2>6, <2>7 DEF AuditNext
<1> QED
  BY <1>1, <1>2, AuditTypeCorrect, PTL DEF AuditSpec

\* A refusal without a row of its own is covered by one of its window.
THEOREM RefusalsRepresented == AuditSpec => Represented
<1>1. AuditTypeOK /\ Busy /\ Claimed /\ [AuditNext]_auditVars =>
        [serving # NoRequest /\ serving' = NoRequest /\ entry' = "none" =>
            folded'[serving.who] < Window \/ failed'[serving.who] < Window]_auditVars
  <2> SUFFICES ASSUME AuditTypeOK, Busy, Claimed, AuditNext,
                      serving # NoRequest, serving' = NoRequest, entry' = "none"
               PROVE  folded'[serving.who] < Window \/ failed'[serving.who] < Window
    OBVIOUS
  <2>0. /\ claim \in [Client -> 0 .. Window]
        /\ folded \in [Client -> 0 .. Window]
        /\ failed \in [Client -> 0 .. Window]
        /\ Window \in Nat \ {0}
    BY RateLimitAssumption DEF AuditTypeOK
  <2>1. CASE Skip
    <3>1. stage = "claiming" /\ serving.who \in Client /\ claim[serving.who] > 0
      BY <2>1 DEF Skip, Busy
    <3>2. HasRow(serving.who)
      BY <3>1 DEF Claimed, Writing
    <3>3. folded' = folded /\ failed' = failed
      BY <2>1 DEF Skip, trail
    <3> QED
      BY <2>0, <3>1, <3>2, <3>3 DEF HasRow
  <2>2. CASE WriteFails
    BY <2>0, <2>2 DEF WriteFails, Busy
  <2>3. \A r \in Requests : ~NoticeRefusal(r) /\ ~LeaveAlone(r)
    BY DEF NoticeRefusal, LeaveAlone
  <2>4. ~Count /\ ~CountUnavailable /\ ~Claim /\ ~ClaimUnavailable /\ ~PassTime
    BY DEF Count, CountUnavailable, Claim, ClaimUnavailable, GoTo, PassTime
  <2>5. ~WriteSingle /\ ~WriteCoalesced
    BY DEF WriteSingle, WriteCoalesced, Answer
  <2> QED
    BY <2>1, <2>2, <2>3, <2>4, <2>5 DEF AuditNext
<1> QED
  BY <1>1, AuditTypeCorrect, ClaimedInvariant, PTL DEF AuditSpec, Represented

-----------------------------------------------------------------------------
(* How many rows an hour holds.                                            *)

\* The rows of address c written less than n ticks ago, for every n.
Younger(c) == Partial(rows[c], Window)
Total(c) == Younger(c)[Window]

\* The refusal in hand was counted, and has a row coming.
Counted(c) == stage \in {"single", "claiming", "coalesced"} /\ serving.who = c
Due(c) == IF stage \in {"single", "coalesced"} /\ serving.who = c THEN 1 ELSE 0

\* Of the rows since the last counted refusal there is at most its own, so a
\* counter that ends leaves one row behind; until the limit there are no more
\* rows than refusals but for that one; and since the claim in force one more
\* than the limit.
Spread(c) ==
    /\ Counted(c) => ttl[c] + stall >= Window
    /\ Counted(c) /\ stage # "single" => count[c] > Limit
    /\ Younger(c)[Window - ttl[c]] <= (IF Counted(c) THEN 0 ELSE 1)
    /\ count[c] <= Limit => Total(c) + Due(c) <= count[c] + 1
    /\ Younger(c)[Window - claim[c]] + Due(c) <= Limit + 1
    /\ Total(c) + Due(c) <= Limit + 2

Numbers ==
    /\ count \in [Client -> Nat] /\ ttl \in [Client -> 0 .. Window]
    /\ claim \in [Client -> 0 .. Window]
    /\ stall \in 0 .. MaxDelay
    /\ rows \in [Client -> [0 .. Window - 1 -> Nat]]
    /\ Window \in Nat \ {0} /\ Limit \in Nat \ {0} /\ MaxDelay \in Nat /\ MaxDelay < Window

LEMMA AllNumbers ==
  ASSUME AuditTypeOK
  PROVE  Numbers
  BY RateLimitAssumption, RefusalAuditAssumption DEF AuditTypeOK, CountersOK, Numbers

\* The sums of an address: numbers that grow with the span.
LEMMA YoungerGrows ==
  ASSUME Numbers, NEW c \in Client
  PROVE  /\ \A n \in 0 .. Window : Younger(c)[n] \in Nat
         /\ Younger(c)[0] = 0
         /\ \A m, n \in 0 .. Window : m <= n => Younger(c)[m] <= Younger(c)[n]
<1>1. Window \in Nat /\ rows[c] \in [0 .. Window - 1 -> Nat]
  BY DEF Numbers
<1> QED
  BY <1>1, SumsGrow DEF Younger

\* A row written is one more, of the refusal that had it coming.
LEMMA RowAdded ==
  ASSUME Numbers, NEW c \in Client, rows' = [rows EXCEPT ![c][0] = @ + 1]
  PROVE  /\ \A n \in 1 .. Window : Younger(c)'[n] = Younger(c)[n] + 1
         /\ \A d \in Client \ {c} : Younger(d)' = Younger(d)
<1>1. Window \in Nat \ {0} /\ rows[c] \in [0 .. Window - 1 -> Nat]
  BY DEF Numbers
<1>2. rows'[c] = [rows[c] EXCEPT ![0] = @ + 1] /\ \A d \in Client \ {c} : rows'[d] = rows[d]
  BY DEF Numbers
<1>3. \A n \in 1 .. Window :
        Partial([rows[c] EXCEPT ![0] = @ + 1], Window)[n] = Partial(rows[c], Window)[n] + 1
  BY <1>1, SumsRaised
<1> QED
  BY <1>2, <1>3 DEF Younger

\* Time passes: what was less than n ticks old is less than n + 1 old.
LEMMA RowsAge ==
  ASSUME Numbers, PassTime, NEW c \in Client
  PROVE  Younger(c)'[0] = 0 /\ \A n \in 0 .. Window - 1 : Younger(c)'[n + 1] = Younger(c)[n]
<1>1. Window \in Nat \ {0} /\ rows[c] \in [0 .. Window - 1 -> Nat]
  BY DEF Numbers
<1>2. rows'[c] = [a \in 0 .. Window - 1 |-> IF a = 0 THEN 0 ELSE rows[c][a - 1]]
  BY DEF PassTime
<1>3. /\ rows'[c] \in [0 .. Window - 1 -> Nat]
      /\ rows'[c][0] = 0 /\ \A k \in 1 .. Window - 1 : rows'[c][k] = rows[c][k - 1]
  BY <1>1, <1>2
<1>4. \A n \in 0 .. Window - 1 : Partial(rows'[c], Window)[n + 1] = Partial(rows[c], Window)[n]
  BY <1>1, <1>3, SumsShifted
<1>5. Partial(rows'[c], Window)[0] = 0
  BY <1>1, <1>3, SumsGrow
<1> QED
  BY <1>4, <1>5 DEF Younger

LEMMA SpreadStep ==
  ASSUME AuditTypeOK, AuditTypeOK', Busy, \A c \in Client : Spread(c), [AuditNext]_auditVars,
         NEW c \in Client
  PROVE  Spread(c)'
<1>0. Numbers /\ Spread(c)
  BY AllNumbers
<1>1. /\ \A n \in 0 .. Window : Younger(c)[n] \in Nat
      /\ Younger(c)[0] = 0
      /\ \A m, n \in 0 .. Window : m <= n => Younger(c)[m] <= Younger(c)[n]
  BY <1>0, YoungerGrows
<1>2. /\ count[c] \in Nat /\ ttl[c] \in 0 .. Window /\ claim[c] \in 0 .. Window
      /\ stall \in 0 .. MaxDelay
      /\ Window \in Nat \ {0} /\ Limit \in Nat \ {0} /\ MaxDelay \in Nat /\ MaxDelay < Window
  BY <1>0 DEF Numbers
<1>3. ASSUME UNCHANGED rows
      PROVE  Younger(c)' = Younger(c)
  BY <1>3 DEF Younger
<1>4. ASSUME NEW r \in Requests, NoticeRefusal(r) \/ LeaveAlone(r)
      PROVE  Spread(c)'
  <2>1. /\ UNCHANGED <<count, ttl, claim, stall, rows>>
        /\ stage' = "counting" \/ UNCHANGED <<stage, serving>>
    BY <1>4 DEF NoticeRefusal, LeaveAlone, counters, progress, trail
  <2>2. /\ Counted(c)' => Counted(c) /\ UNCHANGED stage
        /\ Due(c)' \in {0, 1} /\ Due(c) \in {0, 1} /\ (Due(c)' = 1 => Due(c) = 1)
    BY <2>1 DEF Counted, Due
  <2> QED
    BY <1>0, <1>1, <1>2, <1>3, <2>1, <2>2 DEF Spread, Total
<1>5. CASE Count
  <2>1. /\ stage = "counting" /\ UNCHANGED <<claim, serving, stall, rows>>
        /\ stage' = IF Allowed(serving.who) THEN "single" ELSE "claiming"
        /\ count' = [count EXCEPT ![serving.who] = @ + 1]
        /\ ttl' = [ttl EXCEPT ![serving.who] = Window]
    BY <1>5 DEF Count, Consume, Incr, GoTo, trail
  <2>2. serving.who \in Client
    BY <2>1 DEF Busy
  <2>3. CASE serving.who = c
    <3>1. count'[c] = count[c] + 1 /\ ttl'[c] = Window
      BY <1>0, <2>1, <2>3 DEF Numbers
    <3>2. ~Counted(c) /\ Due(c) = 0 /\ Counted(c)'
      BY <2>1, <2>3 DEF Counted, Due
    <3>3. /\ Due(c)' = (IF count[c] + 1 <= Limit THEN 1 ELSE 0)
          /\ stage' # "single" => count[c] + 1 > Limit
      BY <1>2, <2>1, <2>3 DEF Due, Allowed
    <3>4. Younger(c)' = Younger(c) /\ Total(c)' = Total(c)
      BY <1>3, <2>1 DEF Total
    <3> QED
      BY <1>0, <1>1, <1>2, <2>1, <3>1, <3>2, <3>3, <3>4 DEF Spread, Total
  <2>4. CASE serving.who # c
    <3>1. UNCHANGED <<count[c], ttl[c]>> /\ ~Counted(c)' /\ Due(c)' = 0 /\ ~Counted(c) /\ Due(c) = 0
      BY <1>0, <2>1, <2>4 DEF Numbers, Counted, Due
    <3> QED
      BY <1>0, <1>1, <1>2, <1>3, <2>1, <3>1 DEF Spread, Total
  <2> QED
    BY <2>3, <2>4
<1>6. CASE CountUnavailable
  <2>1. /\ stage = "counting" /\ UNCHANGED <<claim, serving, stall, rows>> /\ stage' = "unbounded"
        /\ \/ UNCHANGED <<count, ttl>>
           \/ /\ count' = [count EXCEPT ![serving.who] = @ + 1]
              /\ ttl' = [ttl EXCEPT ![serving.who] = Window]
    BY <1>6 DEF CountUnavailable, Consume, Incr, GoTo, trail, counters
  <2>2. serving.who \in Client
    BY <2>1 DEF Busy
  <2>3. UNCHANGED <<count[c], ttl[c]>> \/ (count'[c] = count[c] + 1 /\ ttl'[c] = Window)
    BY <1>0, <2>1, <2>2 DEF Numbers
  <2>4. ~Counted(c)' /\ Due(c)' = 0 /\ ~Counted(c) /\ Due(c) = 0
    BY <2>1 DEF Counted, Due
  <2> QED
    BY <1>0, <1>1, <1>2, <1>3, <2>1, <2>3, <2>4 DEF Spread, Total
<1>7. CASE Claim
  <2>1. /\ stage = "claiming" /\ claim[serving.who] = 0 /\ stage' = "coalesced"
        /\ claim' = [claim EXCEPT ![serving.who] = IF @ = 0 THEN Window ELSE @]
        /\ UNCHANGED <<count, ttl, serving, stall, rows>>
    BY <1>7 DEF Claim, Set, GoTo, trail, counters
  <2>2. Counted(c)' = Counted(c)
    BY <2>1 DEF Counted
  <2>3. CASE serving.who = c
    <3>1. claim[c] = 0 /\ claim'[c] = Window /\ Due(c) = 0 /\ Due(c)' = 1 /\ Counted(c)
      BY <1>0, <2>1, <2>3 DEF Numbers, Due, Counted
    <3>2. Younger(c)' = Younger(c) /\ Total(c)' = Total(c)
      BY <1>3, <2>1 DEF Total
    <3> QED
      BY <1>0, <1>1, <1>2, <2>1, <2>2, <3>1, <3>2 DEF Spread, Total
  <2>4. CASE serving.who # c
    <3>1. claim'[c] = claim[c] /\ Due(c) = 0 /\ Due(c)' = 0 /\ ~Counted(c)
      BY <1>0, <2>1, <2>4 DEF Numbers, Due, Counted
    <3> QED
      BY <1>0, <1>1, <1>2, <1>3, <2>1, <2>2, <3>1 DEF Spread, Total
  <2> QED
    BY <2>3, <2>4
<1>8. CASE ClaimUnavailable
  <2>1. /\ stage = "claiming" /\ stage' = "unclaimed"
        /\ claim' = claim \/ claim' = [claim EXCEPT ![serving.who] = IF @ = 0 THEN Window ELSE @]
        /\ UNCHANGED <<count, ttl, serving, stall, rows>>
    BY <1>8 DEF ClaimUnavailable, Set, GoTo, trail, counters
  <2>2. ~Counted(c)' /\ Due(c) = 0 /\ Due(c)' = 0
    BY <2>1 DEF Counted, Due
  <2>3. claim'[c] = claim[c] \/ claim'[c] = Window
    BY <1>0, <2>1 DEF Numbers
  <2>4. Younger(c)' = Younger(c) /\ Total(c)' = Total(c)
    BY <1>3, <2>1 DEF Total
  <2> QED
    BY <1>0, <1>1, <1>2, <2>1, <2>2, <2>3, <2>4 DEF Spread, Total
<1>9. CASE Skip \/ WriteFails
  <2>1. stage' = "idle" /\ stall' = 0 /\ UNCHANGED <<count, ttl, claim, rows>>
    BY <1>9 DEF Skip, WriteFails, Answer, trail, counters
  <2>2. ~Counted(c)' /\ Due(c)' = 0 /\ Due(c) \in {0, 1}
    BY <2>1 DEF Counted, Due
  <2> QED
    BY <1>0, <1>1, <1>2, <1>3, <2>1, <2>2 DEF Spread, Total
<1>10. CASE WriteSingle \/ WriteCoalesced
  <2>1. /\ stage \in {"single", "coalesced", "unbounded", "unclaimed"}
        /\ stage' = "idle" /\ stall' = 0 /\ UNCHANGED <<count, ttl, claim>>
        /\ rows' = IF stage \in {"single", "coalesced"}
                   THEN [rows EXCEPT ![serving.who][0] = @ + 1] ELSE rows
    BY <1>10 DEF WriteSingle, WriteCoalesced, Answer, trail, counters
  <2>2. ~Counted(c)' /\ Due(c)' = 0
    BY <2>1 DEF Counted, Due
  <2>3. CASE stage \in {"single", "coalesced"} /\ serving.who = c
    <3>1. \A n \in 1 .. Window : Younger(c)'[n] = Younger(c)[n] + 1
      BY <1>0, <2>1, <2>3, RowAdded
    <3>2. Due(c) = 1 /\ Counted(c)
      BY <2>3 DEF Due, Counted
    <3>3. Total(c)' = Total(c) + 1
      BY <1>2, <3>1 DEF Total
    <3>4. Younger(c)'[0] = 0
      <4>1. rows'[c] \in [0 .. Window - 1 -> Nat]
        BY AllNumbers DEF AuditTypeOK
      <4> QED
        BY <1>2, <4>1, SumsGrow DEF Younger
    <3>5. \A n \in 0 .. Window : Younger(c)'[n] <= Younger(c)[n] + 1
      BY <1>1, <1>2, <3>1, <3>4
    <3>6. /\ Younger(c)'[Window - ttl[c]] <= Younger(c)[Window - ttl[c]] + 1
          /\ Younger(c)'[Window - claim[c]] <= Younger(c)[Window - claim[c]] + 1
      BY <1>2, <3>5
    <3>7. \A n \in 0 .. Window : Younger(c)'[n] \in Nat
      BY <1>1, <1>2, <3>1, <3>4
    <3>8. Total(c) \in Nat /\ Total(c)' \in Nat
      BY <1>1, <1>2, <3>7 DEF Total
    <3> QED
      BY <1>0, <1>1, <1>2, <2>1, <2>2, <3>2, <3>3, <3>6, <3>7, <3>8 DEF Spread
  <2>4. CASE ~(stage \in {"single", "coalesced"} /\ serving.who = c)
    <3>1. Younger(c)' = Younger(c)
      <4>1. CASE rows' = rows
        BY <1>3, <4>1
      <4>2. CASE stage \in {"single", "coalesced"}
        BY <1>0, <2>1, <2>4, <4>2, RowAdded DEF Busy
      <4> QED
        BY <2>1, <4>1, <4>2
    <3>2. Due(c) = 0 /\ ~Counted(c)
      BY <2>1, <2>4 DEF Due, Counted
    <3> QED
      BY <1>0, <1>1, <1>2, <2>1, <2>2, <3>1, <3>2 DEF Spread, Total
  <2> QED
    BY <2>3, <2>4
<1>11. CASE PassTime
  <2>1. Younger(c)'[0] = 0 /\ \A n \in 0 .. Window - 1 : Younger(c)'[n + 1] = Younger(c)[n]
    BY <1>0, <1>11, RowsAge
  <2>2. /\ ttl'[c] = (IF ttl[c] = 0 THEN 0 ELSE ttl[c] - 1)
        /\ count'[c] = (IF ttl[c] = 1 THEN 0 ELSE count[c])
        /\ claim'[c] = (IF claim[c] = 0 THEN 0 ELSE claim[c] - 1)
        /\ stage' = stage /\ serving' = serving
    BY <1>11 DEF PassTime, Expire
  <2>3. Counted(c)' = Counted(c) /\ Due(c)' = Due(c)
    BY <2>2 DEF Counted, Due
  <2>4. Counted(c) => stall < MaxDelay /\ stall' = stall + 1 /\ ttl[c] >= 2
    <3>1. Counted(c) => serving # NoRequest
      BY NoRequestAssumption DEF Counted, Busy
    <3> QED
      BY <1>0, <1>2, <1>11, <3>1 DEF PassTime, Spread
  <2>5. Younger(c)'[Window - ttl'[c]] <= Younger(c)[Window - ttl[c]]
    BY <1>1, <1>2, <2>1, <2>2
  <2>6. Total(c)' <= Total(c) /\ (ttl[c] = 1 => Total(c)' <= Younger(c)[Window - ttl[c]])
    BY <1>1, <1>2, <2>1, <2>2 DEF Total
  <2>7. Younger(c)'[Window - claim'[c]] <= Younger(c)[Window - claim[c]]
    <3>1. CASE claim[c] = 0
      <4>1. Window - claim'[c] = Window /\ Window - claim[c] = Window
        BY <1>2, <2>2, <3>1
      <4> QED
        BY <2>6, <4>1 DEF Total
    <3>2. CASE claim[c] > 0
      <4>1. Window - claim[c] \in 0 .. Window - 1 /\ Window - claim'[c] = (Window - claim[c]) + 1
        BY <1>2, <2>2, <3>2
      <4>2. Younger(c)'[(Window - claim[c]) + 1] = Younger(c)[Window - claim[c]]
        BY <2>1, <4>1
      <4>3. Younger(c)[Window - claim[c]] \in Nat
        <5>1. Window - claim[c] \in 0 .. Window
          BY <1>2
        <5> QED
          BY <1>1, <5>1
      <4> QED
        BY <4>1, <4>2, <4>3
    <3> QED
      BY <1>2, <3>1, <3>2
  <2>8. Due(c) \in {0, 1} /\ (Due(c) = 1 => Counted(c))
    BY DEF Due, Counted
  <2>9. /\ \A n \in 0 .. Window : Younger(c)'[n] \in Nat
        /\ Total(c) \in Nat /\ Total(c)' \in Nat
        /\ Window - ttl[c] \in 0 .. Window /\ Window - ttl'[c] \in 0 .. Window
        /\ Window - claim[c] \in 0 .. Window /\ Window - claim'[c] \in 0 .. Window
    <3>1. \A n \in 1 .. Window : n - 1 \in 0 .. Window - 1 /\ (n - 1) + 1 = n
      BY <1>2
    <3>2. \A n \in 1 .. Window : Younger(c)'[n] = Younger(c)[n - 1] /\ n - 1 \in 0 .. Window
      BY <1>2, <2>1, <3>1
    <3>3. \A n \in 0 .. Window : Younger(c)'[n] \in Nat
      BY <1>1, <1>2, <2>1, <3>2
    <3> QED
      BY <1>1, <1>2, <2>2, <3>3 DEF Total
  <2>10. count[c] <= Limit => Total(c) + Due(c) <= count[c] + 1
    BY <1>0 DEF Spread
  <2>11. count'[c] <= Limit => Total(c)' + Due(c)' <= count'[c] + 1
    <3>1. CASE ttl[c] = 1
      <4>1. ~Counted(c) /\ Due(c)' = 0 /\ count'[c] = 0
        BY <2>2, <2>3, <2>4, <2>8, <3>1
      <4>2. Younger(c)[Window - ttl[c]] <= 1
        BY <1>0, <4>1 DEF Spread
      <4> QED
        BY <1>1, <2>6, <2>9, <3>1, <4>1, <4>2
    <3>2. CASE ttl[c] # 1
      BY <1>2, <2>2, <2>3, <2>6, <2>8, <2>9, <2>10, <3>2
    <3> QED
      BY <3>1, <3>2
  <2>12. /\ Younger(c)[Window - ttl[c]] <= (IF Counted(c) THEN 0 ELSE 1)
         /\ Younger(c)[Window - claim[c]] + Due(c) <= Limit + 1
         /\ Total(c) + Due(c) <= Limit + 2
         /\ Counted(c) => ttl[c] + stall >= Window
         /\ Counted(c) /\ stage # "single" => count[c] > Limit
    BY <1>0 DEF Spread
  <2>13. Younger(c)'[Window - ttl'[c]] <= (IF Counted(c)' THEN 0 ELSE 1)
    BY <1>1, <2>3, <2>5, <2>9, <2>12
  <2>14. Younger(c)'[Window - claim'[c]] + Due(c)' <= Limit + 1
    BY <1>1, <1>2, <2>3, <2>7, <2>8, <2>9, <2>12
  <2>15. Total(c)' + Due(c)' <= Limit + 2
    BY <1>2, <2>3, <2>6, <2>8, <2>9, <2>12
  <2>16. /\ Counted(c)' => ttl'[c] + stall' >= Window
         /\ Counted(c)' /\ stage' # "single" => count'[c] > Limit
    BY <1>2, <2>2, <2>3, <2>4, <2>12
  <2> QED
    BY <2>11, <2>13, <2>14, <2>15, <2>16 DEF Spread
<1>12. CASE UNCHANGED auditVars
  BY <1>0, <1>3, <1>12 DEF auditVars, counters, progress, trail, Spread, Counted, Due, Total
<1> QED
  BY <1>4, <1>5, <1>6, <1>7, <1>8, <1>9, <1>10, <1>11, <1>12 DEF AuditNext

\* A row for each refusal until the limit, a coalesced one and one held up:
\* whatever the interleaving of refusals, expiries and outages, an hour of one
\* address holds no more.
THEOREM HourlyRowsBounded == AuditSpec => []HourlyRows
<1> DEFINE Inv == \A c \in Client : Spread(c)
<1>1. AuditInit /\ AuditTypeOK => Inv
  <2> SUFFICES ASSUME AuditInit, AuditTypeOK, NEW c \in Client
               PROVE  Spread(c)
    OBVIOUS
  <2>1. rows[c] \in [0 .. Window - 1 -> Nat] /\ Window \in Nat /\ Limit \in Nat
    BY AllNumbers DEF Numbers
  <2>2. \A k \in 0 .. Window - 1 : rows[c][k] = 0
    BY DEF AuditInit
  <2>3. \A k \in 0 .. Window : Younger(c)[k] = 0
    BY <2>1, <2>2, SumsOfNothing DEF Younger
  <2>4. stage = "idle" /\ claim[c] = 0 /\ count[c] = 0 /\ ttl[c] = 0
    BY DEF AuditInit, NoCounters
  <2> QED
    BY <2>1, <2>3, <2>4 DEF Spread, Counted, Due, Total
<1>2. AuditTypeOK /\ AuditTypeOK' /\ Busy /\ Inv /\ [AuditNext]_auditVars => Inv'
  <2> SUFFICES ASSUME AuditTypeOK, AuditTypeOK', Busy, Inv, [AuditNext]_auditVars, NEW c \in Client
               PROVE  Spread(c)'
    OBVIOUS
  <2> QED
    BY SpreadStep
<1>3. AuditTypeOK /\ Inv => HourlyRows
  <2> SUFFICES ASSUME AuditTypeOK, Inv, NEW c \in Client
               PROVE  FoldFunction(+, 0, rows[c]) <= Limit + 2
    BY DEF HourlyRows
  <2>1. Window \in Nat /\ Limit \in Nat /\ rows[c] \in [0 .. Window - 1 -> Nat]
    BY AllNumbers DEF Numbers
  <2>2. Total(c) \in Nat /\ Due(c) \in {0, 1} /\ Total(c) + Due(c) <= Limit + 2
    BY <2>1, SumsGrow DEF Spread, Due, Total, Younger
  <2>3. Total(c) <= Limit + 2
    BY <2>1, <2>2
  <2>4. Total(c) = FoldFunction(+, 0, rows[c])
    BY <2>1, PartialSums, Zenon DEF Total, Younger
  <2> QED
    BY <2>3, <2>4, Zenon
<1> QED
  BY <1>1, <1>2, <1>3, AuditTypeCorrect, PTL DEF AuditSpec
=============================================================================
