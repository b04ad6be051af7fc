----------------------------- MODULE SeedProofs -----------------------------
(***************************************************************************)
(* Theorems about the seed: the life of an environment, for every number   *)
(* of operators, profiles, objects, collections and indexed fields; and    *)
(* the scenarios that can be played in the company it generates.           *)
(***************************************************************************)
EXTENDS SeedLifecycle, DatasetProofs

-----------------------------------------------------------------------------
(* An environment (SeedLifecycle).                                         *)

Moving == {"look", "look_objects", "look_points", "look_keys"}
Clearing == {"truncate", "list", "remove", "drop", "flush_cache", "flush_bounds", "config"}

\* Where a command can be, and what it was asked for.
Placed(o) ==
    Busy(o) =>
        /\ job[o].cmd = "seed" =>
             pc[o] \in Moving \cup {"load"} \cup Committed /\ Profiled(o) \in Profile
        /\ job[o].cmd = "reset" =>
             pc[o] \in Clearing \cup {"load"} \cup Committed /\ Profiled(o) \in Profile \cup {Typo}
        /\ job[o].cmd = "verify" => pc[o] \in {"look", "audit"}
        /\ pc[o] \in Committed \cup {"load"} => Profiled(o) \in Profile

Typed == TypeOK /\ \A o \in Op : Placed(o)

\* The stages are told apart.
LEMMA StagesApart ==
  /\ Stages = Ended \cup Committed \cup Moving \cup Clearing \cup {"load", "audit"}
  /\ Ended \cap (Committed \cup Moving \cup Clearing \cup {"load", "audit"}) = {}
  /\ Committed \cap (Moving \cup Clearing \cup {"load", "audit"}) = {}
  /\ Clearing \cap (Moving \cup {"load", "audit"}) = {}
  BY DEF Stages, Ended, Committed, Moving, Clearing

LEMMA NoJobTyped == NoJob \in Jobs
  BY DEF NoJob, Jobs

-----------------------------------------------------------------------------
(* What a step does to the operators.                                      *)

\* A run that goes on keeps its command, and nobody else notices.
LEMMA Going ==
  ASSUME TypeOK, NEW o \in Op, NEW next \in Stages, NEW rest \in SUBSET (File \cup Collection),
         Go(o, next, rest)
  PROVE  /\ pc' \in [Op -> Stages] /\ job' \in [Op -> Jobs]
         /\ pc'[o] = next /\ job'[o].left = rest
         /\ job'[o].cmd = job[o].cmd /\ job'[o].profile = job[o].profile
         /\ job'[o].alone = job[o].alone
         /\ \A q \in Op \ {o} : pc'[q] = pc[q] /\ job'[q] = job[q]
  BY DEF TypeOK, Go, Jobs

\* A run that ends is no longer busy.
LEMMA Ending ==
  ASSUME TypeOK, NEW o \in Op, NEW outcome \in Ended, End(o, outcome)
  PROVE  /\ pc' \in [Op -> Stages] /\ job' \in [Op -> Jobs]
         /\ pc'[o] = outcome
         /\ \A q \in Op \ {o} : pc'[q] = pc[q] /\ job'[q] = job[q]
  BY NoJobTyped DEF TypeOK, End, Stages

\* A run that starts knows whether it is alone, and the others that they are not.
LEMMA Starting ==
  ASSUME TypeOK, NEW o \in Op, NEW c \in {"seed", "reset", "verify"},
         NEW p \in Profile \cup {Typo}, Start(o, c, p)
  PROVE  /\ pc' \in [Op -> Stages] /\ job' \in [Op -> Jobs]
         /\ pc'[o] = IF c = "reset" THEN "truncate" ELSE "look"
         /\ job'[o].cmd = c /\ job'[o].profile = p
         /\ job'[o].alone = ({q \in Op : Busy(q)} = {})
         /\ \A q \in Op \ {o} :
              /\ pc'[q] = pc[q] /\ ~job'[q].alone
              /\ job'[q].cmd = job[q].cmd /\ job'[q].profile = job[q].profile
              /\ job'[q].left = job[q].left
<1> DEFINE started == [cmd |-> c, profile |-> p, left |-> {},
                       alone |-> {q \in Op : Busy(q)} = {}]
<1>1. started \in Jobs
  BY DEF Jobs
<1>2. job' = [q \in Op |-> IF q = o THEN started ELSE [job[q] EXCEPT !.alone = FALSE]]
  BY DEF Start
<1>3. \A q \in Op : /\ [job[q] EXCEPT !.alone = FALSE] \in Jobs
                    /\ [job[q] EXCEPT !.alone = FALSE].cmd = job[q].cmd
                    /\ [job[q] EXCEPT !.alone = FALSE].profile = job[q].profile
                    /\ [job[q] EXCEPT !.alone = FALSE].left = job[q].left
                    /\ ~[job[q] EXCEPT !.alone = FALSE].alone
  BY DEF TypeOK, Jobs
<1>4. job' \in [Op -> Jobs]
  BY <1>1, <1>2, <1>3
<1>5. /\ job'[o] = started
      /\ \A q \in Op \ {o} : job'[q] = [job[q] EXCEPT !.alone = FALSE]
  BY <1>2
<1>6. pc' = [pc EXCEPT ![o] = IF c = "reset" THEN "truncate" ELSE "look"]
  BY DEF Start
<1>7. /\ pc' \in [Op -> Stages] /\ pc'[o] = IF c = "reset" THEN "truncate" ELSE "look"
      /\ \A q \in Op \ {o} : pc'[q] = pc[q]
  BY <1>6 DEF TypeOK, Stages
<1>8. started.cmd = c /\ started.profile = p
  OBVIOUS
<1>9. started.alone = ({q \in Op : Busy(q)} = {})
  OBVIOUS
<1> HIDE DEF started
<1>10. /\ job'[o].cmd = c /\ job'[o].profile = p
       /\ job'[o].alone = ({q \in Op : Busy(q)} = {})
  BY <1>5, <1>8, <1>9
<1>11. \A q \in Op \ {o} : /\ ~job'[q].alone
                           /\ job'[q].cmd = job[q].cmd /\ job'[q].profile = job[q].profile
                           /\ job'[q].left = job[q].left
  BY <1>3, <1>5
<1> QED
  BY <1>4, <1>7, <1>10, <1>11

\* The marker a verify finds becomes its profile.
LEMMA Marking ==
  ASSUME TypeOK, NEW o \in Op, rows \in Profile,
         pc' = [pc EXCEPT ![o] = "audit"], job' = [job EXCEPT ![o].profile = rows]
  PROVE  /\ pc' \in [Op -> Stages] /\ job' \in [Op -> Jobs]
         /\ pc'[o] = "audit" /\ job'[o].profile = rows
         /\ job'[o].cmd = job[o].cmd /\ job'[o].alone = job[o].alone
         /\ \A q \in Op \ {o} : pc'[q] = pc[q] /\ job'[q] = job[q]
<1> DEFINE marked == [job[o] EXCEPT !.profile = rows]
<1>1. /\ marked \in Jobs
      /\ marked.profile = rows /\ marked.cmd = job[o].cmd /\ marked.alone = job[o].alone
  BY DEF TypeOK, Jobs
<1>2. job' = [job EXCEPT ![o] = marked]
  OBVIOUS
<1>3. /\ pc' \in [Op -> Stages] /\ pc'[o] = "audit"
      /\ \A q \in Op \ {o} : pc'[q] = pc[q]
  BY DEF TypeOK, Stages
<1> HIDE DEF marked
<1> QED
  BY <1>1, <1>2, <1>3 DEF TypeOK

-----------------------------------------------------------------------------
(* The types.                                                              *)

StoresTyped ==
    /\ rows \in Profile \cup {None}
    /\ object \in [File -> Profile \cup {None}]
    /\ index \in [Collection -> SUBSET Field]
    /\ points \subseteq created /\ created \subseteq Collection
    /\ stale \subseteq extra /\ extra \subseteq Extras
    /\ disturbed \in BOOLEAN

OperatorsTyped ==
    /\ pc \in [Op -> Stages]
    /\ job \in [Op -> Jobs]
    /\ \A o \in Op : Placed(o)

LEMMA TypedParts == Typed <=> StoresTyped /\ OperatorsTyped
<1>1. \A o \in Op : pc[o] \in Committed \cup {"load"} => Busy(o)
  BY DEF Busy, Committed, Ended
<1> QED
  BY <1>1 DEF Typed, TypeOK, StoresTyped, OperatorsTyped, Placed

LEMMA GoingPlaced ==
  ASSUME Typed, NEW o \in Op, NEW next \in Stages, NEW rest \in SUBSET (File \cup Collection),
         Go(o, next, rest),
         /\ job[o].cmd = "seed" => next \in Moving \cup {"load"} \cup Committed
         /\ job[o].cmd = "reset" => next \in Clearing \cup {"load"} \cup Committed
         /\ job[o].cmd = "verify" => next \in {"look", "audit"}
         /\ next \in Committed \cup {"load"} => Profiled(o) \in Profile,
         Busy(o)
  PROVE  OperatorsTyped'
<1>1. /\ pc' \in [Op -> Stages] /\ job' \in [Op -> Jobs]
      /\ pc'[o] = next
      /\ job'[o].cmd = job[o].cmd /\ job'[o].profile = job[o].profile
      /\ \A q \in Op \ {o} : pc'[q] = pc[q] /\ job'[q] = job[q]
  BY Going DEF Typed
<1>2. Placed(o)'
  BY <1>1 DEF Typed, Placed, Profiled, Busy
<1>3. ASSUME NEW q \in Op \ {o}
      PROVE  Placed(q)'
  BY <1>1 DEF Typed, Placed, Profiled, Busy
<1> QED
  BY <1>1, <1>2, <1>3 DEF OperatorsTyped

LEMMA EndingPlaced ==
  ASSUME Typed, NEW o \in Op, NEW outcome \in Ended, End(o, outcome)
  PROVE  OperatorsTyped'
<1>1. /\ pc' \in [Op -> Stages] /\ job' \in [Op -> Jobs]
      /\ pc'[o] = outcome
      /\ \A q \in Op \ {o} : pc'[q] = pc[q] /\ job'[q] = job[q]
  BY Ending DEF Typed
<1>2. Placed(o)'
  BY <1>1 DEF Placed, Busy
<1>3. ASSUME NEW q \in Op \ {o}
      PROVE  Placed(q)'
  BY <1>1 DEF Typed, Placed, Profiled, Busy
<1> QED
  BY <1>1, <1>2, <1>3 DEF OperatorsTyped

\* A step of a command that has been started, and of the rest.
LEMMA StoresStayTyped ==
  ASSUME Typed, Next
  PROVE  StoresTyped'
<1> USE DEF Typed, TypeOK, StoresTyped, stores, vectors
<1>1. ASSUME NEW o \in Op, NEW c \in {"seed", "reset", "verify"}, RejectProfile(o, c)
      PROVE  StoresTyped'
  BY <1>1 DEF RejectProfile
<1>2. ASSUME NEW o \in Op, NEW c \in {"seed", "reset", "verify"},
             NEW p \in Profile \cup {Typo}, Start(o, c, p)
      PROVE  StoresTyped'
  BY <1>2 DEF Start
<1>3. ASSUME NEW o \in Op, Die(o)
      PROVE  StoresTyped'
  BY <1>3 DEF Die
<1>4. ASSUME AddRuntimeRows \/ \E kind \in {"cache", "bound"} : AddKey(kind)
      PROVE  StoresTyped'
  BY <1>4 DEF AddRuntimeRows, AddKey, Extras
<1>5. ASSUME NEW c \in Collection, Ingest(c)
      PROVE  StoresTyped'
  BY <1>5 DEF Ingest, Preflight
<1>6. ASSUME NEW o \in Op, InspectRows(o) \/ InspectObjects(o) \/ InspectPoints(o) \/ InspectKeys(o)
      PROVE  StoresTyped'
  BY <1>6 DEF InspectRows, InspectObjects, InspectPoints, InspectKeys, Inspect
<1>7. ASSUME NEW o \in Op, LoadRelational(o)
      PROVE  StoresTyped'
  BY <1>7 DEF LoadRelational
<1>8. ASSUME NEW o \in Op, NEW f \in File, LoadObject(o, f) \/ RemoveObject(o, f)
      PROVE  StoresTyped'
  <2>1. CASE LoadObject(o, f)
    <3>1. Profiled(o) \in Profile
      BY <2>1 DEF LoadObject, Committed
    <3> QED
      BY <2>1, <3>1 DEF LoadObject
  <2>2. CASE RemoveObject(o, f)
    BY <2>2 DEF RemoveObject
  <2> QED
    BY <1>8, <2>1, <2>2
<1>9. ASSUME NEW o \in Op, NEW c \in Collection, CreateCollection(o, c)
      PROVE  StoresTyped'
  BY <1>9 DEF CreateCollection
<1>10. ASSUME NEW o \in Op, NEW c \in Collection, NEW field \in Field, EnsureIndex(o, c, field)
       PROVE  StoresTyped'
  BY <1>10 DEF EnsureIndex
<1>11. ASSUME NEW o \in Op, NEW c \in Collection, DropCollection(o, c)
       PROVE  StoresTyped'
  BY <1>11 DEF DropCollection
<1>12. ASSUME NEW o \in Op, Truncate(o)
       PROVE  StoresTyped'
  BY <1>12 DEF Truncate
<1>13. ASSUME NEW o \in Op, FlushCache(o) \/ FlushBounds(o)
       PROVE  StoresTyped'
  BY <1>13 DEF FlushCache, FlushBounds, Flush
<1>14. ASSUME NEW o \in Op,
              \/ LoadedObjects(o) \/ ListObjects(o) \/ ListCollections(o)
              \/ DroppedCollections(o) \/ Configure(o) \/ ReadMarker(o)
              \/ CompareFingerprints(o) \/ \E c \in Collection : CheckIndexes(o, c)
       PROVE  StoresTyped'
  BY <1>14 DEF LoadedObjects, ListObjects, ListCollections, DroppedCollections, Configure,
     ReadMarker, CompareFingerprints, CheckIndexes
<1> QED
  BY <1>1, <1>2, <1>3, <1>4, <1>5, <1>6, <1>7, <1>8, <1>9, <1>10, <1>11, <1>12, <1>13, <1>14
     DEF Next, Step

LEMMA OperatorsStayTyped ==
  ASSUME Typed, Next
  PROVE  OperatorsTyped'
<1> USE StagesApart
<1>0. /\ OperatorsTyped
      /\ \A o \in Op : job[o].cmd \in {"seed", "reset", "verify"}
      /\ \A o \in Op : Placed(o)
      /\ \A o \in Op : pc[o] \in Stages /\ (Busy(o) <=> pc[o] \notin Ended)
      /\ \A o \in Op : job[o].left \subseteq File \cup Collection
  BY TypedParts DEF OperatorsTyped, Busy, Jobs
<1>1. ASSUME UNCHANGED <<pc, job>>
      PROVE  OperatorsTyped'
  BY <1>0, <1>1 DEF OperatorsTyped, Placed, Busy, Profiled
<1>2. ASSUME NEW o \in Op, NEW c \in {"seed", "reset", "verify"}, RejectProfile(o, c)
      PROVE  OperatorsTyped'
  <2>1. pc' = [pc EXCEPT ![o] = "refused"] /\ UNCHANGED job
    BY <1>2 DEF RejectProfile
  <2>2. pc' \in [Op -> Stages] /\ job' \in [Op -> Jobs] /\ pc'[o] \in Ended
    BY <1>0, <2>1 DEF OperatorsTyped, Ended
  <2>3. Placed(o)'
    BY <2>2 DEF Placed, Busy
  <2>4. ASSUME NEW q \in Op \ {o} PROVE Placed(q)'
    BY <1>0, <2>1 DEF Placed, Busy, Profiled, OperatorsTyped
  <2> QED
    BY <2>2, <2>3, <2>4 DEF OperatorsTyped
<1>3. ASSUME NEW o \in Op, NEW c \in {"seed", "reset", "verify"},
             NEW p \in Profile \cup {Typo}, Start(o, c, p)
      PROVE  OperatorsTyped'
  <2>1. /\ pc' \in [Op -> Stages] /\ job' \in [Op -> Jobs]
        /\ pc'[o] = IF c = "reset" THEN "truncate" ELSE "look"
        /\ job'[o].cmd = c /\ job'[o].profile = p
        /\ \A q \in Op \ {o} :
             /\ pc'[q] = pc[q]
             /\ job'[q].cmd = job[q].cmd /\ job'[q].profile = job[q].profile
    BY <1>3, Starting DEF Typed
  <2>2. c # "reset" => p \in Profile
    BY <1>3 DEF Start
  <2>3. Placed(o)'
    BY <2>1, <2>2 DEF Placed, Profiled, Moving, Clearing, Committed
  <2>4. ASSUME NEW q \in Op \ {o} PROVE Placed(q)'
    BY <1>0, <2>1 DEF Placed, Busy, Profiled
  <2> QED
    BY <2>1, <2>3, <2>4 DEF OperatorsTyped
<1>4. ASSUME NEW o \in Op, Die(o)
      PROVE  OperatorsTyped'
  BY <1>4, EndingPlaced DEF Die, Ended
<1>5. ASSUME NEW o \in Op, NEW at, NEW found, NEW next \in {"look_objects", "look_points", "look_keys", "load"},
             at \in Moving, Inspect(o, at, found, next)
      PROVE  OperatorsTyped'
  <2>1. Busy(o) /\ job[o].cmd = "seed" /\ Profiled(o) \in Profile
    BY <1>0, <1>5 DEF Inspect, Busy, Placed
  <2>2. CASE End(o, "refused")
    BY <2>2, EndingPlaced DEF Ended
  <2>3. CASE Go(o, next, {})
    BY <2>1, <2>3, GoingPlaced DEF Moving
  <2> QED
    BY <1>5, <2>2, <2>3 DEF Inspect
<1>6. ASSUME NEW o \in Op, InspectRows(o) \/ InspectObjects(o) \/ InspectPoints(o) \/ InspectKeys(o)
      PROVE  OperatorsTyped'
  BY <1>5, <1>6 DEF InspectRows, InspectObjects, InspectPoints, InspectKeys, Moving
\* A committed run goes on to a committed stage, or to its end.
<1>7. ASSUME NEW o \in Op, NEW next \in Committed, NEW rest \in SUBSET (File \cup Collection),
             pc[o] \in Committed \cup {"load"}, Go(o, next, rest)
      PROVE  OperatorsTyped'
  <2>1. Busy(o) /\ Profiled(o) \in Profile /\ job[o].cmd # "verify" /\ next \in Stages
    BY <1>0, <1>7 DEF Busy, Placed, Moving
  <2>2. /\ job[o].cmd = "seed" => next \in Moving \cup {"load"} \cup Committed
        /\ job[o].cmd = "reset" => next \in Clearing \cup {"load"} \cup Committed
    BY <1>7
  <2> QED
    BY <1>7, <2>1, <2>2, GoingPlaced
<1>8. ASSUME NEW o \in Op,
             \/ LoadRelational(o) \/ LoadedObjects(o)
             \/ \E f \in File : LoadObject(o, f)
             \/ \E c \in Collection :
                  CreateCollection(o, c) \/ \E field \in Field : EnsureIndex(o, c, field)
      PROVE  OperatorsTyped'
  <2>1. CASE LoadRelational(o)
    <3>1. Profiled(o) \in Profile
      BY <1>0, <2>1 DEF LoadRelational, Placed
    <3>2. Files[Profiled(o)] \in SUBSET (File \cup Collection)
      BY <3>1, SeedAssumption
    <3> QED
      BY <1>7, <2>1, <3>2 DEF LoadRelational, Committed
  <2>2. CASE LoadedObjects(o)
    BY <1>7, <2>2 DEF LoadedObjects, Committed
  <2>3. ASSUME NEW f \in File, LoadObject(o, f)
        PROVE  OperatorsTyped'
    <3>1. job[o].left \ {f} \in SUBSET (File \cup Collection)
      BY <1>0
    <3> QED
      BY <1>7, <2>3, <3>1 DEF LoadObject, Committed
  <2>4. ASSUME NEW c \in Collection, CreateCollection(o, c)
        PROVE  OperatorsTyped'
    BY <1>0, <1>7, <2>4 DEF CreateCollection, Committed
  <2>5. ASSUME NEW c \in Collection, NEW field \in Field, EnsureIndex(o, c, field)
        PROVE  OperatorsTyped'
    BY <1>0, <1>7, <2>5 DEF EnsureIndex, Committed
  <2> QED
    BY <1>8, <2>1, <2>2, <2>3, <2>4, <2>5
<1>9. ASSUME NEW o \in Op, NEW c \in Collection, CheckIndexes(o, c)
      PROVE  OperatorsTyped'
  <2>1. CASE End(o, "done")
    BY <2>1, EndingPlaced DEF Ended
  <2>2. CASE Go(o, "create", job[o].left \ {c})
    BY <1>0, <1>7, <1>9, <2>2 DEF CheckIndexes, Committed
  <2> QED
    BY <1>9, <2>1, <2>2 DEF CheckIndexes
\* A reset goes on clearing.
<1>10. ASSUME NEW o \in Op, NEW next \in Clearing, NEW rest \in SUBSET (File \cup Collection),
              pc[o] \in Clearing, Go(o, next, rest)
       PROVE  OperatorsTyped'
  <2>1. Busy(o) /\ job[o].cmd = "reset" /\ next \in Stages
    BY <1>0, <1>10 DEF Busy, Placed, Moving
  <2>2. next \notin Committed \cup {"load"}
    BY <1>10
  <2> QED
    BY <1>10, <2>1, <2>2, GoingPlaced
<1>11. ASSUME NEW o \in Op,
              \/ Truncate(o) \/ ListObjects(o) \/ \E f \in File : RemoveObject(o, f)
              \/ ListCollections(o) \/ \E c \in Collection : DropCollection(o, c)
              \/ DroppedCollections(o) \/ FlushCache(o) \/ FlushBounds(o)
       PROVE  OperatorsTyped'
  <2>1. CASE Truncate(o)
    BY <1>10, <2>1 DEF Truncate, Clearing
  <2>2. CASE ListObjects(o)
    <3>1. {g \in File : object[g] # None} \in SUBSET (File \cup Collection)
      OBVIOUS
    <3> QED
      BY <1>10, <2>2, <3>1 DEF ListObjects, Clearing
  <2>3. ASSUME NEW f \in File, RemoveObject(o, f)
        PROVE  OperatorsTyped'
    <3>1. job[o].left \ {f} \in SUBSET (File \cup Collection)
      BY <1>0
    <3> QED
      BY <1>10, <2>3, <3>1 DEF RemoveObject, Clearing
  <2>4. CASE ListCollections(o)
    <3>1. created \in SUBSET (File \cup Collection)
      BY DEF Typed, TypeOK
    <3> QED
      BY <1>10, <2>4, <3>1 DEF ListCollections, Clearing
  <2>5. ASSUME NEW c \in Collection, DropCollection(o, c)
        PROVE  OperatorsTyped'
    <3>1. job[o].left \ {c} \in SUBSET (File \cup Collection)
      BY <1>0
    <3> QED
      BY <1>10, <2>5, <3>1 DEF DropCollection, Clearing
  <2>6. CASE DroppedCollections(o)
    BY <1>10, <2>6 DEF DroppedCollections, Clearing
  <2>7. CASE FlushCache(o) \/ FlushBounds(o)
    BY <1>10, <2>7 DEF FlushCache, FlushBounds, Flush, Clearing
  <2> QED
    BY <1>11, <2>1, <2>2, <2>3, <2>4, <2>5, <2>6, <2>7
<1>12. ASSUME NEW o \in Op, Configure(o)
       PROVE  OperatorsTyped'
  <2>1. Busy(o) /\ job[o].cmd = "reset" /\ Profiled(o) \in Profile \cup {Typo}
    BY <1>0, <1>12 DEF Configure, Busy, Placed, Clearing
  <2>2. CASE Profiled(o) = Typo
    BY <1>12, <2>2, EndingPlaced DEF Configure, Ended
  <2>3. CASE Profiled(o) # Typo
    BY <1>12, <2>1, <2>3, GoingPlaced DEF Configure
  <2> QED
    BY <2>2, <2>3
<1>13. ASSUME NEW o \in Op, ReadMarker(o)
       PROVE  OperatorsTyped'
  <2>1. CASE rows = None
    BY <1>13, <2>1, EndingPlaced DEF ReadMarker, Ended
  <2>2. CASE rows # None
    <3>1. rows \in Profile
      BY <2>2 DEF Typed, TypeOK
    <3>2. /\ pc' = [pc EXCEPT ![o] = "audit"] /\ job' = [job EXCEPT ![o].profile = rows]
          /\ job[o].cmd = "verify"
      BY <1>13, <2>2 DEF ReadMarker
    <3>3. /\ pc' \in [Op -> Stages] /\ job' \in [Op -> Jobs]
          /\ pc'[o] = "audit" /\ job'[o].cmd = "verify"
          /\ \A q \in Op \ {o} : pc'[q] = pc[q] /\ job'[q] = job[q]
      BY <3>1, <3>2, Marking DEF Typed
    <3>4. Placed(o)'
      BY <3>3 DEF Placed
    <3>5. ASSUME NEW q \in Op \ {o} PROVE Placed(q)'
      BY <1>0, <3>3 DEF Placed, Busy, Profiled
    <3> QED
      BY <3>3, <3>4, <3>5 DEF OperatorsTyped
  <2> QED
    BY <2>1, <2>2
<1>14. ASSUME NEW o \in Op, CompareFingerprints(o)
       PROVE  OperatorsTyped'
  BY <1>14, EndingPlaced DEF CompareFingerprints, Ended
<1>15. ASSUME \/ AddRuntimeRows
              \/ \E kind \in {"cache", "bound"} : AddKey(kind)
              \/ \E c \in Collection : Ingest(c)
       PROVE  OperatorsTyped'
  BY <1>1, <1>15 DEF AddRuntimeRows, AddKey, Ingest
<1> QED
  BY <1>2, <1>3, <1>4, <1>6, <1>8, <1>9, <1>11, <1>12, <1>13, <1>14, <1>15 DEF Next, Step

LEMMA TypedInvariant == Spec => []Typed
<1>1. Init => Typed
  BY SeedAssumption, NoJobTyped DEF Init, Typed, TypeOK, Placed, Busy, Ended, Committed, Stages
<1>2. Typed /\ [Next]_vars => Typed'
  <2>1. ASSUME Typed, Next
        PROVE  Typed'
    <3>1. StoresTyped' /\ OperatorsTyped'
      BY <2>1, StoresStayTyped, OperatorsStayTyped
    <3> QED
      BY <3>1, TypedParts, PTL
  <2>2. ASSUME Typed, UNCHANGED vars
        PROVE  Typed'
    BY <2>2 DEF Typed, TypeOK, Placed, Busy, Profiled, vars, stores, vectors
  <2> QED
    BY <2>1, <2>2
<1> QED
  BY <1>1, <1>2, PTL DEF Spec

\* Rows, objects, collections and commands keep their types.
THEOREM TypeCorrect == Spec => []TypeOK
  BY TypedInvariant, PTL DEF Typed

-----------------------------------------------------------------------------
(* Points and their indexes.                                               *)

\* What holds points can be filtered by every field of the retrieval filter,
\* whatever run was interrupted at whichever index.
THEOREM Filterable == Spec => []PointsFilterable
<1>1. Init => PointsFilterable
  BY DEF Init, PointsFilterable
<1>2. TypeOK /\ PointsFilterable /\ [Next]_vars => PointsFilterable'
  <2> SUFFICES ASSUME TypeOK, PointsFilterable, [Next]_vars
               PROVE  PointsFilterable'
    OBVIOUS
  <2> USE DEF TypeOK, PointsFilterable, stores, vectors
  <2>1. ASSUME UNCHANGED <<index, points>>
        PROVE  PointsFilterable'
    BY <2>1
  <2>2. ASSUME NEW o \in Op, NEW c \in Collection, NEW field \in Field, EnsureIndex(o, c, field)
        PROVE  PointsFilterable'
    BY <2>2 DEF EnsureIndex
  <2>3. ASSUME NEW o \in Op, NEW c \in Collection, DropCollection(o, c)
        PROVE  PointsFilterable'
    BY <2>3 DEF DropCollection
  <2>4. ASSUME NEW c \in Collection, Ingest(c)
        PROVE  PointsFilterable'
    BY <2>4 DEF Ingest, Preflight
  <2>5. CASE UNCHANGED vars
    BY <2>1, <2>5 DEF vars
  <2>6. ASSUME NEW o \in Op, Step(o), UNCHANGED <<index, points>> => PointsFilterable'
        PROVE  PointsFilterable'
    BY <2>2, <2>3, <2>6 DEF Step, InspectRows, InspectObjects, InspectPoints, InspectKeys,
       Inspect, LoadRelational, LoadedObjects, LoadObject, RemoveObject, CreateCollection,
       CheckIndexes, Truncate, ListObjects, ListCollections, DroppedCollections, FlushCache,
       FlushBounds, Flush, Configure, ReadMarker, CompareFingerprints
  <2> QED
    BY <2>1, <2>4, <2>5, <2>6 DEF Next, RejectProfile, Start, Die, AddRuntimeRows, AddKey
<1> QED
  BY <1>1, <1>2, TypeCorrect, PTL DEF Spec

-----------------------------------------------------------------------------
(* Four stores and no transaction between them.  Two runs at once do not   *)
(* disturb each other unless one of them is a reset, and what a run that   *)
(* was not disturbed has done so far can be told from where it is.         *)

Quiet(o) == job[o].alone \/ ~disturbed

Clash(o, q) == job[o].cmd = "reset" /\ job[q].cmd \in {"reset", "seed"}

Apart ==
    \A o, q \in Op : o # q /\ Busy(o) /\ Busy(q) =>
        /\ ~job[o].alone
        /\ ~disturbed => /\ ~Clash(o, q)
                         /\ ~(pc[o] \in Committed /\ pc[q] \in Committed)

Empty == \A f \in File : object[f] = None
LoadedBut(p, rest) ==
    /\ rows = p
    /\ \A f \in File : object[f] = IF f \in Files[p] \ rest THEN p ELSE None
Cleared == {"look_points", "look_keys", "load", "drop", "flush_cache", "flush_bounds", "config"}

StageHolds(o) ==
    Busy(o) /\ Quiet(o) =>
        /\ pc[o] \in Cleared /\ rows = None => Empty
        /\ job[o].cmd = "reset" /\ pc[o] \notin {"truncate"} \cup Committed => rows = None
        /\ pc[o] = "remove" => \A f \in File : object[f] # None => f \in job[o].left
        /\ pc[o] = "upload" => /\ job[o].left \subseteq Files[Profiled(o)]
                               /\ LoadedBut(Profiled(o), job[o].left)
        /\ pc[o] \in {"create", "index"} =>
             /\ LoadedBut(Profiled(o), {})
             /\ \A c \in Collection \ job[o].left : c \in created /\ index[c] = Field

Whole ==
    rows # None /\ ~disturbed =>
        Complete(rows) \/ \E o \in Op : pc[o] \in Committed /\ Profiled(o) = rows

Inv == Typed /\ Apart /\ (\A o \in Op : StageHolds(o)) /\ Whole

\* The last index read back makes the dataset whole.
CompletesIndexes(o) ==
    /\ pc[o] = "index"
    /\ \E c \in Collection : job[o].left = {c} /\ c \in created /\ Field \subseteq index[c]

LEMMA CompleteAtTheEnd ==
  ASSUME Typed, NEW o \in Op, StageHolds(o), Quiet(o), CompletesIndexes(o)
  PROVE  Complete(Profiled(o))
<1>1. Busy(o)
  BY DEF CompletesIndexes, Busy, Ended
<1>2. /\ LoadedBut(Profiled(o), {})
      /\ \A c \in Collection \ job[o].left : c \in created /\ index[c] = Field
  BY <1>1 DEF StageHolds, CompletesIndexes
<1>3. \A c \in Collection : index[c] \subseteq Field
  BY DEF Typed, TypeOK
<1>4. \A c \in Collection : c \in created /\ index[c] = Field
  BY <1>2, <1>3 DEF CompletesIndexes
<1>5. object = [f \in File |-> IF f \in Files[Profiled(o)] THEN Profiled(o) ELSE None]
  BY <1>2 DEF LoadedBut, Typed, TypeOK
<1>6. index = [c \in Collection |-> Field] /\ created = Collection
  BY <1>4 DEF Typed, TypeOK
<1> QED
  BY <1>2, <1>5, <1>6 DEF Complete, LoadedBut

\* What a step of one command may do to what the others look at.
Keeps == UNCHANGED <<rows, object, created, index>>
Commits(o) ==
    /\ pc[o] = "load" /\ rows = None /\ rows' = Profiled(o)
    /\ UNCHANGED <<object, created, index>>
    /\ pc'[o] = "upload" /\ job'[o].left = Files[Profiled(o)]
FillsIn(o) == pc[o] \in Committed /\ pc'[o] \in Committed /\ UNCHANGED rows
Clears(o) ==
    /\ pc[o] \in Clearing /\ pc'[o] \in Clearing /\ rows' \in {rows, None}
    /\ pc[o] = "truncate" => rows' = None

Effect(o) ==
    /\ Busy(o)
    /\ \A q \in Op \ {o} : pc'[q] = pc[q] /\ job'[q] = job[q]
    /\ pc'[o] \notin Ended => /\ job'[o].cmd = job[o].cmd /\ job'[o].alone = job[o].alone
                              /\ pc[o] # "look" => job'[o].profile = job[o].profile
    /\ disturbed' = (disturbed /\ (pc[o] = "truncate" => ~job[o].alone))
    /\ \/ Keeps /\ pc[o] \in Committed /\ (pc'[o] \in Committed \/ CompletesIndexes(o))
       \/ Keeps /\ pc[o] \notin Committed \cup {"truncate"} /\ pc'[o] \notin Committed
       \/ Commits(o)
       \/ FillsIn(o)
       \/ Clears(o)

LEMMA GoingEffect ==
  ASSUME Typed, NEW o \in Op, NEW next \in Stages, NEW rest \in SUBSET (File \cup Collection),
         Go(o, next, rest)
  PROVE  /\ pc'[o] = next /\ job'[o].left = rest
         /\ \A q \in Op \ {o} : pc'[q] = pc[q] /\ job'[q] = job[q]
         /\ job'[o].cmd = job[o].cmd /\ job'[o].alone = job[o].alone
         /\ job'[o].profile = job[o].profile
  BY Going DEF Typed

LEMMA EndingEffect ==
  ASSUME Typed, NEW o \in Op, NEW outcome \in Ended, End(o, outcome)
  PROVE  /\ pc'[o] \in Ended
         /\ \A q \in Op \ {o} : pc'[q] = pc[q] /\ job'[q] = job[q]
  BY Ending DEF Typed

LEMMA EffectOfStep ==
  ASSUME Typed, NEW o \in Op, Step(o)
  PROVE  Effect(o)
<1> USE DEF stores, vectors, Keeps, Effect
<1>0. /\ job[o].left \subseteq File \cup Collection /\ created \subseteq Collection
      /\ disturbed \in BOOLEAN /\ job[o].alone \in BOOLEAN
      /\ {} \in SUBSET (File \cup Collection)
  BY DEF Typed, TypeOK, Jobs
<1>1. ASSUME NEW at \in Moving, NEW found, NEW next \in {"look_objects", "look_points", "look_keys", "load"},
             Inspect(o, at, found, next)
      PROVE  Effect(o)
  <2>1. CASE End(o, "refused")
    BY <1>0, <1>1, <2>1, EndingEffect DEF Inspect, Busy, Moving, Ended, Committed
  <2>2. CASE Go(o, next, {})
    BY <1>0, <1>1, <2>2, GoingEffect DEF Inspect, Busy, Moving, Ended, Committed, Stages
  <2> QED
    BY <1>1, <2>1, <2>2 DEF Inspect
<1>2. CASE InspectRows(o) \/ InspectObjects(o) \/ InspectPoints(o) \/ InspectKeys(o)
  BY <1>1, <1>2 DEF InspectRows, InspectObjects, InspectPoints, InspectKeys, Moving
<1>3. CASE LoadRelational(o)
  <2>1. Profiled(o) \in Profile
    BY <1>3 DEF LoadRelational, Typed, TypeOK
  <2>2. Files[Profiled(o)] \in SUBSET (File \cup Collection)
    BY <2>1, SeedAssumption
  <2>3. Commits(o)
    BY <1>3, <2>2, GoingEffect DEF LoadRelational, Commits, Stages, Committed
  <2> QED
    BY <1>0, <1>3, <2>2, <2>3, GoingEffect DEF LoadRelational, Busy, Ended, Committed, Stages
<1>4. CASE LoadedObjects(o)
  BY <1>0, <1>4, GoingEffect DEF LoadedObjects, Busy, Ended, Committed, Stages
<1>5. ASSUME NEW f \in File, LoadObject(o, f)
      PROVE  Effect(o)
  BY <1>0, <1>5, GoingEffect DEF LoadObject, FillsIn, Busy, Ended, Committed, Stages
<1>6. ASSUME NEW f \in File, RemoveObject(o, f)
      PROVE  Effect(o)
  BY <1>0, <1>6, GoingEffect DEF RemoveObject, Clears, Clearing, Busy, Ended, Committed, Stages
<1>7. ASSUME NEW c \in Collection, CreateCollection(o, c)
      PROVE  Effect(o)
  BY <1>0, <1>7, GoingEffect DEF CreateCollection, FillsIn, Busy, Ended, Committed, Stages
<1>8. ASSUME NEW c \in Collection, CheckIndexes(o, c)
      PROVE  Effect(o)
  <2>1. pc[o] = "index" /\ UNCHANGED <<stores, disturbed>>
    BY <1>8 DEF CheckIndexes
  <2>2. CASE job[o].left = {c}
    <3>1. CompletesIndexes(o)
      BY <1>8, <2>2 DEF CheckIndexes, CompletesIndexes
    <3> QED
      BY <1>0, <1>8, <2>1, <2>2, <3>1, EndingEffect DEF CheckIndexes, Busy, Ended, Committed
  <2>3. CASE job[o].left # {c}
    <3>1. Go(o, "create", job[o].left \ {c}) /\ job[o].left \ {c} \in SUBSET (File \cup Collection)
      BY <1>0, <1>8, <2>3 DEF CheckIndexes
    <3> QED
      BY <1>0, <2>1, <3>1, GoingEffect DEF Busy, Ended, Committed, Stages
  <2> QED
    BY <2>2, <2>3
<1>9. ASSUME NEW c \in Collection, DropCollection(o, c)
      PROVE  Effect(o)
  BY <1>0, <1>9, GoingEffect DEF DropCollection, Clears, Clearing, Busy, Ended, Committed, Stages
<1>10. ASSUME NEW c \in Collection, NEW field \in Field, EnsureIndex(o, c, field)
       PROVE  Effect(o)
  BY <1>0, <1>10, GoingEffect DEF EnsureIndex, FillsIn, Busy, Ended, Committed, Stages
<1>11. CASE Truncate(o)
  BY <1>0, <1>11, GoingEffect DEF Truncate, Clears, Clearing, Busy, Ended, Committed, Stages
<1>12. CASE ListObjects(o)
  <2>1. {f \in File : object[f] # None} \in SUBSET (File \cup Collection)
    OBVIOUS
  <2> QED
    BY <1>0, <1>12, <2>1, GoingEffect
       DEF ListObjects, Clears, Clearing, Busy, Ended, Committed, Stages
<1>13. CASE ListCollections(o)
  BY <1>0, <1>13, GoingEffect DEF ListCollections, Clears, Clearing, Busy, Ended, Committed, Stages
<1>14. CASE DroppedCollections(o)
  BY <1>0, <1>14, GoingEffect DEF DroppedCollections, Clears, Clearing, Busy, Ended, Committed, Stages
<1>15. CASE FlushCache(o) \/ FlushBounds(o)
  BY <1>0, <1>15, GoingEffect
     DEF FlushCache, FlushBounds, Flush, Clears, Clearing, Busy, Ended, Committed, Stages
<1>16. CASE Configure(o)
  <2>1. CASE End(o, "refused")
    BY <1>0, <1>16, <2>1, EndingEffect DEF Configure, Busy, Ended, Committed
  <2>2. CASE Go(o, "load", {})
    BY <1>0, <1>16, <2>2, GoingEffect DEF Configure, Busy, Ended, Committed, Stages
  <2> QED
    BY <1>16, <2>1, <2>2 DEF Configure
<1>17. CASE ReadMarker(o)
  <2>1. CASE rows = None
    BY <1>0, <1>17, <2>1, EndingEffect DEF ReadMarker, Busy, Ended, Committed
  <2>2. CASE rows # None
    <3>1. /\ rows \in Profile /\ TypeOK
          /\ pc' = [pc EXCEPT ![o] = "audit"] /\ job' = [job EXCEPT ![o].profile = rows]
      BY <1>17, <2>2 DEF ReadMarker, Typed, TypeOK
    <3>2. /\ pc'[o] = "audit" /\ job'[o].cmd = job[o].cmd /\ job'[o].alone = job[o].alone
          /\ \A q \in Op \ {o} : pc'[q] = pc[q] /\ job'[q] = job[q]
      BY <3>1, Marking
    <3> QED
      BY <1>0, <1>17, <3>2 DEF ReadMarker, Busy, Ended, Committed
  <2> QED
    BY <2>1, <2>2
<1>18. CASE CompareFingerprints(o)
  BY <1>0, <1>18, EndingEffect DEF CompareFingerprints, Busy, Ended, Committed
<1> QED
  BY <1>2, <1>3, <1>4, <1>5, <1>6, <1>7, <1>8, <1>9, <1>10, <1>11, <1>12, <1>13, <1>14, <1>15,
     <1>16, <1>17, <1>18 DEF Step

-----------------------------------------------------------------------------
(* What another command does leaves a run's own account of the stores.     *)

LEMMA OthersHold ==
  ASSUME Inv, NEW o \in Op, Effect(o), NEW q \in Op \ {o}
  PROVE  StageHolds(q)'
<1> SUFFICES ASSUME Busy(q), Quiet(q)'
             PROVE  StageHolds(q)'
  BY DEF StageHolds, Effect, Busy
<1>1. /\ pc'[q] = pc[q] /\ job'[q] = job[q] /\ Busy(o)
      /\ job[q].cmd \in {"seed", "reset", "verify"}
      /\ job[o].cmd \in {"seed", "reset", "verify"}
  BY DEF Inv, Typed, TypeOK, Jobs, Effect
<1>2. ~job[o].alone /\ ~job[q].alone
  BY <1>1 DEF Inv, Apart
<1>3. ~disturbed
  BY <1>1, <1>2 DEF Effect, Quiet, Inv, Typed, TypeOK
<1>4. /\ ~Clash(o, q) /\ ~Clash(q, o)
      /\ ~(pc[o] \in Committed /\ pc[q] \in Committed)
  BY <1>1, <1>3 DEF Inv, Apart
<1>5. Quiet(o) /\ Quiet(q) /\ StageHolds(o) /\ StageHolds(q)
  BY <1>3 DEF Quiet, Inv
<1>6. Placed(o) /\ Placed(q)
  BY DEF Inv, Typed
<1>7. CASE Keeps
  BY <1>1, <1>5, <1>7 DEF Keeps, StageHolds, Empty, LoadedBut, Profiled, Busy
<1>8. CASE Commits(o)
  <2>1. rows = None /\ rows' # None /\ UNCHANGED <<object, created, index>>
    <3>1. Profiled(o) \in Profile
      BY <1>1, <1>6, <1>8 DEF Commits, Placed
    <3> QED
      BY <1>8, <3>1, SeedAssumption DEF Commits
  <2>2. pc[q] \notin Committed
    <3>1. ASSUME pc[q] \in Committed PROVE FALSE
      <4>1. Profiled(q) \in Profile
        BY <1>6, <3>1 DEF Placed
      <4>2. rows = Profiled(q)
        BY <1>5, <3>1 DEF StageHolds, LoadedBut, Committed
      <4> QED
        BY <2>1, <4>1, <4>2, SeedAssumption
    <3> QED
      BY <3>1
  <2>3. job[o].cmd \in {"seed", "reset"}
    BY <1>1, <1>6, <1>8 DEF Commits, Placed, Busy
  <2>4. job[q].cmd # "reset"
    BY <1>4, <2>3 DEF Clash
  <2>5. pc[q] \notin Clearing
    BY <1>1, <1>6, <2>4, StagesApart DEF Placed, Moving
  <2> QED
    BY <1>1, <2>1, <2>2, <2>4, <2>5 DEF StageHolds, Clearing, Committed
<1>9. CASE FillsIn(o)
  <2>1. Profiled(o) \in Profile /\ rows = Profiled(o) /\ UNCHANGED rows
    <3>1. Profiled(o) \in Profile
      BY <1>1, <1>6, <1>9 DEF FillsIn, Placed
    <3> QED
      BY <1>1, <1>5, <1>9, <3>1 DEF FillsIn, StageHolds, LoadedBut, Committed
  <2>2. rows # None /\ rows' # None
    BY <2>1, SeedAssumption
  <2>3. pc[q] \notin Committed
    BY <1>4, <1>9 DEF FillsIn
  <2>4. job[o].cmd \in {"seed", "reset"}
    BY <1>1, <1>6, <1>9, StagesApart DEF FillsIn, Placed, Moving
  <2>5. job[q].cmd # "reset"
    BY <1>4, <2>4 DEF Clash
  <2>6. pc[q] \notin Clearing
    BY <1>1, <1>6, <2>5, StagesApart DEF Placed, Moving
  <2> QED
    BY <1>1, <2>2, <2>3, <2>5, <2>6 DEF StageHolds, Clearing, Committed
<1>10. CASE Clears(o)
  <2>1. job[o].cmd = "reset"
    BY <1>1, <1>6, <1>10, StagesApart DEF Clears, Placed, Moving
  <2>2. job[q].cmd = "verify"
    BY <1>1, <1>4, <2>1 DEF Clash
  <2>3. pc[q] \in {"look", "audit"}
    BY <1>6, <2>2 DEF Placed
  <2> QED
    BY <1>1, <2>2, <2>3 DEF StageHolds, Cleared
<1> QED
  BY <1>7, <1>8, <1>9, <1>10 DEF Effect

-----------------------------------------------------------------------------
(* What a command does itself.                                             *)

LEMMA StillQuiet ==
  ASSUME Typed, NEW o \in Op, Effect(o), pc'[o] \notin Ended, Quiet(o)'
  PROVE  Quiet(o)
  BY DEF Effect, Quiet, Typed, TypeOK

LEMMA OwnHolds ==
  ASSUME Inv, NEW o \in Op, Step(o), Effect(o)
  PROVE  StageHolds(o)'
<1> SUFFICES ASSUME pc'[o] \notin Ended, Quiet(o)'
             PROVE  StageHolds(o)'
  BY DEF StageHolds, Busy
<1>0. /\ Quiet(o) /\ StageHolds(o) /\ Placed(o) /\ Busy(o) /\ Typed
      /\ job'[o].cmd = job[o].cmd
      /\ job[o].left \subseteq File \cup Collection /\ created \subseteq Collection
      /\ job[o].cmd \in {"seed", "reset", "verify"}
  BY StillQuiet DEF Inv, Effect, Typed, TypeOK, Jobs
<1>00. \A outcome \in Ended : ~End(o, outcome)
  BY <1>0, EndingEffect
<1> USE DEF stores, vectors, Ended
\* A stage that says nothing of the stores but of their being empty.
<1>1. ASSUME NEW next \in Cleared, NEW rest \in SUBSET (File \cup Collection),
             Go(o, next, rest), UNCHANGED <<rows, object>>,
             rows = None => Empty, job[o].cmd = "reset" => rows = None
      PROVE  StageHolds(o)'
  <2>1. pc'[o] = next /\ next \in Stages
    BY <1>0, <1>1, GoingEffect DEF Cleared, Stages
  <2> QED
    BY <1>0, <1>1, <2>1 DEF StageHolds, Cleared, Empty, Committed
<1>2. CASE InspectRows(o)
  <2>1. Go(o, "look_objects", {})
    BY <1>00, <1>2 DEF InspectRows, Inspect
  <2>2. pc'[o] = "look_objects" /\ job[o].cmd = "seed"
    BY <1>0, <1>2, <2>1, GoingEffect DEF Stages, InspectRows, Inspect
  <2> QED
    BY <1>0, <2>2 DEF StageHolds, Cleared, Committed
<1>3. CASE InspectObjects(o)
  <2>1. Go(o, "look_points", {}) /\ Empty
    BY <1>00, <1>3 DEF InspectObjects, Inspect, Empty
  <2> QED
    BY <1>1, <1>3, <2>1 DEF InspectObjects, Inspect, Cleared
<1>4. CASE InspectPoints(o)
  <2>1. Go(o, "look_keys", {})
    BY <1>00, <1>4 DEF InspectPoints, Inspect
  <2> QED
    BY <1>0, <1>1, <1>4, <2>1 DEF InspectPoints, Inspect, Cleared, StageHolds
<1>5. CASE InspectKeys(o)
  <2>1. Go(o, "load", {})
    BY <1>00, <1>5 DEF InspectKeys, Inspect
  <2> QED
    BY <1>0, <1>1, <1>5, <2>1 DEF InspectKeys, Inspect, Cleared, StageHolds
<1>6. CASE LoadRelational(o)
  <2>1. Profiled(o) \in Profile
    BY <1>0, <1>6 DEF LoadRelational, Placed
  <2>2. Files[Profiled(o)] \subseteq File
    BY <2>1, SeedAssumption
  <2>3. /\ pc'[o] = "upload" /\ job'[o].left = Files[Profiled(o)]
        /\ job'[o].profile = job[o].profile
    BY <1>0, <1>6, <2>2, GoingEffect DEF LoadRelational, Stages, Committed
  <2>4. Empty
    BY <1>0, <1>6 DEF LoadRelational, StageHolds, Cleared
  <2>5. LoadedBut(Profiled(o), Files[Profiled(o)])'
    BY <1>6, <2>3, <2>4 DEF LoadRelational, LoadedBut, Empty, Profiled
  <2> QED
    BY <2>3, <2>5 DEF StageHolds, Cleared, Profiled, Committed, LoadedBut
<1>7. CASE LoadedObjects(o)
  <2>0. Collection \in SUBSET (File \cup Collection) /\ "create" \in Stages
    BY DEF Stages, Committed
  <2>1. /\ pc'[o] = "create" /\ job'[o].left = Collection
        /\ job'[o].profile = job[o].profile
    BY <1>0, <1>7, <2>0, GoingEffect DEF LoadedObjects
  <2>2. LoadedBut(Profiled(o), {}) /\ UNCHANGED <<rows, object>>
    BY <1>0, <1>7 DEF LoadedObjects, StageHolds, LoadedBut
  <2> QED
    BY <2>1, <2>2 DEF StageHolds, Cleared, Profiled, Committed, LoadedBut
<1>8. ASSUME NEW f \in File, LoadObject(o, f)
      PROVE  StageHolds(o)'
  <2>0. job[o].left \ {f} \in SUBSET (File \cup Collection) /\ "upload" \in Stages
    BY <1>0 DEF Stages, Committed
  <2>1. /\ pc'[o] = "upload" /\ job'[o].left = job[o].left \ {f}
        /\ job'[o].profile = job[o].profile
    BY <1>0, <1>8, <2>0, GoingEffect DEF LoadObject
  <2>2. /\ job[o].left \subseteq Files[Profiled(o)] /\ f \in job[o].left
        /\ LoadedBut(Profiled(o), job[o].left)
    BY <1>0, <1>8 DEF LoadObject, StageHolds
  <2>3. rows' = rows /\ object' = [object EXCEPT ![f] = Profiled(o)]
    BY <1>8 DEF LoadObject
  <2>4. \A g \in File : object'[g] =
          IF g \in Files[Profiled(o)] \ (job[o].left \ {f}) THEN Profiled(o) ELSE None
    BY <1>0, <2>2, <2>3 DEF LoadedBut, Typed, TypeOK
  <2>5. Profiled(o)' = Profiled(o)
    BY <2>1 DEF Profiled
  <2>6. LoadedBut(Profiled(o), job[o].left)'
    BY <2>1, <2>2, <2>3, <2>4, <2>5 DEF LoadedBut
  <2> QED
    BY <2>1, <2>2, <2>5, <2>6 DEF StageHolds, Cleared, Committed
<1>9. ASSUME pc[o] \in {"create", "index"}, UNCHANGED <<rows, object>>,
             NEW next \in {"create", "index"}, NEW rest \in SUBSET (File \cup Collection),
             Go(o, next, rest),
             \A c \in Collection \ job[o].left : c \in created /\ index[c] = Field =>
                 c \in created' /\ index'[c] = Field,
             \A c \in job[o].left \ rest : c \in created' /\ index'[c] = Field
      PROVE  StageHolds(o)'
  <2>1. /\ pc'[o] = next /\ job'[o].left = rest
        /\ job'[o].profile = job[o].profile
    BY <1>0, <1>9, GoingEffect DEF Stages, Committed
  <2>2. /\ LoadedBut(Profiled(o), {})
        /\ \A c \in Collection \ job[o].left : c \in created /\ index[c] = Field
    BY <1>0, <1>9 DEF StageHolds
  <2>3. \A c \in Collection \ rest : c \in created' /\ index'[c] = Field
    BY <1>9, <2>2
  <2>4. LoadedBut(Profiled(o), {})'
    BY <1>9, <2>1, <2>2 DEF LoadedBut, Profiled
  <2> QED
    BY <2>1, <2>3, <2>4 DEF StageHolds, Cleared, Committed
<1>10. ASSUME NEW c \in Collection, CreateCollection(o, c)
       PROVE  StageHolds(o)'
  <2>1. /\ pc[o] = "create" /\ UNCHANGED <<rows, object, index>>
        /\ Go(o, "index", job[o].left) /\ created \subseteq created'
    BY <1>10 DEF CreateCollection
  <2> QED
    BY <1>0, <1>9, <2>1
<1>11. ASSUME NEW c \in Collection, NEW field \in Field, EnsureIndex(o, c, field)
       PROVE  StageHolds(o)'
  <2>1. /\ pc[o] = "index" /\ UNCHANGED <<rows, object, created>>
        /\ Go(o, "index", job[o].left)
        /\ index' = [index EXCEPT ![c] = index[c] \cup {field}]
    BY <1>11 DEF EnsureIndex
  <2>2. \A d \in Collection : index[d] = Field => index'[d] = Field
    BY <1>0, <2>1 DEF Typed, TypeOK
  <2> QED
    BY <1>0, <1>9, <2>1, <2>2
<1>12. ASSUME NEW c \in Collection, CheckIndexes(o, c)
       PROVE  StageHolds(o)'
  <2>1. /\ pc[o] = "index" /\ UNCHANGED <<rows, object, created, index>>
        /\ Go(o, "create", job[o].left \ {c})
        /\ c \in created /\ Field \subseteq index[c]
    BY <1>00, <1>12 DEF CheckIndexes
  <2>2. index[c] = Field
    BY <1>0, <2>1 DEF Typed, TypeOK
  <2>3. job[o].left \ {c} \in SUBSET (File \cup Collection)
    BY <1>0
  <2> QED
    BY <1>9, <2>1, <2>2, <2>3
\* A reset past its first step has no rows.
<1>13. ASSUME pc[o] \in Clearing \ {"truncate"}
       PROVE  job[o].cmd = "reset" /\ rows = None
  <2>1. job[o].cmd = "reset"
    BY <1>0, <1>13, StagesApart DEF Placed, Moving
  <2> QED
    BY <1>0, <1>13, <2>1, StagesApart DEF StageHolds
<1>14. CASE Truncate(o)
  <2>1. pc'[o] = "list" /\ rows' = None
    BY <1>0, <1>14, GoingEffect DEF Truncate, Stages
  <2> QED
    BY <2>1 DEF StageHolds, Cleared, Committed
<1>15. CASE ListObjects(o)
  <2>0. {f \in File : object[f] # None} \in SUBSET (File \cup Collection) /\ "remove" \in Stages
    BY DEF Stages
  <2>1. /\ pc'[o] = "remove" /\ job'[o].left = {f \in File : object[f] # None}
        /\ UNCHANGED <<rows, object>> /\ rows = None
    BY <1>0, <1>13, <1>15, <2>0, GoingEffect DEF ListObjects, Clearing
  <2> QED
    BY <2>1 DEF StageHolds, Cleared, Committed
<1>16. ASSUME NEW f \in File, RemoveObject(o, f)
       PROVE  StageHolds(o)'
  <2>0. job[o].left \ {f} \in SUBSET (File \cup Collection) /\ "remove" \in Stages
    BY <1>0 DEF Stages
  <2>1. /\ pc'[o] = "remove" /\ job'[o].left = job[o].left \ {f}
        /\ rows' = None /\ object' = [object EXCEPT ![f] = None]
    BY <1>0, <1>13, <1>16, <2>0, GoingEffect DEF RemoveObject, Clearing
  <2>2. \A g \in File : object'[g] # None => g \in job[o].left \ {f}
    BY <1>0, <1>16, <2>1 DEF RemoveObject, StageHolds, Typed, TypeOK
  <2> QED
    BY <2>1, <2>2 DEF StageHolds, Cleared, Committed
<1>17. CASE ListCollections(o)
  <2>1. Empty /\ rows = None /\ UNCHANGED <<rows, object>> /\ Go(o, "drop", created)
    BY <1>0, <1>13, <1>17 DEF ListCollections, StageHolds, Empty, Clearing
  <2> QED
    BY <1>0, <1>1, <2>1 DEF Cleared
<1>18. ASSUME NEW c \in Collection, DropCollection(o, c)
       PROVE  StageHolds(o)'
  <2>1. /\ Empty /\ rows = None /\ UNCHANGED <<rows, object>>
        /\ Go(o, "drop", job[o].left \ {c}) /\ job[o].left \ {c} \in SUBSET (File \cup Collection)
    BY <1>0, <1>13, <1>18 DEF DropCollection, StageHolds, Cleared, Clearing
  <2> QED
    BY <1>1, <2>1 DEF Cleared
<1>19. CASE DroppedCollections(o)
  <2>1. Empty /\ rows = None /\ UNCHANGED <<rows, object>> /\ Go(o, "flush_cache", {})
    BY <1>0, <1>13, <1>19 DEF DroppedCollections, StageHolds, Cleared, Clearing
  <2> QED
    BY <1>1, <2>1 DEF Cleared
<1>20. CASE FlushCache(o) \/ FlushBounds(o)
  <2>1. /\ Empty /\ rows = None /\ UNCHANGED <<rows, object>>
        /\ Go(o, "flush_bounds", {}) \/ Go(o, "config", {})
    BY <1>0, <1>13, <1>20
       DEF FlushCache, FlushBounds, Flush, StageHolds, Cleared, Clearing
  <2> QED
    BY <1>1, <2>1 DEF Cleared
<1>21. CASE Configure(o)
  <2>1. Empty /\ rows = None /\ UNCHANGED <<rows, object>> /\ Go(o, "load", {})
    BY <1>0, <1>00, <1>13, <1>21 DEF Configure, StageHolds, Cleared, Clearing
  <2> QED
    BY <1>1, <2>1 DEF Cleared
<1>22. CASE ReadMarker(o)
  <2>1. /\ TypeOK /\ rows \in Profile /\ pc' = [pc EXCEPT ![o] = "audit"]
        /\ job' = [job EXCEPT ![o].profile = rows] /\ job[o].cmd = "verify"
    BY <1>0, <1>00, <1>22 DEF ReadMarker, Typed, TypeOK
  <2>2. pc'[o] = "audit"
    BY <2>1, Marking
  <2> QED
    BY <1>0, <2>1, <2>2 DEF StageHolds, Cleared
<1>23. CASE CompareFingerprints(o)
  BY <1>00, <1>23 DEF CompareFingerprints
<1> QED
  BY <1>2, <1>3, <1>4, <1>5, <1>6, <1>7, <1>8, <1>10, <1>11, <1>12, <1>14, <1>15, <1>16, <1>17,
     <1>18, <1>19, <1>20, <1>21, <1>22, <1>23 DEF Step

-----------------------------------------------------------------------------
(* The invariant, over every kind of step.                                 *)

LEMMA StepKeepsApart ==
  ASSUME Inv, NEW o \in Op, Effect(o)
  PROVE  Apart'
<1> SUFFICES ASSUME NEW a \in Op, NEW b \in Op, a # b, Busy(a)', Busy(b)'
             PROVE  /\ ~job'[a].alone
                    /\ ~disturbed' => /\ ~Clash(a, b)'
                                      /\ ~(pc'[a] \in Committed /\ pc'[b] \in Committed)
  BY DEF Apart
<1>1. \A q \in Op : Busy(q)' => /\ Busy(q) /\ job'[q].cmd = job[q].cmd
                                /\ job'[q].alone = job[q].alone
  BY DEF Effect, Busy
<1>2. /\ ~job[a].alone /\ ~job[b].alone
      /\ ~disturbed => /\ ~Clash(a, b)
                       /\ ~(pc[a] \in Committed /\ pc[b] \in Committed)
  BY <1>1 DEF Inv, Apart
<1>3. ~job[o].alone
  BY <1>1, <1>2 DEF Inv, Apart, Effect
<1>4. disturbed' = disturbed
  BY <1>3 DEF Effect, Inv, Typed, TypeOK
<1>5. ~Clash(a, b)' <=> ~Clash(a, b)
  BY <1>1 DEF Clash
<1>6. ASSUME ~disturbed, pc'[a] \in Committed, pc'[b] \in Committed
      PROVE  FALSE
  <2>1. \A q \in Op \ {o} : pc'[q] = pc[q]
    BY DEF Effect
  <2>2. Commits(o) /\ (o = a \/ o = b)
    BY <1>2, <1>6, <2>1, StagesApart DEF Effect, Clears, FillsIn
  <2>3. PICK q \in {a, b} : q # o
    BY <2>2
  <2>4. pc[q] \in Committed /\ Busy(q) /\ Quiet(q) /\ StageHolds(q) /\ Placed(q)
    BY <1>1, <1>6, <2>1, <2>3 DEF Quiet, Inv, Typed
  <2>5. Profiled(q) \in Profile /\ rows = Profiled(q)
    BY <2>4 DEF Placed, StageHolds, LoadedBut, Committed
  <2> QED
    BY <2>2, <2>5, SeedAssumption DEF Commits
<1> QED
  BY <1>1, <1>2, <1>4, <1>5, <1>6

LEMMA StepKeepsWhole ==
  ASSUME Inv, NEW o \in Op, Effect(o)
  PROVE  Whole'
<1> SUFFICES ASSUME rows' # None, ~disturbed'
             PROVE  \/ Complete(rows)'
                    \/ \E q \in Op : pc'[q] \in Committed /\ Profiled(q)' = rows'
  BY DEF Whole
<1>0. /\ StageHolds(o) /\ Placed(o) /\ Busy(o) /\ Typed
      /\ \A q \in Op \ {o} : pc'[q] = pc[q] /\ job'[q] = job[q]
      /\ job[o].cmd \in {"seed", "reset", "verify"}
  BY DEF Inv, Effect, Typed, TypeOK, Jobs
<1>1. CASE Clears(o)
  <2>1. pc[o] # "truncate" /\ rows # None
    BY <1>1 DEF Clears
  <2>2. ~disturbed /\ Quiet(o)
    BY <2>1, <1>0 DEF Effect, Quiet, Typed, TypeOK
  <2>3. job[o].cmd = "reset"
    BY <1>0, <1>1, StagesApart DEF Clears, Placed, Moving
  <2> QED
    BY <1>0, <1>1, <2>1, <2>2, <2>3, StagesApart DEF Clears, StageHolds
<1>2. CASE ~Clears(o)
  <2>1. pc[o] # "truncate"
    BY <1>2 DEF Effect, Commits, FillsIn, Committed
  <2>2. ~disturbed /\ Quiet(o)
    BY <2>1, <1>0 DEF Effect, Quiet, Typed, TypeOK
  <2>3. pc'[o] \in Committed => Profiled(o)' = Profiled(o)
    BY <1>2, StagesApart DEF Effect, Commits, FillsIn, Profiled, Moving, Committed, Ended
  <2>4. CASE Commits(o)
    BY <2>3, <2>4 DEF Commits, Committed
  <2>5. CASE pc[o] \in Committed /\ pc'[o] \in Committed /\ UNCHANGED rows
    <3>1. rows = Profiled(o)
      BY <1>0, <2>2, <2>5 DEF StageHolds, LoadedBut, Committed
    <3> QED
      BY <2>3, <2>5, <3>1
  <2>6. CASE Keeps /\ CompletesIndexes(o)
    <3>1. Complete(Profiled(o)) /\ rows = Profiled(o)
      BY <1>0, <2>2, <2>6, CompleteAtTheEnd DEF Complete
    <3> QED
      BY <2>6, <3>1 DEF Keeps, Complete
  <2>7. CASE Keeps /\ pc[o] \notin Committed
    <3>1. CASE Complete(rows)
      BY <2>7, <3>1 DEF Keeps, Complete
    <3>2. ASSUME NEW q \in Op, pc[q] \in Committed, Profiled(q) = rows
          PROVE  pc'[q] \in Committed /\ Profiled(q)' = rows'
      BY <1>0, <2>7, <3>2 DEF Keeps, Profiled
    <3>3. Complete(rows) \/ \E q \in Op : pc[q] \in Committed /\ Profiled(q) = rows
      BY <2>2, <2>7 DEF Keeps, Inv, Whole
    <3> QED
      BY <3>1, <3>2, <3>3
  <2> QED
    BY <1>2, <2>4, <2>5, <2>6, <2>7 DEF Effect, FillsIn, Keeps
<1> QED
  BY <1>1, <1>2

\* Starting a command, refusing one, and a death leave the stores alone.
LEMMA StartKeepsInv ==
  ASSUME Inv, NEW o \in Op, NEW c \in {"seed", "reset", "verify"},
         NEW p \in Profile \cup {Typo}, Start(o, c, p)
  PROVE  Apart' /\ (\A q \in Op : StageHolds(q)') /\ Whole'
<1>0. /\ pc'[o] = (IF c = "reset" THEN "truncate" ELSE "look")
      /\ job'[o].cmd = c
      /\ job'[o].alone = ({q \in Op : Busy(q)} = {})
      /\ \A q \in Op \ {o} :
           /\ pc'[q] = pc[q] /\ ~job'[q].alone
           /\ job'[q].cmd = job[q].cmd /\ job'[q].profile = job[q].profile
           /\ job'[q].left = job[q].left
  BY Starting DEF Inv, Typed
<1>1. /\ ~Busy(o) /\ UNCHANGED <<rows, object, created, index>>
      /\ disturbed' = (disturbed \/ \E q \in {r \in Op : Busy(r)} :
                         {c, job[q].cmd} \in {{"reset"}, {"reset", "seed"}})
  BY DEF Start, stores, vectors
<1>2. disturbed \in BOOLEAN /\ pc'[o] \notin Committed
  BY <1>0 DEF Inv, Typed, TypeOK, Committed
<1>3. ~disturbed' => ~disturbed
  BY <1>1, <1>2
<1>4. ASSUME NEW q \in Op \ {o}, Busy(q)', ~disturbed'
      PROVE  ~Clash(o, q)' /\ ~Clash(q, o)'
  <2>1. q \in {r \in Op : Busy(r)}
    BY <1>0, <1>4 DEF Busy
  <2>2. {c, job[q].cmd} \notin {{"reset"}, {"reset", "seed"}}
    BY <1>1, <1>2, <1>4, <2>1
  <2>3. ~(c = "reset" /\ job[q].cmd \in {"reset", "seed"})
    BY <2>2
  <2>4. ~(job[q].cmd = "reset" /\ c \in {"reset", "seed"})
    BY <2>2
  <2> QED
    BY <1>0, <2>3, <2>4 DEF Clash
<1>5. Apart'
  <2> SUFFICES ASSUME NEW a \in Op, NEW b \in Op, a # b, Busy(a)', Busy(b)'
               PROVE  /\ ~job'[a].alone
                      /\ ~disturbed' => /\ ~Clash(a, b)'
                                        /\ ~(pc'[a] \in Committed /\ pc'[b] \in Committed)
    BY DEF Apart
  <2>1. CASE a = o
    <3>1. Busy(b)
      BY <1>0, <2>1 DEF Busy
    <3> QED
      BY <1>0, <1>2, <1>4, <2>1, <3>1
  <2>2. CASE b = o
    BY <1>0, <1>2, <1>4, <2>2
  <2>3. CASE a # o /\ b # o
    <3>1. Busy(a) /\ Busy(b)
      BY <1>0, <2>3 DEF Busy
    <3> QED
      BY <1>0, <1>3, <2>3, <3>1 DEF Inv, Apart, Clash
  <2> QED
    BY <2>1, <2>2, <2>3
<1>6. StageHolds(o)'
  BY <1>0 DEF StageHolds, Cleared, Committed
<1>7. ASSUME NEW q \in Op \ {o}, Busy(q)', Quiet(q)'
      PROVE  StageHolds(q)'
  <2>1. Busy(q) /\ Quiet(q) /\ StageHolds(q)
    BY <1>0, <1>3, <1>7 DEF Busy, Quiet, Inv
  <2> QED
    BY <1>0, <1>1, <2>1 DEF StageHolds, Empty, LoadedBut, Profiled
<1>8. ASSUME rows' # None, ~disturbed'
      PROVE  Complete(rows)' \/ \E q \in Op : pc'[q] \in Committed /\ Profiled(q)' = rows'
  <2>1. Complete(rows) \/ \E q \in Op : pc[q] \in Committed /\ Profiled(q) = rows
    BY <1>1, <1>3, <1>8 DEF Inv, Whole
  <2>2. pc[o] \notin Committed
    BY <1>1 DEF Busy, Ended, Committed
  <2>3. \A q \in Op : pc[q] \in Committed => pc'[q] = pc[q] /\ Profiled(q)' = Profiled(q)
    BY <1>0, <2>2 DEF Profiled
  <2> QED
    BY <1>1, <2>1, <2>3 DEF Complete
<1>9. \A q \in Op : StageHolds(q)'
  BY <1>6, <1>7 DEF StageHolds
<1> QED
  BY <1>5, <1>8, <1>9 DEF Whole

LEMMA EndKeepsInv ==
  ASSUME Inv, NEW o \in Op, pc'[o] \in Ended,
         \A q \in Op \ {o} : pc'[q] = pc[q] /\ job'[q] = job[q],
         UNCHANGED stores,
         disturbed' = (disturbed \/ pc[o] \in Committed)
  PROVE  Apart' /\ (\A q \in Op : StageHolds(q)') /\ Whole'
<1>0. disturbed \in BOOLEAN
  BY DEF Inv, Typed, TypeOK
<1>1. ~disturbed' => ~disturbed /\ pc[o] \notin Committed
  BY <1>0
<1>2. \A q \in Op : Busy(q)' => q # o
  BY DEF Busy
<1>3. Apart'
  BY <1>1, <1>2 DEF Inv, Apart, Busy, Clash
<1>4. ASSUME NEW q \in Op, Busy(q)', Quiet(q)'
      PROVE  StageHolds(q)'
  <2>1. q # o /\ Busy(q) /\ Quiet(q) /\ StageHolds(q)
    BY <1>1, <1>2, <1>4 DEF Busy, Quiet, Inv
  <2>2. pc'[q] = pc[q] /\ job'[q] = job[q]
    BY <2>1
  <2> QED
    BY <2>1, <2>2 DEF StageHolds, Empty, LoadedBut, Profiled, stores, vectors
<1>5. ASSUME rows' # None, ~disturbed'
      PROVE  Complete(rows)' \/ \E q \in Op : pc'[q] \in Committed /\ Profiled(q)' = rows'
  <2>1. Complete(rows) \/ \E q \in Op : pc[q] \in Committed /\ Profiled(q) = rows
    BY <1>1, <1>5 DEF Inv, Whole, stores
  <2>2. \A q \in Op : pc[q] \in Committed => pc'[q] = pc[q] /\ Profiled(q)' = Profiled(q)
    BY <1>1, <1>5 DEF Profiled
  <2> QED
    BY <2>1, <2>2 DEF Complete, stores, vectors
<1>6. \A q \in Op : StageHolds(q)'
  BY <1>4 DEF StageHolds
<1> QED
  BY <1>3, <1>5, <1>6 DEF Whole

LEMMA InvInvariant == Spec => []Inv
<1>1. Init => Inv
  <2> SUFFICES ASSUME Init
               PROVE  Inv
    OBVIOUS
  <2>1. \A o \in Op : ~Busy(o)
    BY DEF Init, Busy, Ended
  <2>2. Typed
    BY SeedAssumption, NoJobTyped DEF Init, Typed, TypeOK, Placed, Busy, Ended, Committed, Stages
  <2>3. Apart /\ (\A o \in Op : StageHolds(o))
    BY <2>1 DEF Apart, StageHolds
  <2>4. Whole
    BY DEF Init, Whole
  <2> QED
    BY <2>2, <2>3, <2>4 DEF Inv
<1>2. Inv /\ Typed' /\ [Next]_vars => Inv'
  <2> SUFFICES ASSUME Inv, Typed', [Next]_vars
               PROVE  Apart' /\ (\A q \in Op : StageHolds(q)') /\ Whole'
    BY DEF Inv
  <2>1. ASSUME NEW o \in Op, Step(o)
        PROVE  Apart' /\ (\A q \in Op : StageHolds(q)') /\ Whole'
    <3>1. Effect(o)
      BY <2>1, EffectOfStep DEF Inv
    <3>2. \A q \in Op \ {o} : StageHolds(q)'
      BY <3>1, OthersHold
    <3>3. StageHolds(o)'
      BY <2>1, <3>1, OwnHolds
    <3> QED
      BY <3>1, <3>2, <3>3, StepKeepsApart, StepKeepsWhole
  <2>2. ASSUME NEW o \in Op, NEW c \in {"seed", "reset", "verify"},
               NEW p \in Profile \cup {Typo}, Start(o, c, p)
        PROVE  Apart' /\ (\A q \in Op : StageHolds(q)') /\ Whole'
    BY <2>2, StartKeepsInv
  <2>3. ASSUME NEW o \in Op, NEW c \in {"seed", "reset", "verify"}, RejectProfile(o, c)
        PROVE  Apart' /\ (\A q \in Op : StageHolds(q)') /\ Whole'
    <3>1. /\ pc'[o] \in Ended /\ UNCHANGED stores /\ pc[o] \notin Committed
          /\ \A q \in Op \ {o} : pc'[q] = pc[q] /\ job'[q] = job[q]
      BY <2>3 DEF RejectProfile, Inv, Typed, TypeOK, Ended, Busy, Committed
    <3>2. disturbed' = (disturbed \/ pc[o] \in Committed)
      BY <2>3, <3>1 DEF RejectProfile, Inv, Typed, TypeOK
    <3> QED
      BY <3>1, <3>2, EndKeepsInv
  <2>4. ASSUME NEW o \in Op, Die(o)
        PROVE  Apart' /\ (\A q \in Op : StageHolds(q)') /\ Whole'
    <3>1. "dead" \in Ended /\ End(o, "dead")
      BY <2>4 DEF Die, Ended
    <3>2. /\ pc'[o] \in Ended
          /\ \A q \in Op \ {o} : pc'[q] = pc[q] /\ job'[q] = job[q]
      BY <3>1, EndingEffect DEF Inv
    <3> QED
      BY <2>4, <3>2, EndKeepsInv DEF Die
  <2>5. ASSUME UNCHANGED <<rows, object, created, index, pc, job, disturbed>>
        PROVE  Apart' /\ (\A q \in Op : StageHolds(q)') /\ Whole'
    BY <2>5 DEF Inv, Apart, StageHolds, Whole, Complete, Empty, LoadedBut, Quiet, Busy,
       Profiled, Clash
  <2> QED
    BY <2>1, <2>2, <2>3, <2>4, <2>5
       DEF Next, AddRuntimeRows, AddKey, Ingest, vars, stores, vectors
<1> QED
  BY <1>1, <1>2, TypedInvariant, PTL DEF Spec

-----------------------------------------------------------------------------
(* What follows for the environment.                                       *)

\* FR-014b: an environment with a manifest holds its dataset in every store,
\* and nothing of another, unless a run is still at it, has died after its rows
\* were committed, or a reset overlapped another run.
THEOREM WholeOtherwise == Spec => []WholeUnlessDisturbed
<1>1. Inv => WholeUnlessDisturbed
  <2> SUFFICES ASSUME Inv, rows # None, ~disturbed
               PROVE  /\ \A f \in File : object[f] # None => f \in Files[rows] /\ object[f] = rows
                      /\ Complete(rows) \/ \E o \in Op : pc[o] \in Committed /\ Profiled(o) = rows
    BY DEF WholeUnlessDisturbed
  <2>1. Complete(rows) \/ \E o \in Op : pc[o] \in Committed /\ Profiled(o) = rows
    BY DEF Inv, Whole
  <2>2. CASE Complete(rows)
    BY <2>1, <2>2 DEF Complete
  <2>3. ASSUME NEW o \in Op, pc[o] \in Committed, Profiled(o) = rows
        PROVE  \A f \in File : object[f] # None => f \in Files[rows] /\ object[f] = rows
    <3>1. Busy(o) /\ Quiet(o)
      BY <2>3, StagesApart DEF Busy, Quiet
    <3>2. LoadedBut(rows, job[o].left) \/ LoadedBut(rows, {})
      BY <2>3, <3>1 DEF Inv, StageHolds, Committed
    <3> QED
      BY <3>2 DEF LoadedBut
  <2> QED
    BY <2>1, <2>2, <2>3
<1> QED
  BY <1>1, InvInvariant, PTL

\* What is left of before while a reset runs alone: of the tables, and of the
\* two kinds of keys.  A seed is asked for none.
Early == {"truncate", "list", "remove", "drop", "flush_cache"}
Late == {"config", "load"} \cup Committed

StaleRight(o) ==
    Busy(o) /\ job[o].alone =>
        /\ job[o].cmd = "seed" => stale = {}
        /\ job[o].cmd = "reset" => /\ pc[o] # "truncate" => "runtime" \notin stale
                                   /\ pc[o] \notin Early => "cache" \notin stale
                                   /\ pc[o] \in Late => "bound" \notin stale

\* Running alone, a verify goes on with the profile it read.
MarkerRight(o) ==
    Busy(o) /\ job[o].alone /\ pc[o] = "audit" => rows = Profiled(o) /\ rows # None

AloneHolds == \A o \in Op : StaleRight(o) /\ MarkerRight(o)

\* The order of the stages, as far as the two of these need it.
Passes(o) ==
    /\ stale' \subseteq stale
    /\ pc[o] = "truncate" => "runtime" \notin stale'
    /\ pc[o] = "flush_cache" => "cache" \notin stale'
    /\ pc[o] = "flush_bounds" => "bound" \notin stale'
    /\ pc'[o] # "truncate"
    /\ pc'[o] \notin Early /\ job[o].cmd = "reset" => pc[o] \notin Early \ {"flush_cache"}
    /\ pc'[o] \in Late /\ job[o].cmd = "reset" => pc[o] \in Late \cup {"flush_bounds"}
    /\ pc'[o] = "audit" =>
         rows' = rows /\ rows # None /\ job'[o].profile = rows

LEMMA StepPasses ==
  ASSUME Typed, NEW o \in Op, Step(o), pc'[o] \notin Ended
  PROVE  Passes(o)
<1> USE DEF stores, vectors, Passes, Early, Late, Committed, Stages
<1>0. /\ job[o].left \subseteq File \cup Collection /\ created \subseteq Collection
      /\ {} \in SUBSET (File \cup Collection) /\ Collection \in SUBSET (File \cup Collection)
      /\ \A f : job[o].left \ {f} \in SUBSET (File \cup Collection)
      /\ \A outcome \in Ended : ~End(o, outcome)
  BY EndingEffect DEF Typed, TypeOK, Jobs
<1>1. CASE InspectRows(o) \/ InspectObjects(o) \/ InspectPoints(o) \/ InspectKeys(o)
  BY <1>0, <1>1, GoingEffect
     DEF InspectRows, InspectObjects, InspectPoints, InspectKeys, Inspect, Ended
<1>2. CASE LoadRelational(o)
  <2>1. Files[Profiled(o)] \in SUBSET (File \cup Collection)
    BY <1>2, SeedAssumption DEF LoadRelational, Typed, TypeOK
  <2>2. pc'[o] = "upload" /\ pc[o] = "load" /\ UNCHANGED stale
    BY <1>2, <2>1, GoingEffect DEF LoadRelational
  <2> QED
    BY <2>2
<1>3. ASSUME NEW f \in File, LoadObject(o, f) \/ RemoveObject(o, f)
      PROVE  Passes(o)
  BY <1>0, <1>3, GoingEffect DEF LoadObject, RemoveObject
<1>4. ASSUME NEW c \in Collection, CreateCollection(o, c)
      PROVE  Passes(o)
  BY <1>0, <1>4, GoingEffect DEF CreateCollection
<1>5. ASSUME NEW c \in Collection, NEW field \in Field, EnsureIndex(o, c, field)
      PROVE  Passes(o)
  BY <1>0, <1>5, GoingEffect DEF EnsureIndex
<1>6. ASSUME NEW c \in Collection, CheckIndexes(o, c)
      PROVE  Passes(o)
  BY <1>0, <1>6, GoingEffect DEF CheckIndexes, Ended
<1>7. ASSUME NEW c \in Collection, DropCollection(o, c)
      PROVE  Passes(o)
  BY <1>0, <1>7, GoingEffect DEF DropCollection
<1>8. CASE LoadedObjects(o)
  BY <1>0, <1>8, GoingEffect DEF LoadedObjects
<1>9. CASE Truncate(o)
  BY <1>0, <1>9, GoingEffect DEF Truncate
<1>10. CASE ListObjects(o)
  <2>1. {f \in File : object[f] # None} \in SUBSET (File \cup Collection)
    OBVIOUS
  <2> QED
    BY <1>0, <1>10, <2>1, GoingEffect DEF ListObjects
<1>11. CASE ListCollections(o) \/ DroppedCollections(o)
  BY <1>0, <1>11, GoingEffect DEF ListCollections, DroppedCollections
<1>12. CASE FlushCache(o) \/ FlushBounds(o)
  BY <1>0, <1>12, GoingEffect DEF FlushCache, FlushBounds, Flush
<1>13. CASE Configure(o)
  BY <1>0, <1>13, GoingEffect DEF Configure, Ended
<1>14. CASE ReadMarker(o)
  <2>1. /\ TypeOK /\ rows \in Profile /\ UNCHANGED <<rows, stale>> /\ pc[o] = "look"
        /\ pc' = [pc EXCEPT ![o] = "audit"] /\ job' = [job EXCEPT ![o].profile = rows]
        /\ job[o].cmd = "verify" /\ rows # None
    BY <1>0, <1>14 DEF ReadMarker, Typed, TypeOK, Ended
  <2>2. pc'[o] = "audit" /\ job'[o].profile = rows
    BY <2>1, Marking
  <2> QED
    BY <2>1, <2>2
<1>15. CASE CompareFingerprints(o)
  BY <1>0, <1>15 DEF CompareFingerprints, Ended
<1> QED
  BY <1>1, <1>2, <1>3, <1>4, <1>5, <1>6, <1>7, <1>8, <1>9, <1>10, <1>11, <1>12, <1>13, <1>14,
     <1>15 DEF Step

LEMMA AloneInvariant == Spec => []AloneHolds
<1>1. Init => AloneHolds
  BY DEF Init, AloneHolds, StaleRight, MarkerRight, Busy, Ended
<1>2. Inv /\ AloneHolds /\ [Next]_vars => AloneHolds'
  <2> SUFFICES ASSUME Inv, AloneHolds, [Next]_vars,
                      NEW q \in Op, Busy(q)', job'[q].alone
               PROVE  StaleRight(q)' /\ MarkerRight(q)'
    BY DEF AloneHolds, StaleRight, MarkerRight
  <2>1. ASSUME NEW o \in Op, Step(o)
        PROVE  StaleRight(q)' /\ MarkerRight(q)'
    <3>1. Effect(o)
      BY <2>1, EffectOfStep DEF Inv
    <3>2. q = o
      BY <3>1 DEF Effect, Inv, Apart, Busy
    <3>3. /\ Busy(o) /\ pc'[o] \notin Ended /\ job[o].alone
          /\ job'[o].cmd = job[o].cmd
      BY <3>1, <3>2 DEF Effect, Busy
    <3>4. Passes(o)
      BY <2>1, <3>3, StepPasses DEF Inv
    <3>5. StaleRight(o)
      BY DEF AloneHolds
    <3>6. StaleRight(o)'
      BY <3>3, <3>4, <3>5 DEF Passes, StaleRight, Early, Late, Committed
    <3>7. MarkerRight(o)'
      BY <3>4 DEF Passes, MarkerRight, Profiled
    <3> QED
      BY <3>2, <3>6, <3>7
  <2>2. ASSUME NEW o \in Op, NEW c \in {"seed", "reset", "verify"},
               NEW p \in Profile \cup {Typo}, Start(o, c, p)
        PROVE  StaleRight(q)' /\ MarkerRight(q)'
    <3>1. /\ pc'[o] = (IF c = "reset" THEN "truncate" ELSE "look") /\ job'[o].cmd = c
          /\ \A r \in Op \ {o} : ~job'[r].alone
      BY <2>2, Starting DEF Inv, Typed
    <3>2. q = o
      BY <3>1
    <3>3. c # "reset" => stale' = {}
      BY <2>2 DEF Start
    <3> QED
      BY <3>1, <3>2, <3>3 DEF StaleRight, MarkerRight, Early, Late, Committed
  <2>3. ASSUME UNCHANGED rows, stale' \subseteq stale,
               Busy(q), pc'[q] = pc[q], job'[q] = job[q]
        PROVE  StaleRight(q)' /\ MarkerRight(q)'
    BY <2>3 DEF AloneHolds, StaleRight, MarkerRight, Profiled
  <2>4. ASSUME NEW o \in Op, Die(o)
        PROVE  StaleRight(q)' /\ MarkerRight(q)'
    <3>1. /\ pc'[o] \in Ended
          /\ \A r \in Op \ {o} : pc'[r] = pc[r] /\ job'[r] = job[r]
          /\ UNCHANGED rows /\ stale' = {}
      BY <2>4, EndingEffect DEF Die, Inv, Ended, stores
    <3>2. q # o
      BY <3>1 DEF Busy
    <3> QED
      BY <2>3, <3>1, <3>2 DEF Busy
  <2>5. ASSUME NEW o \in Op, NEW c \in {"seed", "reset", "verify"}, RejectProfile(o, c)
        PROVE  StaleRight(q)' /\ MarkerRight(q)'
    <3>1. /\ pc'[o] \in Ended /\ UNCHANGED <<rows, stale, job>>
          /\ \A r \in Op \ {o} : pc'[r] = pc[r]
      BY <2>5 DEF RejectProfile, Inv, Typed, TypeOK, Ended, stores
    <3>2. q # o
      BY <3>1 DEF Busy
    <3> QED
      BY <2>3, <3>1, <3>2 DEF Busy
  <2>6. ASSUME UNCHANGED <<rows, pc, job>>, stale' \subseteq stale
        PROVE  StaleRight(q)' /\ MarkerRight(q)'
    BY <2>3, <2>6 DEF Busy
  <2> QED
    BY <2>1, <2>2, <2>4, <2>5, <2>6
       DEF Next, AddRuntimeRows, AddKey, Ingest, vars, stores, vectors
<1> QED
  BY <1>1, <1>2, InvInvariant, PTL DEF Spec

\* A command reports success at two places.
LEMMA EndsDone ==
  ASSUME Typed, [Next]_vars, NEW o \in Op, Busy(o), pc'[o] = "done"
  PROVE  \/ CompletesIndexes(o) /\ UNCHANGED stores /\ UNCHANGED stale
         \/ job[o].cmd = "verify" /\ pc[o] = "audit"
<1> USE DEF Ended
<1>1. pc[o] # "done"
  BY DEF Busy
<1>2. ASSUME NEW q \in Op, Step(q)
      PROVE  Step(o)
  BY <1>1, <1>2, EffectOfStep DEF Effect
<1>3. ASSUME NEW q \in Op, Die(q)
      PROVE  FALSE
  <2>1. pc' = [pc EXCEPT ![q] = "dead"]
    BY <1>3 DEF Die, End
  <2> QED
    BY <1>1, <2>1 DEF Typed, TypeOK
<1>4. ASSUME NEW q \in Op, NEW c \in {"seed", "reset", "verify"}, RejectProfile(q, c)
      PROVE  FALSE
  BY <1>1, <1>4 DEF RejectProfile, Typed, TypeOK
<1>5. ASSUME NEW q \in Op, NEW c \in {"seed", "reset", "verify"},
             NEW p \in Profile \cup {Typo}, Start(q, c, p)
      PROVE  FALSE
  BY <1>1, <1>5, Starting DEF Typed
<1>6. Step(o)
  BY <1>1, <1>2, <1>3, <1>4, <1>5 DEF Next, AddRuntimeRows, AddKey, Ingest, vars
<1>7. ASSUME NEW next \in Stages, NEW rest, Go(o, next, rest), next # "done"
      PROVE  FALSE
  BY <1>7 DEF Go, Typed, TypeOK
<1>8. ASSUME NEW outcome \in Ended \ {"done"}, End(o, outcome)
      PROVE  FALSE
  BY <1>8 DEF End, Typed, TypeOK
<1>9. ASSUME NEW c \in Collection, CheckIndexes(o, c)
      PROVE  CompletesIndexes(o) /\ UNCHANGED stores /\ UNCHANGED stale
  BY <1>7, <1>9 DEF CheckIndexes, CompletesIndexes, Stages, Committed
<1>10. CASE CompareFingerprints(o)
  <2>1. job[o].cmd \in {"seed", "reset", "verify"} /\ Placed(o) /\ pc[o] = "audit"
    BY <1>10 DEF CompareFingerprints, Typed, TypeOK, Jobs
  <2> QED
    BY <2>1 DEF Placed, Moving, Clearing, Committed
<1>11. CASE InspectRows(o) \/ InspectObjects(o) \/ InspectPoints(o) \/ InspectKeys(o)
  BY <1>7, <1>8, <1>11
     DEF InspectRows, InspectObjects, InspectPoints, InspectKeys, Inspect, Stages
<1>12. CASE LoadRelational(o) \/ LoadedObjects(o)
  BY <1>7, <1>12 DEF LoadRelational, LoadedObjects, Stages, Committed
<1>13. CASE \E f \in File : LoadObject(o, f) \/ RemoveObject(o, f)
  BY <1>7, <1>13 DEF LoadObject, RemoveObject, Stages, Committed
<1>14. CASE \E c \in Collection : CreateCollection(o, c) \/ DropCollection(o, c)
  BY <1>7, <1>14 DEF CreateCollection, DropCollection, Stages, Committed
<1>15. CASE \E c \in Collection, field \in Field : EnsureIndex(o, c, field)
  BY <1>7, <1>15 DEF EnsureIndex, Stages, Committed
<1>16. CASE Truncate(o) \/ ListObjects(o) \/ ListCollections(o) \/ DroppedCollections(o)
  BY <1>7, <1>16 DEF Truncate, ListObjects, ListCollections, DroppedCollections, Stages
<1>17. CASE FlushCache(o) \/ FlushBounds(o)
  BY <1>7, <1>17 DEF FlushCache, FlushBounds, Flush, Stages
<1>18. CASE Configure(o)
  BY <1>7, <1>8, <1>18 DEF Configure, Stages
<1>19. CASE ReadMarker(o)
  BY <1>8, <1>19 DEF ReadMarker, Typed, TypeOK
<1> QED
  BY <1>6, <1>9, <1>10, <1>11, <1>12, <1>13, <1>14, <1>15, <1>16, <1>17, <1>18, <1>19 DEF Step

\* A seed or reset that reports success and had no other run beside it leaves
\* the whole dataset, from whatever earlier runs left behind, and a reset
\* nothing of before.
THEOREM SuccessesAreComplete == Spec => SuccessIsComplete
<1>1. Inv /\ AloneHolds /\ [Next]_vars =>
        [\A o \in Op : Succeeds(o, {"seed", "reset"}) =>
            /\ \E p \in Profile : p = Profiled(o) /\ Complete(p)'
            /\ stale' = {}]_vars
  <2> SUFFICES ASSUME Inv, AloneHolds, [Next]_vars,
                      NEW o \in Op, Succeeds(o, {"seed", "reset"})
               PROVE  /\ \E p \in Profile : p = Profiled(o) /\ Complete(p)'
                      /\ stale' = {}
    OBVIOUS
  <2>1. /\ Busy(o) /\ job[o].alone /\ job[o].cmd \in {"seed", "reset"}
        /\ pc'[o] = "done" /\ Typed
    BY DEF Succeeds, Inv
  <2>2. CompletesIndexes(o) /\ UNCHANGED stores /\ UNCHANGED stale
    BY <2>1, EndsDone
  <2>3. Complete(Profiled(o))
    BY <2>1, <2>2, CompleteAtTheEnd DEF Quiet, Inv
  <2>4. Profiled(o) \in Profile
    BY <2>1, <2>2 DEF CompletesIndexes, Typed, Placed, Committed
  <2>5. Complete(Profiled(o)) => \A p : p = Profiled(o) => Complete(p)'
    BY <2>2 DEF Complete, stores, vectors
  <2>6. stale = {}
    <3>1. StaleRight(o) /\ pc[o] = "index"
      BY <2>2 DEF AloneHolds, CompletesIndexes
    <3>2. stale \subseteq {"runtime", "cache", "bound"}
      BY <2>1 DEF Typed, TypeOK, Extras
    <3> QED
      BY <2>1, <3>1, <3>2 DEF StaleRight, Early, Late, Committed
  <2> QED
    BY <2>2, <2>3, <2>4, <2>5, <2>6
<1> QED
  BY <1>1, InvInvariant, AloneInvariant, PTL DEF Spec, SuccessIsComplete

\* What verify passes, with nothing beside it, is complete, unless a run died
\* after its commit or a reset was overlapped.
THEOREM VerifyVouchesAlways == Spec => VerifyVouches
<1>1. Inv /\ AloneHolds /\ [Next]_vars =>
        [\A o \in Op : Succeeds(o, {"verify"}) /\ ~disturbed =>
            \E p \in Profile : p = Profiled(o) /\ Complete(p)]_vars
  <2> SUFFICES ASSUME Inv, AloneHolds, [Next]_vars,
                      NEW o \in Op, Succeeds(o, {"verify"}), ~disturbed
               PROVE  \E p \in Profile : p = Profiled(o) /\ Complete(p)
    OBVIOUS
  <2>1. /\ Busy(o) /\ job[o].alone /\ job[o].cmd = "verify" /\ pc'[o] = "done"
        /\ Typed /\ Placed(o)
    BY DEF Succeeds, Inv, Typed
  <2>2. pc[o] = "audit"
    BY <2>1, EndsDone DEF Placed, CompletesIndexes
  <2>3. rows = Profiled(o) /\ rows # None /\ rows \in Profile
    BY <2>1, <2>2 DEF AloneHolds, MarkerRight, Typed, TypeOK
  <2>4. ASSUME NEW q \in Op, pc[q] \in Committed
        PROVE  FALSE
    <3>1. Busy(q) /\ q # o
      BY <2>2, <2>4, StagesApart DEF Busy
    <3> QED
      BY <2>1, <3>1 DEF Inv, Apart
  <2>5. Complete(rows)
    BY <2>3, <2>4 DEF Inv, Whole
  <2> QED
    BY <2>3, <2>5
<1> QED
  BY <1>1, InvInvariant, AloneInvariant, PTL DEF Spec, VerifyVouches

-----------------------------------------------------------------------------
(* The scenarios: that those asked for find their places, and generation   *)
(* ends, follows from what the companies weigh and where personas stand.   *)

Portion(d) == (total * Weights[company][d]) \div 100

\* While departments are given members in turn, no more are missing than there
\* are departments whose turn is still to come; and nothing is taken back where
\* the floor was asked for.
AllocationInv ==
    /\ stage = "allocate" => turn = 1
    /\ stage \notin {"allocate", "failed"} => \A d \in Range(keys) :
        /\ counts[d] <= AtLeastOne(Portion(d)) + 1
        /\ total >= Floor => counts[d] >= Portion(d)
    /\ stage = "balance" /\ Allocated < total =>
        /\ total - Allocated <= Len(keys) - turn + 1
        /\ \A i \in turn .. Len(keys) : counts[keys[i]] <= AtLeastOne(Portion(keys[i]))
    /\ stage = "balance" /\ total >= Floor => Allocated <= total

LEMMA Listed ==
  ASSUME StaffTyped
  PROVE  /\ Len(keys) \in Nat /\ Len(keys) > 0 /\ DOMAIN keys = 1 .. Len(keys)
         /\ \A i \in 1 .. Len(keys) : keys[i] \in Range(keys)
         /\ \A i, j \in 1 .. Len(keys) : keys[i] = keys[j] => i = j
         /\ IsFiniteSet(Range(keys)) /\ Cardinality(Range(keys)) \in Nat
         /\ Cardinality(Range(keys)) <= Len(keys)
<1>1. keys \in Seq(STRING) /\ Executive \in Range(keys)
  BY Placement
<1>2. IsInjective(keys)
  BY DepartmentsAssumption DEF StaffTyped, keys
<1> PICK k : k = keys
  OBVIOUS
<1>3. k \in Seq(STRING) /\ Executive \in Range(k) /\ IsInjective(k)
  BY <1>1, <1>2
<1>4. DOMAIN k = 1 .. Len(k) /\ Len(k) \in Nat
  BY <1>3, Row
<1>5. Len(k) > 0
  BY <1>3, <1>4 DEF Range
<1>6. \A i \in 1 .. Len(k) : k[i] \in Range(k)
  BY <1>4 DEF Range
<1>7. \A i, j \in 1 .. Len(k) : k[i] = k[j] => i = j
  BY <1>3, <1>4 DEF IsInjective
<1>8. IsFiniteSet(1 .. Len(k)) /\ Cardinality(1 .. Len(k)) = Len(k)
  <2> PICK n : n = Len(k)
    OBVIOUS
  <2>1. n \in Int /\ ~ (1 > n) /\ 1 \in Int /\ n - 1 + 1 = n
    BY <1>4, <1>5
  <2>2. IsFiniteSet(1 .. n) /\ Cardinality(1 .. n) = IF 1 > n THEN 0 ELSE n - 1 + 1
    BY <2>1, FS_Interval
  <2> QED  BY <2>1, <2>2
<1>9. k \in Surjection(1 .. Len(k), Range(k))
  BY <1>3, <1>4 DEF Surjection, Range
<1>10. IsFiniteSet(Range(k)) /\ Cardinality(Range(k)) <= Cardinality(1 .. Len(k))
  BY <1>8, <1>9, FS_Surjection
<1> QED  BY <1>4, <1>5, <1>6, <1>7, <1>8, <1>10, FS_CardinalityType

\* What the weights say of the company in hand.
LEMMA Portions ==
  ASSUME StaffTyped
  PROVE  /\ \A d \in Range(keys) :
            /\ Portion(d) \in Nat /\ Portion(d) * 100 <= total * Weights[company][d]
            /\ total * Weights[company][d] < (Portion(d) + 1) * 100
            /\ Portion(d) <= 64
            /\ total >= Floor => Portion(d) >= 1
            /\ total >= Floor /\ d = "Engineering" => Portion(d) >= 4
         /\ SumFunctionOnSet(Weights[company], Range(keys)) = 100
         /\ total >= Floor => total >= Len(keys)
<1>1. /\ company \in Company /\ total \in Headcounts[company] /\ total \in Nat
      /\ \A d \in Range(keys) : Weights[company][d] \in 0 .. 100
  BY Placement DEF StaffTyped
<1>2. /\ Floor \in Nat /\ SumFunctionOnSet(Weights[company], Range(keys)) = 100
      /\ Floor >= Len(keys)
      /\ \A d \in Range(keys) :
            /\ Floor * Weights[company][d] >= 100
            /\ d = "Engineering" => Floor * Weights[company][d] >= 400
  BY <1>1, WeightsAssumption DEF keys
<1>3. Len(keys) \in Nat
  BY Listed
<1>4. total >= Floor => total >= Len(keys)
  BY <1>1, <1>2, <1>3
<1>5. ASSUME NEW d \in Range(keys)
      PROVE  /\ Portion(d) \in Nat /\ Portion(d) * 100 <= total * Weights[company][d]
             /\ total * Weights[company][d] < (Portion(d) + 1) * 100
             /\ Portion(d) <= 64
             /\ total >= Floor => Portion(d) >= 1
             /\ total >= Floor /\ d = "Engineering" => Portion(d) >= 4
  <2> PICK w \in Nat : w = Weights[company][d]
    BY <1>1
  <2> PICK x \in Nat : x = total * w
    BY <1>1
  <2>1. x \div 100 \in Nat /\ (x \div 100) * 100 <= x /\ x < (x \div 100 + 1) * 100
    BY Divided
  <2>2. x \div 100 <= 64
    BY <1>1, SpanAssumption DEF keys
  <2>3. total >= Floor => x >= 100 /\ (d = "Engineering" => x >= 400)
    <3> SUFFICES ASSUME total >= Floor
                 PROVE  x >= 100 /\ (d = "Engineering" => x >= 400)
      OBVIOUS
    <3>1. Floor * w >= 100 /\ (d = "Engineering" => Floor * w >= 400)
      <4>1. Floor * Weights[company][d] >= 100 /\ (d = "Engineering" => Floor * Weights[company][d] >= 400)
        BY <1>2
      <4> QED  BY <4>1, Zenon
    <3>2. w # 0
      <4>1. Floor * 0 = 0
        BY <1>2
      <4> QED  BY <3>1, <4>1
    <3>3. Floor * w <= total * w
      BY <1>1, <1>2, <3>2, Multiples
    <3>4. Floor * w \in Int
      BY <1>2
    <3> QED  BY <3>1, <3>3, <3>4
  <2>4. Portion(d) = x \div 100
    BY DEF Portion
  <2>5. total * Weights[company][d] = x
    OBVIOUS
  <2> QED  BY <2>1, <2>2, <2>3, <2>4, <2>5
<1> QED  BY <1>2, <1>4, <1>5

LEMMA DivideStep ==
  ASSUME StaffInv, AllocationInv, Divide
  PROVE  AllocationInv'
<1> DEFINE S == Range(keys)  w == Weights[company]
<1>1. /\ stage = "allocate" /\ stage' = "balance" /\ turn' = 1 /\ turn = 1
      /\ company' = company /\ total' = total
      /\ counts' = [d \in S |-> AtLeastOne(Portion(d))]
  BY DEF Divide, request, Portion, AllocationInv
<1>2. keys' = keys /\ \A d : Portion(d)' = Portion(d)
  BY <1>1 DEF keys, Portion
<1>3. /\ StaffTyped /\ total \in Nat /\ \A d \in S : w[d] \in 0 .. 100
  BY Placement DEF StaffInv
<1>4. /\ \A d \in S :
            /\ Portion(d) \in Nat /\ Portion(d) * 100 <= total * w[d]
            /\ total * w[d] < (Portion(d) + 1) * 100
            /\ total >= Floor => Portion(d) >= 1
      /\ SumFunctionOnSet(w, S) = 100
  BY <1>3, Portions
<1>5. /\ IsFiniteSet(S) /\ Cardinality(S) \in Nat /\ Cardinality(S) <= Len(keys)
      /\ Len(keys) \in Nat
  BY <1>3, Listed
<1>6. \A d \in S : /\ counts'[d] = AtLeastOne(Portion(d))
                   /\ counts'[d] \in Nat /\ counts'[d] >= Portion(d)
                   /\ total >= Floor => counts'[d] = Portion(d)
  BY <1>1, <1>4 DEF AtLeastOne
<1>7. Allocated' = SumFunctionOnSet(counts', S) /\ SumFunctionOnSet(counts', S) \in Nat
  <2>1. DOMAIN counts' = S
    BY <1>1
  <2>2. SumFunctionOnSet(counts', S) \in Nat
    BY <1>5, <1>6, SumsNest
  <2> QED  BY <2>1, <2>2 DEF Allocated, SumFunction
<1> HIDE DEF S, w
<1>8. total - Allocated' <= Len(keys)
  <2> DEFINE h == [d \in S |-> counts'[d] + 1]
  <2>1. \A d \in S : counts'[d] \in Nat /\ h[d] = counts'[d] + 1 /\ h[d] \in Nat /\ w[d] \in Nat
    BY <1>3, <1>6
  <2>2. \A d \in S : w[d] * total <= 100 * h[d]
    <3> SUFFICES ASSUME NEW d \in S
                 PROVE  w[d] * total <= 100 * h[d]
      OBVIOUS
    <3> PICK x \in Nat, p \in Nat, c \in Nat : x = w[d] /\ p = Portion(d) /\ c = counts'[d]
      <4>1. w[d] \in 0 .. 100 /\ Portion(d) \in Nat /\ counts'[d] \in Nat
        BY <1>3, <1>4, <1>6, Zenon
      <4>2. w[d] \in Nat
        BY <4>1
      <4> QED  BY <4>1, <4>2, Zenon
    <3> PICK a \in Nat : a = total * x /\ a = x * total
      BY <1>3
    <3>1. w[d] * total = a
      OBVIOUS
    <3>2. a < (p + 1) * 100 /\ c >= p
      BY <1>4, <1>6
    <3> QED  BY <2>1, <3>1, <3>2
  <2> HIDE DEF h
  <2>3. SumFunctionOnSet(w, S) * total <= 100 * SumFunctionOnSet(h, S)
    BY <1>3, <1>5, <2>1, <2>2, SumsOfShares
  <2>4. SumFunctionOnSet(h, S) = SumFunctionOnSet(counts', S) + Cardinality(S)
    <3> PICK c : c = counts'
      OBVIOUS
    <3> QED  BY <1>5, <2>1, SumsSpread
  <2> PICK a \in Nat, b \in Nat : a = SumFunctionOnSet(counts', S) /\ b = Cardinality(S)
    BY <1>5, <1>7
  <2>5. 100 * total <= 100 * (a + b)
    BY <1>4, <2>3, <2>4
  <2> QED  BY <1>3, <1>5, <1>7, <2>5
<1>9. total >= Floor => Allocated' <= total
  <2> SUFFICES ASSUME total >= Floor
               PROVE  Allocated' <= total
    OBVIOUS
  <2> PICK c : c = counts'
    OBVIOUS
  <2>1. \A d \in S : c[d] \in Nat /\ w[d] \in Nat /\ c[d] * 100 <= total * w[d]
    BY <1>3, <1>4, <1>6
  <2>2. SumFunctionOnSet(c, S) * 100 <= total * SumFunctionOnSet(w, S)
    BY <1>3, <1>5, <2>1, SumsOfShares
  <2> PICK a \in Nat : a = SumFunctionOnSet(c, S)
    BY <1>7
  <2>3. a * 100 <= total * 100
    BY <1>4, <2>2
  <2> QED  BY <1>3, <1>7, <2>3
<1>10. \A d \in S : AtLeastOne(Portion(d)) \in Nat /\ Portion(d) \in Nat
  BY <1>4 DEF AtLeastOne
<1>11. \A d \in S : /\ counts'[d] <= AtLeastOne(Portion(d)) + 1
                    /\ total >= Floor => counts'[d] >= Portion(d)
  BY <1>6, <1>10
<1>12. \A i \in 1 .. Len(keys) : counts'[keys[i]] <= AtLeastOne(Portion(keys[i]))
  <2>1. \A i \in 1 .. Len(keys) : keys[i] \in S
    BY <1>3, Listed DEF S
  <2> QED  BY <1>6, <1>10, <2>1
<1>13. AtLeastOne(1)' = AtLeastOne(1) /\ Len(keys) - turn' + 1 = Len(keys)
  BY <1>1, <1>5
<1> QED
  BY <1>1, <1>2, <1>8, <1>9, <1>11, <1>12, <1>13 DEF AllocationInv, S

LEMMA Remains ==
  ASSUME NEW n \in Nat \ {0}, NEW x \in Nat, x < n
  PROVE  x % n = x
  OBVIOUS

LEMMA BalanceStep ==
  ASSUME StaffInv, AllocationInv, Balance
  PROVE  AllocationInv'
<1> DEFINE S == Range(keys)  d == keys[turn]
<1>1. /\ stage = "balance" /\ stage' = "balance" /\ Allocated # total
      /\ company' = company /\ total' = total /\ turn' = (turn % Len(keys)) + 1
      /\ counts' = IF Allocated < total THEN [counts EXCEPT ![d] = @ + 1]
                   ELSE [counts EXCEPT ![d] = AtLeastOne(@ - 1)]
  BY DEF Balance, request, NextTurn
<1>2. keys' = keys /\ \A e : Portion(e)' = Portion(e)
  BY <1>1 DEF keys, Portion
<1>3. /\ StaffTyped /\ total \in Nat /\ turn \in 1 .. Len(keys) /\ counts \in [S -> 1 .. total]
  BY <1>1, Placement DEF StaffInv, StaffTyped
<1>4. \A e \in S : Portion(e) \in Nat /\ AtLeastOne(Portion(e)) \in Nat
  BY <1>3, Portions DEF AtLeastOne
<1>5. /\ IsFiniteSet(S) /\ Len(keys) \in Nat /\ Len(keys) > 0
      /\ \A i \in 1 .. Len(keys) : keys[i] \in S
      /\ \A i, j \in 1 .. Len(keys) : keys[i] = keys[j] => i = j
  BY <1>3, Listed
<1>6. /\ \A e \in S : /\ counts[e] <= AtLeastOne(Portion(e)) + 1
                      /\ total >= Floor => counts[e] >= Portion(e)
      /\ Allocated < total =>
            /\ total - Allocated <= Len(keys) - turn + 1
            /\ \A i \in turn .. Len(keys) : counts[keys[i]] <= AtLeastOne(Portion(keys[i]))
      /\ total >= Floor => Allocated <= total
  BY <1>1 DEF AllocationInv
<1>7. d \in S /\ \A e \in S : counts[e] \in Nat /\ counts[e] >= 1
  BY <1>3, <1>5
<1>8. Allocated = SumFunctionOnSet(counts, S) /\ Allocated \in Nat
  <2>1. SumFunctionOnSet(counts, S) \in Nat
    BY <1>5, <1>7, SumsNest
  <2> QED  BY <1>3, <2>1 DEF Allocated, SumFunction
<1>9. DOMAIN counts' = S /\ Allocated' = SumFunctionOnSet(counts', S)
  <2>1. DOMAIN counts' = S
    BY <1>1, <1>3
  <2> QED  BY <2>1 DEF Allocated, SumFunction
<1> HIDE DEF S
<1>10. \A i \in 1 .. Len(keys) : i # turn => keys[i] # d
  BY <1>3, <1>5
<1> HIDE DEF d
<1>11. CASE Allocated < total
  <2>1. /\ counts'[d] = counts[d] + 1 /\ \A e \in S : e # d => counts'[e] = counts[e]
    BY <1>1, <1>3, <1>7, <1>11
  <2>2. Allocated' = Allocated + 1
    <3> PICK c : c = counts'
      OBVIOUS
    <3>1. c[d] = counts[d] + 1 /\ \A e \in S \ {d} : c[e] = counts[e]
      BY <2>1
    <3>2. SumFunctionOnSet(c, S) = SumFunctionOnSet(counts, S) + 1
      BY <1>5, <1>7, <3>1, SumsOneMore
    <3> QED  BY <1>8, <1>9, <3>2
  <2>3. counts[d] <= AtLeastOne(Portion(d))
    BY <1>3, <1>5, <1>6, <1>11 DEF d
  <2>4. \A e \in S : /\ counts'[e] <= AtLeastOne(Portion(e)) + 1
                     /\ total >= Floor => counts'[e] >= Portion(e)
    <3> SUFFICES ASSUME NEW e \in S
                 PROVE  /\ counts'[e] <= AtLeastOne(Portion(e)) + 1
                        /\ total >= Floor => counts'[e] >= Portion(e)
      OBVIOUS
    <3>1. CASE e = d
      BY <1>4, <1>6, <1>7, <2>1, <2>3, <3>1
    <3>2. CASE e # d
      BY <1>6, <2>1, <3>2
    <3> QED  BY <3>1, <3>2
  <2>5. Allocated' < total =>
            /\ total - Allocated' <= Len(keys) - turn' + 1
            /\ \A i \in turn' .. Len(keys) : counts'[keys[i]] <= AtLeastOne(Portion(keys[i]))
    <3> SUFFICES ASSUME Allocated' < total
                 PROVE  /\ total - Allocated' <= Len(keys) - turn' + 1
                        /\ \A i \in turn' .. Len(keys) : counts'[keys[i]] <= AtLeastOne(Portion(keys[i]))
      OBVIOUS
    <3>1. turn < Len(keys) /\ total - Allocated <= Len(keys) - turn + 1
      BY <1>3, <1>5, <1>6, <1>8, <1>11, <2>2
    <3>2. turn' = turn + 1
      <4>1. turn \in Nat /\ Len(keys) \in Nat \ {0} /\ turn < Len(keys)
        BY <1>3, <1>5, <3>1
      <4>2. turn % Len(keys) = turn
        BY <4>1, Remains
      <4> QED  BY <1>1, <4>2
    <3>3. total - Allocated' <= Len(keys) - turn' + 1
      BY <1>3, <1>5, <1>8, <2>2, <3>1, <3>2
    <3>4. ASSUME NEW i \in turn' .. Len(keys)
          PROVE  counts'[keys[i]] <= AtLeastOne(Portion(keys[i]))
      <4>1. i \in turn .. Len(keys) /\ i \in 1 .. Len(keys) /\ i # turn
        BY <1>3, <1>5, <3>2
      <4>2. counts'[keys[i]] = counts[keys[i]]
        BY <1>5, <1>10, <2>1, <4>1
      <4> QED  BY <1>6, <1>11, <4>1, <4>2
    <3> QED  BY <3>3, <3>4
  <2>6. total >= Floor => Allocated' <= total
    BY <1>3, <1>8, <1>11, <2>2
  <2> QED
    BY <1>1, <1>2, <2>4, <2>5, <2>6 DEF AllocationInv, S
<1>12. CASE ~ (Allocated < total)
  <2>1. Allocated > total /\ ~ (total >= Floor)
    BY <1>1, <1>3, <1>6, <1>8, <1>12
  <2>2. /\ counts'[d] = AtLeastOne(counts[d] - 1) /\ \A e \in S : e # d => counts'[e] = counts[e]
    BY <1>1, <1>3, <1>7, <1>12
  <2>3. counts'[d] \in Nat /\ counts'[d] <= counts[d] /\ (counts'[d] = counts[d] \/ counts[d] = counts'[d] + 1)
    BY <1>7, <2>2 DEF AtLeastOne
  <2>4. \A e \in S : counts'[e] <= AtLeastOne(Portion(e)) + 1
    <3> SUFFICES ASSUME NEW e \in S
                 PROVE  counts'[e] <= AtLeastOne(Portion(e)) + 1
      OBVIOUS
    <3>1. CASE e = d
      BY <1>4, <1>6, <1>7, <2>3, <3>1
    <3>2. CASE e # d
      BY <1>6, <2>2, <3>2
    <3> QED  BY <3>1, <3>2
  <2>5. Allocated' >= Allocated - 1 /\ Allocated' \in Nat
    <3> PICK c : c = counts'
      OBVIOUS
    <3>1. \A e \in S : c[e] \in Nat
      BY <1>7, <2>2, <2>3
    <3>2. CASE counts'[d] = counts[d]
      <4>1. \A e \in S : counts[e] \in Nat /\ c[e] = counts[e]
        BY <1>7, <2>2, <3>2
      <4>2. SumFunctionOnSet(counts, S) = SumFunctionOnSet(c, S)
        BY <1>5, <4>1, SumsAgree
      <4> QED  BY <1>8, <1>9, <4>2
    <3>3. CASE counts[d] = counts'[d] + 1
      <4>1. counts[d] = c[d] + 1 /\ \A e \in S \ {d} : counts[e] = c[e]
        BY <2>2, <3>3
      <4>2. SumFunctionOnSet(counts, S) = SumFunctionOnSet(c, S) + 1 /\ SumFunctionOnSet(c, S) \in Nat
        BY <1>5, <1>7, <3>1, <4>1, SumsOneMore
      <4> QED  BY <1>8, <1>9, <4>2
    <3> QED  BY <2>3, <3>2, <3>3
  <2>6. ~ (Allocated' < total)
    BY <1>3, <1>8, <2>1, <2>5
  <2> QED
    BY <1>1, <1>2, <2>1, <2>4, <2>6 DEF AllocationInv, S
<1> QED  BY <1>11, <1>12

LEMMA AllocationKept ==
  ASSUME StaffInv, AllocationInv, [DataNext]_dataVars
  PROVE  AllocationInv'
<1>1. CASE Refuse
  BY <1>1 DEF Refuse, AllocationInv
<1>2. CASE Divide
  BY <1>2, DivideStep
<1>3. CASE Balance
  BY <1>3, BalanceStep
<1>4. ASSUME UNCHANGED <<company, total, counts>>, stage \notin {"allocate", "failed"},
             stage' \notin {"allocate", "balance"}
      PROVE  AllocationInv'
  <2>1. keys' = keys /\ \A d : Portion(d)' = Portion(d)
    BY <1>4 DEF keys, Portion
  <2> QED  BY <1>4, <2>1 DEF AllocationInv
<1>5. CASE HireCEO \/ HireHead \/ HireLead \/ HireMember \/ NextDepartment
           \/ PairPersonas \/ MoveReports \/ NoManagerPersona
  <2>1. /\ UNCHANGED <<company, total, counts>> /\ stage \notin {"allocate", "failed"}
        /\ stage' \notin {"allocate", "balance"}
    BY <1>5 DEF HireCEO, HireHead, HireLead, HireMember, NextDepartment, PairPersonas, MoveReports,
                NoManagerPersona, request
  <2> QED  BY <1>4, <2>1
<1>6. CASE Recording
  <2>1. Recorded
    BY <1>6, AllRecord DEF StaffInv, StaffTyped
  <2> QED  BY <1>4, <2>1 DEF Recorded, RecordStages
<1>7. CASE UNCHANGED dataVars
  <2>1. UNCHANGED <<company, total, counts, stage, turn>>
    BY <1>7 DEF dataVars, staffVars, request
  <2>2. keys' = keys /\ Allocated' = Allocated /\ \A d : Portion(d)' = Portion(d)
    BY <2>1 DEF keys, Portion, Allocated
  <2> QED  BY <2>1, <2>2 DEF AllocationInv
<1> QED
  BY <1>1, <1>2, <1>3, <1>5, <1>6, <1>7 DEF DataNext, Staff, StaffNext, Recording

\* Which documents there are by now: none of the name that is to come.
PaperInv ==
    /\ stage \notin {"policies", "payroll", "comparison", "contracts", "leaders", "news", "vacancies",
                     "about", "recorded", "failed"} => files = {}
    /\ stage = "budgets" => item = 0
    /\ stage = "policies" => /\ item < Len(POLICY_TYPES)
                             /\ \A f \in files : \E i \in 0 .. item - 1 : f[3] = <<"policy", _slugify[At(POLICY_TYPES, i)]>>
    /\ stage = "payroll" => \A f \in files : f[3][1] = "policy"
    /\ stage = "comparison" => \A f \in files : f[3][1] \in {"policy", "payroll"} \/ \E i \in 0 .. item - 1 : f[3] = <<"compare", i>>
    /\ stage = "contracts" => \A f \in files : f[3][1] \in {"policy", "payroll", "compare"}
                                                \/ \E i \in 0 .. item - 1 : f[3] = <<"contract", i>>
    /\ stage \in {"leaders", "news", "vacancies", "about"} => \A f \in files : f[3][1] # "about"

PaperStages == {"policies", "payroll", "comparison", "contracts"}
LateStages == {"leaders", "news", "vacancies", "about"}

Ordinary ==
    \/ Enrol \/ AddProfile \/ RequestLeave \/ Attend \/ Train \/ Review \/ AddProduct \/ AddCustomer
    \/ Allot \/ HandOut \/ Allocate_dates \/ DrawDate \/ StartOrders \/ AddOrder \/ ReportRevenue \/ SetTargets

LEMMA OrdinaryTurns ==
  ASSUME item \in Nat, Ordinary
  PROVE  /\ files' = files /\ stage \notin {"budgets", "recorded", "failed"} \cup PaperStages \cup LateStages
         /\ stage' \notin {"budgets", "recorded", "failed"} \cup PaperStages \cup LateStages
<1>1. CASE AddProfile \/ RequestLeave \/ Attend \/ Train \/ Review \/ AddProduct \/ AddCustomer
  BY <1>1 DEF AddProfile, RequestLeave, Attend, Train, Review, AddProduct, AddCustomer, Loop, written,
              PaperStages, LateStages
<1>2. CASE AddOrder
  BY <1>2, OrderTurn DEF Loop, written, PaperStages, LateStages
<1>3. CASE ReportRevenue
  BY <1>3, RevenueTurn DEF written, PaperStages, LateStages
<1>4. CASE Enrol \/ Allot \/ HandOut \/ Allocate_dates \/ DrawDate \/ StartOrders \/ SetTargets
  BY <1>4 DEF Enrol, Allot, HandOut, Allocate_dates, DrawDate, StartOrders, SetTargets, written,
              PaperStages, LateStages
<1> QED  BY <1>1, <1>2, <1>3, <1>4 DEF Ordinary

\* A document of a name no file has is filed.
LEMMA DocumentFiled ==
  ASSUME NEW name, NEW type, NEW classification, NEW owner, NEW more, NEW loop, item \in Nat,
         add_document(name, type, classification, owner, more, loop),
         \A f \in files : f[3] # name
  PROVE  /\ \A f \in files' : f \in files \/ f[3] = name
         /\ stage' \in {stage, loop.next}
         /\ stage' = loop.next \/ (stage' = stage /\ item' = item + 1 /\ item + 1 < loop.turns)
         /\ stage' # stage => item' = 0
         /\ UNCHANGED <<company, total, users>>
<1> DEFINE key == <<classification, type, name>>
<1>1. key[3] = name
  OBVIOUS
<1>2. key \notin files
  BY <1>1
<1>3. files' = files \cup {key} /\ Loop(stage, loop.turns, loop.next)
  BY <1>2 DEF add_document
<1>4. /\ stage' \in {stage, loop.next}
      /\ stage' = loop.next \/ (stage' = stage /\ item' = item + 1 /\ item + 1 < loop.turns)
      /\ stage' # stage => item' = 0
      /\ UNCHANGED <<company, total, users>>
  BY <1>3, LoopTurns
<1> HIDE DEF key
<1> QED  BY <1>1, <1>3, <1>4

\* No two policies have the same name.
LEMMA PoliciesNamed ==
  /\ Len(POLICY_TYPES) = 8
  /\ \A i, j \in 0 .. 7 : _slugify[At(POLICY_TYPES, i)] = _slugify[At(POLICY_TYPES, j)] => i = j
<1>1. Len(POLICY_TYPES) = 8
  BY DEF POLICY_TYPES
<1> DEFINE name(i) == _slugify[At(POLICY_TYPES, i)]
<1>2. \A i \in 0 .. 7 : At(POLICY_TYPES, i) = POLICY_TYPES[i + 1]
  BY <1>1 DEF At
<1>3. /\ name(0) = "handbook" /\ name(1) = "leave" /\ name(2) = "remote-work" /\ name(3) = "expense"
  BY <1>2 DEF POLICY_TYPES, _slugify
<1>4. /\ name(4) = "security" /\ name(5) = "code-of-conduct" /\ name(6) = "travel" /\ name(7) = "benefits"
  BY <1>2 DEF POLICY_TYPES, _slugify
<1> HIDE DEF name
<1>5. \A i \in 0 .. 7 : i = 0 \/ i = 1 \/ i = 2 \/ i = 3 \/ i = 4 \/ i = 5 \/ i = 6 \/ i = 7
  OBVIOUS
<1>6. \A i, j \in 0 .. 7 : name(i) = name(j) => i = j
  BY <1>3, <1>4, <1>5
<1> QED  BY <1>1, <1>6 DEF name

LEMMA PaperSteps ==
  ASSUME PaperInv, item \in Nat, WritePolicy \/ FilePayroll \/ Compare \/ WriteContract \/ PublishAbout
  PROVE  PaperInv' /\ stage' # "failed"
<1>1. CASE WritePolicy
  <2> DEFINE name == <<"policy", _slugify[At(POLICY_TYPES, item)]>>
             loop == [turns |-> Len(POLICY_TYPES), next |-> "payroll"]
  <2>1. stage = "policies" /\ loop.next = "payroll" /\ loop.turns = Len(POLICY_TYPES) /\ Len(POLICY_TYPES) = 8
    BY <1>1, PoliciesNamed DEF WritePolicy
  <2>2. \E type, classification, owner, more : add_document(name, type, classification, owner, more, loop)
    BY <1>1 DEF WritePolicy
  <2>3. /\ item < 8
        /\ \A f \in files : \E i \in 0 .. item - 1 : f[3] = <<"policy", _slugify[At(POLICY_TYPES, i)]>>
    BY <2>1 DEF PaperInv
  <2>4. \A f \in files : f[3] # name
    <3> SUFFICES ASSUME NEW f \in files, f[3] = name
                 PROVE  FALSE
      OBVIOUS
    <3>1. PICK i \in 0 .. item - 1 : f[3] = <<"policy", _slugify[At(POLICY_TYPES, i)]>>
      BY <2>3
    <3>2. _slugify[At(POLICY_TYPES, i)] = _slugify[At(POLICY_TYPES, item)]
      BY <3>1
    <3>3. i \in 0 .. 7 /\ item \in 0 .. 7 /\ i # item
      BY <2>3
    <3> QED  BY <3>2, <3>3, PoliciesNamed
  <2> HIDE DEF name, loop
  <2>5. /\ \A f \in files' : f \in files \/ f[3] = name
        /\ stage' \in {stage, loop.next}
        /\ stage' = loop.next \/ (stage' = stage /\ item' = item + 1 /\ item + 1 < loop.turns)
    BY <2>2, <2>4, DocumentFiled
  <2>6. name[1] = "policy" /\ \A f \in files : f[3][1] = "policy"
    BY <2>3 DEF name
  <2>7. CASE stage' = "payroll"
    BY <2>5, <2>6, <2>7 DEF PaperInv
  <2>8. CASE stage' = "policies"
    <3>1. item' = item + 1 /\ item' < Len(POLICY_TYPES)
      BY <2>1, <2>5, <2>8
    <3>2. \A f \in files' : \E i \in 0 .. item' - 1 : f[3] = <<"policy", _slugify[At(POLICY_TYPES, i)]>>
      <4> SUFFICES ASSUME NEW f \in files'
                   PROVE  \E i \in 0 .. item' - 1 : f[3] = <<"policy", _slugify[At(POLICY_TYPES, i)]>>
        OBVIOUS
      <4>1. CASE f \in files
        <5>1. PICK i \in 0 .. item - 1 : f[3] = <<"policy", _slugify[At(POLICY_TYPES, i)]>>
          BY <2>3, <4>1
        <5>2. i \in 0 .. item' - 1
          BY <3>1
        <5> QED  BY <5>1, <5>2
      <4>2. CASE f[3] = name
        <5>1. item \in 0 .. item' - 1
          BY <3>1
        <5> QED  BY <4>2, <5>1 DEF name
      <4> QED  BY <2>5, <4>1, <4>2
    <3>3. At(POLICY_TYPES, 0)' = At(POLICY_TYPES, 0)
      OBVIOUS
    <3> QED  BY <2>8, <3>1, <3>2 DEF PaperInv
  <2> QED  BY <2>1, <2>5, <2>7, <2>8
<1>2. CASE FilePayroll
  <2> DEFINE name == <<"payroll", 1>>
             loop == [turns |-> 1, next |-> "comparison"]
  <2>1. stage = "payroll" /\ loop.next = "comparison" /\ loop.turns = 1
    BY <1>2 DEF FilePayroll
  <2>2. \E type, classification, owner, more : add_document(name, type, classification, owner, more, loop)
    BY <1>2 DEF FilePayroll
  <2>3. (\A f \in files : f[3][1] = "policy") /\ name[1] = "payroll"
    BY <2>1 DEF PaperInv
  <2> HIDE DEF name, loop
  <2>4. \A f \in files : f[3] # name
    BY <2>3
  <2>5. /\ \A f \in files' : f \in files \/ f[3] = name
        /\ stage' = loop.next \/ (stage' = stage /\ item' = item + 1 /\ item + 1 < loop.turns)
    BY <2>2, <2>4, DocumentFiled
  <2>6. stage' = "comparison"
    BY <2>1, <2>5
  <2> QED  BY <2>3, <2>5, <2>6 DEF PaperInv
<1>3. CASE Compare
  <2> DEFINE name == <<"compare", item>>
             loop == [turns |-> Pair,
                      next |-> IF Volume[company].contracts > Pair THEN "contracts" ELSE "leaders"]
  <2>1. stage = "comparison" /\ loop.next \in {"contracts", "leaders"}
    BY <1>3 DEF Compare
  <2>2. \E type, classification, owner, more : add_document(name, type, classification, owner, more, loop)
    BY <1>3 DEF Compare
  <2>3. \A f \in files : f[3][1] \in {"policy", "payroll"} \/ \E i \in 0 .. item - 1 : f[3] = <<"compare", i>>
    BY <2>1 DEF PaperInv
  <2>4. \A f \in files : f[3] # name
    <3>1. \A i \in 0 .. item - 1 : <<"compare", i>> # name
      <4>1. \A i \in 0 .. item - 1 : i # item
        OBVIOUS
      <4> QED  BY <4>1
    <3>2. name[1] = "compare"
      OBVIOUS
    <3> HIDE DEF name
    <3> QED  BY <2>3, <3>1, <3>2
  <2> HIDE DEF loop
  <2>5. /\ \A f \in files' : f \in files \/ f[3] = name
        /\ stage' \in {stage, loop.next}
        /\ stage' = loop.next \/ (stage' = stage /\ item' = item + 1 /\ item + 1 < loop.turns)
    BY <2>2, <2>4, DocumentFiled
  <2>6. \A f \in files' : f[3][1] \in {"policy", "payroll", "compare"}
    <3>1. \A i : <<"compare", i>>[1] = "compare"
      OBVIOUS
    <3>2. \A f \in files : f[3][1] \in {"policy", "payroll", "compare"}
      BY <2>3, <3>1
    <3>3. name[1] = "compare"
      OBVIOUS
    <3> HIDE DEF name
    <3> QED  BY <2>5, <3>2, <3>3
  <2>7. CASE stage' = "comparison"
    <3>1. item' = item + 1
      BY <2>1, <2>5, <2>7
    <3>2. \A f \in files' : f[3][1] \in {"policy", "payroll"} \/ \E i \in 0 .. item' - 1 : f[3] = <<"compare", i>>
      <4>1. item \in 0 .. item' - 1 /\ \A i \in 0 .. item - 1 : i \in 0 .. item' - 1
        BY <3>1
      <4> QED  BY <2>3, <2>5, <4>1
    <3> QED  BY <2>7, <3>2 DEF PaperInv
  <2>8. CASE stage' \in {"contracts", "leaders"}
    BY <2>6, <2>8 DEF PaperInv
  <2> QED  BY <2>1, <2>5, <2>7, <2>8
<1>4. CASE WriteContract
  <2> DEFINE name == <<"contract", item>>
             loop == [turns |-> Volume[company].contracts - Pair, next |-> "leaders"]
  <2>1. stage = "contracts" /\ loop.next = "leaders"
    BY <1>4 DEF WriteContract
  <2>2. \E type, classification, owner, more : add_document(name, type, classification, owner, more, loop)
    BY <1>4 DEF WriteContract
  <2>3. \A f \in files : f[3][1] \in {"policy", "payroll", "compare"}
                            \/ \E i \in 0 .. item - 1 : f[3] = <<"contract", i>>
    BY <2>1 DEF PaperInv
  <2>4. \A f \in files : f[3] # name
    <3>1. \A i \in 0 .. item - 1 : <<"contract", i>> # name
      <4>1. \A i \in 0 .. item - 1 : i # item
        OBVIOUS
      <4> QED  BY <4>1
    <3>2. name[1] = "contract"
      OBVIOUS
    <3> HIDE DEF name
    <3> QED  BY <2>3, <3>1, <3>2
  <2> HIDE DEF loop
  <2>5. /\ \A f \in files' : f \in files \/ f[3] = name
        /\ stage' \in {stage, loop.next}
        /\ stage' = loop.next \/ (stage' = stage /\ item' = item + 1 /\ item + 1 < loop.turns)
    BY <2>2, <2>4, DocumentFiled
  <2>6. \A f \in files' : f[3][1] # "about"
    <3>1. \A i : <<"contract", i>>[1] = "contract"
      OBVIOUS
    <3>2. \A f \in files : f[3][1] # "about"
      BY <2>3, <3>1
    <3>3. name[1] = "contract"
      OBVIOUS
    <3> HIDE DEF name
    <3> QED  BY <2>5, <3>2, <3>3
  <2>7. CASE stage' = "contracts"
    <3>1. item' = item + 1
      BY <2>1, <2>5, <2>7
    <3>2. \A f \in files' : f[3][1] \in {"policy", "payroll", "compare"}
                              \/ \E i \in 0 .. item' - 1 : f[3] = <<"contract", i>>
      <4>1. item \in 0 .. item' - 1 /\ \A i \in 0 .. item - 1 : i \in 0 .. item' - 1
        BY <3>1
      <4> QED  BY <2>3, <2>5, <4>1
    <3> QED  BY <2>7, <3>2 DEF PaperInv
  <2>8. CASE stage' = "leaders"
    BY <2>6, <2>8 DEF PaperInv
  <2> QED  BY <2>1, <2>5, <2>7, <2>8
<1>5. CASE PublishAbout
  <2> DEFINE name == <<"about", 1>>
             loop == [turns |-> 1, next |-> "recorded"]
  <2>1. stage = "about" /\ loop.next = "recorded" /\ loop.turns = 1
    BY <1>5 DEF PublishAbout
  <2>2. \E type, classification, owner, more : add_document(name, type, classification, owner, more, loop)
    BY <1>5 DEF PublishAbout
  <2>3. (\A f \in files : f[3][1] # "about") /\ name[1] = "about"
    BY <2>1 DEF PaperInv
  <2> HIDE DEF name, loop
  <2>4. \A f \in files : f[3] # name
    BY <2>3
  <2>5. stage' = loop.next \/ (stage' = stage /\ item' = item + 1 /\ item + 1 < loop.turns)
    BY <2>2, <2>4, DocumentFiled
  <2>6. stage' = "recorded"
    BY <2>1, <2>5
  <2> QED  BY <2>6 DEF PaperInv
<1> QED  BY <1>1, <1>2, <1>3, <1>4, <1>5

LEMMA PaperKept ==
  ASSUME StaffInv, PaperInv, [DataNext]_dataVars
  PROVE  PaperInv' /\ (Recording => stage' # "failed")
<1>0. item \in Nat
  BY DEF StaffInv, StaffTyped
<1>1. CASE Staff
  <2>1. stage' \in StaffStages /\ files' = files /\ stage \in StaffStages \ {"failed"}
    <3>1. stage' \in StaffStages
      BY <1>1, StaffingPlaces DEF Staff
    <3>2. stage \in StaffStages \ {"failed"}
      BY <1>1 DEF Staff, StaffNext, Refuse, Divide, Balance, HireCEO, HireHead, HireLead, HireMember,
                  NextDepartment, PairPersonas, MoveReports, NoManagerPersona, StaffStages
    <3> QED  BY <1>1, <3>1, <3>2 DEF Staff, written
  <2>2. ~ Recording \/ stage = "built"
    <3>1. Recording => Recorded
      BY <1>0, AllRecord
    <3> QED  BY <2>1, <3>1 DEF Recorded, StaffStages, RecordStages
  <2>3. stage # "built"
    BY <1>1 DEF Staff, StaffNext, Refuse, Divide, Balance, HireCEO, HireHead, HireLead, HireMember,
                NextDepartment, PairPersonas, MoveReports, NoManagerPersona
  <2> QED  BY <2>1, <2>2, <2>3 DEF PaperInv, StaffStages
<1>2. CASE Ordinary
  <2>1. /\ files' = files /\ stage \notin {"budgets", "recorded", "failed"} \cup PaperStages \cup LateStages
        /\ stage' \notin {"budgets", "recorded", "failed"} \cup PaperStages \cup LateStages
    BY <1>0, <1>2, OrdinaryTurns
  <2> QED  BY <2>1 DEF PaperInv, PaperStages, LateStages
<1>3. CASE AddExpense
  <2>1. files' = files /\ stage = "expenses" /\ stage' \in {"expenses", "budgets"}
        /\ (stage' = "budgets" => item' = 0)
    BY <1>3 DEF AddExpense, Loop, written
  <2> QED  BY <2>1 DEF PaperInv
<1>4. CASE SetBudgets
  <2>1. files' = files /\ stage = "budgets" /\ stage' = "policies" /\ item' = item
    BY <1>4 DEF SetBudgets, written
  <2>2. files = {} /\ item = 0
    BY <2>1 DEF PaperInv
  <2> QED  BY <2>1, <2>2, PoliciesNamed DEF PaperInv
<1>5. CASE Introduce \/ PublishNews \/ Advertise
  <2>1. files' = files /\ stage \in LateStages /\ stage' \in LateStages
    BY <1>5 DEF Introduce, PublishNews, Advertise, Loop, written, LateStages
  <2> QED  BY <2>1 DEF PaperInv, LateStages
<1>6. CASE WritePolicy \/ FilePayroll \/ Compare \/ WriteContract \/ PublishAbout
  BY <1>0, <1>6, PaperSteps
<1>7. CASE UNCHANGED dataVars
  <2>1. stage' = stage /\ files' = files /\ item' = item
    BY <1>7 DEF dataVars, staffVars, written
  <2>2. PaperInv'
    BY <2>1 DEF PaperInv
  <2>3. Recording => stage' # "failed"
    <3>1. Recording => stage # "failed"
      BY <1>0, AllRecord DEF Recorded, RecordStages
    <3> QED  BY <2>1, <3>1
  <2> QED  BY <2>2, <2>3
<1> QED
  BY <1>1, <1>2, <1>3, <1>4, <1>5, <1>6, <1>7 DEF DataNext, Recording, Ordinary

-----------------------------------------------------------------------------
(* The cast: who plays which persona.                                      *)

Cast(d) == Range(Personas[company][d])
Played(p) == \E u \in DOMAIN users : users[u].persona = p
Alone(p, d) == p = "employee.engineering" /\ counts[d] = 1
Filled(d) == \A p \in Cast(d) : Played(p) \/ Alone(p, d)

\* A persona is played by one at most, in its own department.
WellCast ==
    /\ \A u \in DOMAIN users : users[u].persona # "" => users[u].persona \in Cast(users[u].department)
    /\ \A u, v \in DOMAIN users : users[u].persona = users[v].persona => u = v \/ users[u].persona = ""

\* The personas of the department in hand wait until somebody plays them.
Awaited ==
    /\ \A i \in DOMAIN personas : personas[i] \in Cast(department) /\ ~ Played(personas[i])
    /\ \A p \in Cast(department) : Played(p) \/ p \in Range(personas)
    /\ \A p \in Cast(Executive) : Played(p)
    /\ \A i \in 1 .. turn - 1 : Filled(Alphabetical[company][i])

CastInv ==
    /\ WellCast
    /\ stage \in {"head", "staff"} => Awaited
    /\ stage = "head" => left = counts[department] - (IF department = Executive THEN 1 ELSE 0)
    /\ stage = "staff" /\ personas # << >> =>
        /\ Len(personas) = 1 /\ personas[1] = "employee.engineering"
        /\ left > leads.due \/ counts[department] = 1
    /\ stage \notin {"allocate", "balance", "failed", "head", "staff"} => \A d \in Range(keys) : Filled(d)

\* Who is hired comes last, and nobody else changes.
Joins(n, d, m, manages, p) ==
    /\ DOMAIN users = 1 .. Len(users) /\ Len(users) \in Nat /\ n = Len(users) + 1
    /\ DOMAIN users' = DOMAIN users \cup {n} /\ n \notin DOMAIN users
    /\ Len(users') = n
    /\ \A u \in DOMAIN users : users'[u] = users[u]
    /\ users'[n].department = d /\ users'[n].manager = m /\ users'[n].is_manager = manages
    /\ users'[n].persona = p

LEMMA Joined ==
  ASSUME users \in Seq(Person), NEW d, NEW m, NEW manages, NEW p, NEW r, NEW n, n = Hired,
         Hire(d, m, manages, p, r)
  PROVE  Joins(n, d, m, manages, p)
<1> DEFINE new == [department |-> d, manager |-> m, is_manager |-> manages, persona |-> p, role |-> r]
<1>1. users' = Append(users, new) /\ new.department = d /\ new.manager = m /\ new.persona = p /\ new.is_manager = manages
  BY DEF Hire
<1> HIDE DEF new
<1>2. DOMAIN users = 1 .. Len(users) /\ Len(users) \in Nat /\ n = Len(users) + 1
  BY Row DEF Hired
<1>3. /\ DOMAIN users' = DOMAIN users \cup {n} /\ n \notin DOMAIN users
      /\ Len(users') = n
      /\ users'[n] = new /\ \A u \in DOMAIN users : users'[u] = users[u]
  <2> DEFINE S == Person \cup {new}
  <2>1. users \in Seq(S) /\ new \in S
    OBVIOUS
  <2> HIDE DEF S
  <2>2. /\ Len(users') = Len(users) + 1 /\ DOMAIN users' = 1 .. Len(users) + 1
        /\ users'[Len(users) + 1] = new
        /\ \A i \in 1 .. Len(users) : users'[i] = users[i]
    BY <1>1, <2>1, Longer
  <2> QED  BY <1>2, <2>2
<1> QED  BY <1>1, <1>2, <1>3 DEF Joins

\* What the constants say of the cast.
LEMMA Casting ==
  ASSUME StaffTyped
  PROVE  /\ \A d \in Range(keys) : Cast(d) \subseteq PERSONAS /\ "" \notin Cast(d)
         /\ \A d, e \in Range(keys) : d # e => Cast(d) \cap Cast(e) = {}
         /\ \A d \in Range(keys) :
              IF d = "Engineering"
              THEN Personas[company][d] \in {<< >>, <<"manager.engineering", "employee.engineering">>}
              ELSE Len(Personas[company][d]) <= 1
         /\ Personas[company][Executive] = IF Administrated THEN <<"admin.company">> ELSE << >>
         /\ Cast(Executive) = IF Administrated THEN {"admin.company"} ELSE {}
<1>1. /\ company \in Company /\ Executive \in Range(keys)
      /\ \A d \in Range(keys) : Personas[company][d] \in Seq(PERSONAS)
  BY Placement DEF StaffTyped
<1>2. /\ \A d, e \in Range(keys) : d # e => Cast(d) \cap Cast(e) = {}
      /\ \A d \in Range(keys) :
              IF d = "Engineering"
              THEN Personas[company][d] \in {<< >>, <<"manager.engineering", "employee.engineering">>}
              ELSE Len(Personas[company][d]) <= 1
      /\ Personas[company][Executive] \in {<< >>, <<"admin.company">>}
  BY <1>1, PlacementAssumption DEF keys, Cast, Executive
<1>3. ASSUME NEW d \in Range(keys)
      PROVE  Cast(d) \subseteq PERSONAS /\ "" \notin Cast(d)
  <2> PICK s : s = Personas[company][d]
    OBVIOUS
  <2>1. s \in Seq(PERSONAS)
    BY <1>1
  <2>2. \A i \in DOMAIN s : s[i] \in PERSONAS
    BY <2>1, Row
  <2>3. Range(s) \subseteq PERSONAS
    BY <2>2 DEF Range
  <2>4. "" \notin PERSONAS
    BY DEF PERSONAS
  <2> QED  BY <2>3, <2>4 DEF Cast
<1>4. Personas[company][Executive] = IF Administrated THEN <<"admin.company">> ELSE << >>
  <2> PICK s : s = Personas[company][Executive]
    OBVIOUS
  <2>1. Administrated <=> s # << >> /\ Head(s) = "admin.company"
    BY DEF Administrated
  <2>2. s \in {<< >>, <<"admin.company">>}
    BY <1>2
  <2>3. Head(<<"admin.company">>) = "admin.company" /\ <<"admin.company">> # << >>
    OBVIOUS
  <2> QED  BY <2>1, <2>2, <2>3
<1>5. Cast(Executive) = IF Administrated THEN {"admin.company"} ELSE {}
  <2>1. Range(<<"admin.company">>) = {"admin.company"} /\ Range(<< >>) = {}
    BY DEF Range
  <2> QED  BY <1>4, <2>1 DEF Cast
<1> QED  BY <1>2, <1>3, <1>4, <1>5

\* Somebody plays a persona nobody played before, or none.
LEMMA CastHired ==
  ASSUME StaffTyped, WellCast, company' = company, NEW d \in Range(keys),
         NEW m, NEW manages, NEW p, NEW r, Hire(d, m, manages, p, r),
         p = "" \/ (p \in Cast(d) /\ ~ Played(p))
  PROVE  /\ WellCast'
         /\ \A q : Played(q)' <=> Played(q) \/ q = p
<1> PICK n : n = Hired
  OBVIOUS
<1>1. users \in Seq(Person)
  BY DEF StaffTyped
<1>2. /\ DOMAIN users' = DOMAIN users \cup {n} /\ n \notin DOMAIN users
      /\ \A u \in DOMAIN users : users'[u] = users[u]
      /\ users'[n].department = d /\ users'[n].persona = p
  <2>1. Joins(n, d, m, manages, p)
    BY <1>1, Joined
  <2> QED  BY <2>1 DEF Joins
<1>3. \A e : Cast(e)' = Cast(e)
  BY DEF Cast
<1>4. \A q : Played(q)' <=> Played(q) \/ q = p
  BY <1>2 DEF Played
<1>5. \A u \in DOMAIN users' : users'[u].persona # "" => users'[u].persona \in Cast(users'[u].department)
  BY <1>2 DEF WellCast
<1>6. ASSUME NEW u \in DOMAIN users', NEW v \in DOMAIN users', users'[u].persona = users'[v].persona
      PROVE  u = v \/ users'[u].persona = ""
  <2>1. CASE u \in DOMAIN users /\ v \in DOMAIN users
    BY <1>2, <1>6, <2>1 DEF WellCast
  <2>2. CASE u = n \/ v = n
    BY <1>2, <1>6, <2>2 DEF Played
  <2> QED  BY <1>2, <2>1, <2>2
<1>7. WellCast'
  BY <1>3, <1>5, <1>6 DEF WellCast
<1> QED  BY <1>4, <1>7

\* Nobody is hired: the cast stays.
LEMMA CastStays ==
  ASSUME company' = company, DOMAIN users' = DOMAIN users,
         \A u \in DOMAIN users : /\ users'[u].department = users[u].department
                                 /\ users'[u].persona = users[u].persona
  PROVE  /\ WellCast => WellCast'
         /\ \A q : Played(q)' <=> Played(q)
         /\ counts' = counts => \A d : Filled(d)' <=> Filled(d)
<1>1. \A q : Played(q)' <=> Played(q)
  BY DEF Played
<1>2. \A e : Cast(e)' = Cast(e)
  BY DEF Cast
<1>3. WellCast => WellCast'
  BY <1>2 DEF WellCast
<1>4. counts' = counts => \A d : Filled(d)' <=> Filled(d)
  BY <1>1, <1>2 DEF Filled, Alone
<1> QED  BY <1>1, <1>3, <1>4

\* The personas of the next department: nobody plays one of them yet, but for the
\* Executive, whose CEO does.
LEMMA TakenUp ==
  ASSUME StaffTyped, StaffTyped', CountInv', counts \in [Range(keys) -> 1 .. total], NEW position \in 1 .. Len(keys), TakeUp(position),
         company' = company, counts' = counts, stage' = "head", WellCast',
         \A p \in Cast(Executive) : Played(p)',
         \A i \in 1 .. position - 1 : Filled(Alphabetical[company][i])'
  PROVE  CastInv'
<1> PICK d : d = Alphabetical[company][position]
  OBVIOUS
<1>1. /\ turn' = position
      /\ left' = counts[d] - (IF d = Executive THEN 1 ELSE 0)
      /\ personas' = IF d = Executive /\ Administrated THEN Tail(Personas[company][d])
                     ELSE Personas[company][d]
      /\ department' = d
  BY DEF TakeUp, department
<1>2. d \in Range(keys) /\ keys' = keys /\ Executive \in Range(keys)
  BY Places, Placement DEF keys
<1>3. \A e : Cast(e)' = Cast(e)
  BY DEF Cast
<1>4. /\ \A i \in DOMAIN personas' : personas'[i] \in Cast(d)
      /\ \A p \in Range(personas') : ~ Played(p)'
      /\ \A p \in Cast(d) : Played(p)' \/ p \in Range(personas')
  <2>1. CASE d = Executive
    <3>1. personas' = << >>
      <4>1. Tail(<<"admin.company">>) = << >>
        OBVIOUS
      <4> QED  BY <1>1, <2>1, <4>1, Casting
    <3>2. DOMAIN personas' = {} /\ Range(personas') = {}
      BY <3>1 DEF Range
    <3> QED  BY <2>1, <3>2
  <2>2. CASE d # Executive
    <3> PICK s : s = Personas[company][d]
      OBVIOUS
    <3>1. personas' = s /\ Cast(d) = Range(s)
      BY <1>1, <2>2 DEF Cast
    <3>2. \A i \in DOMAIN s : s[i] \in Range(s)
      BY DEF Range
    <3>3. Members(d)' = {}
      <4>1. Cardinality(Members(d)') = counts[d] - left' /\ counts[d] \in Nat
        <5>1. counts \in [Range(keys) -> 1 .. total] /\ total \in Nat
          BY Placement
        <5>2. counts[d] \in Nat
          BY <1>2, <5>1
        <5>3. position \in 1 .. Len(keys') /\ turn' = position /\ Alphabetical[company'][position] = d
          BY <1>1, <1>2
        <5>4. Cardinality(Members(d)') = IF position < turn' THEN counts'[d]
                                       ELSE IF position = turn' THEN counts'[d] - left'
                                       ELSE IF d = Executive THEN 1 ELSE 0
          <6>1. Members(d)' = {u \in DOMAIN users' : users'[u].department = Alphabetical[company][position]}
            BY DEF Members
          <6>2. \A i \in 1 .. Len(keys') :
                  Cardinality({u \in DOMAIN users' : users'[u].department = Alphabetical[company][i]})
                    = IF i < turn' THEN counts'[Alphabetical[company][i]]
                      ELSE IF i = turn' THEN counts'[Alphabetical[company][i]] - left'
                      ELSE IF Alphabetical[company][i] = Executive THEN 1 ELSE 0
            BY DEF CountInv, Members
          <6> QED  BY <5>3, <6>1, <6>2
        <5>5. ~ (position < turn')
          BY <5>3
        <5> QED  BY <5>2, <5>3, <5>4, <5>5
      <4>2. Cardinality(Members(d)') = 0
        BY <1>1, <2>2, <4>1
      <4>3. IsFiniteSet(Members(d)')
        <5>1. users' \in Seq(Person')
          BY DEF StaffTyped
        <5>2. DOMAIN users' = 1 .. Len(users') /\ Len(users') \in Nat
          BY <5>1, Row
        <5>3. IsFiniteSet(DOMAIN users')
          BY <5>2, FS_Interval
        <5>4. Members(d)' \in SUBSET DOMAIN users'
          BY DEF Members
        <5> QED  BY <5>3, <5>4, FS_Subset
      <4> QED  BY <4>2, <4>3, FS_EmptySet
    <3>4. \A p \in Range(s) : ~ Played(p)'
      <4> SUFFICES ASSUME NEW p \in Range(s), NEW u \in DOMAIN users', users'[u].persona = p
                   PROVE  FALSE
        BY DEF Played
      <4>1. p # "" /\ p \in Cast(d)
        BY <1>2, <3>1, Casting
      <4>2. p \in Cast(users'[u].department)
        BY <1>3, <4>1 DEF WellCast
      <4>3. users'[u].department \in Range(keys)
        <5>1. users' \in Seq(Person')
          BY DEF StaffTyped
        <5>2. users'[u] \in Person'
          BY <5>1, Row
        <5> QED  BY <1>2, <5>2 DEF Person
      <4>4. users'[u].department = d
        BY <1>2, <4>1, <4>2, <4>3, Casting
      <4> QED  BY <3>3, <4>4 DEF Members
    <3> QED  BY <3>1, <3>2, <3>4
  <2> QED  BY <2>1, <2>2
<1>5. Awaited'
  <2>1. \A i \in DOMAIN personas' : personas'[i] \in Range(personas')
    BY DEF Range
  <2> QED  BY <1>1, <1>3, <1>4, <2>1 DEF Awaited, Played
<1> QED  BY <1>1, <1>5 DEF CastInv

\* Leads are few enough to leave a member to hire.
LEMMA LeadsFewer ==
  ASSUME NEW n \in Nat, n > 0
  PROVE  LeadsDue(n) < n
  BY DEF LeadsDue

\* Whoever is to play next, and who after.
LEMMA Queue ==
  ASSUME personas \in Seq(PERSONAS),
         Len(personas) <= 1 \/ personas = <<"manager.engineering", "employee.engineering">>
  PROVE  \/ personas = << >> /\ FirstPersona = "" /\ RestPersonas = << >>
         \/ 1 \in DOMAIN personas /\ Range(personas) = {personas[1]} /\ FirstPersona = personas[1]
            /\ RestPersonas = << >>
         \/ personas = <<"manager.engineering", "employee.engineering">>
            /\ FirstPersona = "manager.engineering" /\ RestPersonas = <<"employee.engineering">>
<1>1. CASE personas = << >>
  BY <1>1 DEF FirstPersona, RestPersonas
<1>2. CASE personas # << >> /\ Len(personas) <= 1
  <2>1. FirstPersona = Head(personas) /\ RestPersonas = Tail(personas)
    BY <1>2 DEF FirstPersona, RestPersonas
  <2> PICK s : s = personas
    OBVIOUS
  <2>2. s \in Seq(PERSONAS) /\ s # << >>
    BY <1>2
  <2>3. Len(s) = 1 /\ DOMAIN s = {1}
    <3>1. Len(s) \in Nat /\ DOMAIN s = 1 .. Len(s) /\ Len(s) > 0 /\ Len(s) <= 1
      BY <1>2, <2>2, Row
    <3>2. Len(s) = 1
      BY <3>1
    <3> QED  BY <3>1, <3>2
  <2>4. Head(s) = s[1] /\ Range(s) = {s[1]}
    BY <2>2, <2>3 DEF Range
  <2>5. Tail(s) = << >>
    <3>1. Tail(s) \in Seq(PERSONAS) /\ Len(Tail(s)) = 0
      BY <2>2, <2>3, HeadTailProperties
    <3> PICK t : t = Tail(s)
      OBVIOUS
    <3>2. t \in Seq(PERSONAS) /\ Len(t) = 0
      BY <3>1
    <3>3. t = << >>
      BY <3>2
    <3> QED  BY <3>3
  <2> QED  BY <2>1, <2>3, <2>4, <2>5
<1>3. CASE personas = <<"manager.engineering", "employee.engineering">>
  <2> PICK s : s = <<"manager.engineering", "employee.engineering">>
    OBVIOUS
  <2>1. s # << >> /\ Head(s) = "manager.engineering" /\ Tail(s) = <<"employee.engineering">>
    OBVIOUS
  <2> QED  BY <1>3, <2>1 DEF FirstPersona, RestPersonas
<1> QED  BY <1>1, <1>2, <1>3

LEMMA CastBegins ==
  ASSUME StaffInv, StaffInv', CountInv', CastInv, HireCEO
  PROVE  CastInv'
<1>1. /\ stage = "balance" /\ stage' = "head" /\ TakeUp(1) /\ company' = company /\ counts' = counts
      /\ Hire(Executive, Nobody, TRUE, IF Administrated THEN "admin.company" ELSE "", "Company Admin")
  BY DEF HireCEO, request
<1>2. StaffTyped /\ users = << >> /\ counts \in [Range(keys) -> 1 .. total] /\ Executive \in Range(keys)
  BY <1>1, Placement DEF StaffInv, Headed, StaffTyped
<1>a. PICK p : p = IF Administrated THEN "admin.company" ELSE ""
  OBVIOUS
<1>3. WellCast /\ \A q : ~ Played(q)
  <2>1. \A u : u \notin DOMAIN users
    <3>1. users = << >>
      BY <1>2
    <3> QED  BY <3>1
  <2> QED  BY <2>1 DEF WellCast, Played
<1>4. Cast(Executive) = IF Administrated THEN {"admin.company"} ELSE {}
  BY <1>2, Casting
<1>5. Hire(Executive, Nobody, TRUE, p, "Company Admin") /\ (p = "" \/ (p \in Cast(Executive) /\ ~ Played(p)))
  BY <1>1, <1>3, <1>4, <1>a
<1> PICK d \in Range(keys) : d = Executive
  BY <1>2
<1>6. WellCast' /\ \A q : Played(q)' <=> Played(q) \/ q = p
  <2>1. PICK m, manages, r : m = Nobody /\ manages = TRUE /\ r = "Company Admin"
    OBVIOUS
  <2>2. Hire(d, m, manages, p, r)
    BY <1>5, <2>1
  <2>3. p = "" \/ (p \in Cast(d) /\ ~ Played(p))
    BY <1>5
  <2> QED  BY <1>1, <1>2, <1>3, <2>2, <2>3, CastHired
<1>7. \A q \in Cast(Executive) : Played(q)'
  BY <1>4, <1>6, <1>a
<1>8. 1 \in 1 .. Len(keys) /\ \A i \in 1 .. 1 - 1 : Filled(Alphabetical[company][i])'
  <2>1. Len(keys) \in Nat /\ turn \in 1 .. Len(keys)
    BY <1>2, Places DEF StaffTyped
  <2>2. 1 \in 1 .. Len(keys)
    BY <2>1
  <2>3. \A i \in 1 .. 1 - 1 : FALSE
    OBVIOUS
  <2> QED  BY <2>2, <2>3
<1> QED
  BY <1>1, <1>2, <1>6, <1>7, <1>8, TakenUp DEF StaffInv

\* The Executive has its head already; everybody else plays before the rest.
LEMMA CastHead ==
  ASSUME StaffInv, CastInv, HireHead
  PROVE  CastInv'
<1>1. /\ stage = "head" /\ stage' = "staff" /\ left > 0
      /\ UNCHANGED <<company, total, counts, turn>>
  BY DEF HireHead, request
<1>2. /\ keys' = keys /\ department' = department /\ \A e : Cast(e)' = Cast(e)
  BY <1>1 DEF keys, department, Cast
<1>3. /\ StaffTyped /\ department \in Range(keys) /\ personas \in Seq(PERSONAS)
      /\ WellCast /\ Awaited
      /\ left = counts[department] - (IF department = Executive THEN 1 ELSE 0)
      /\ left \in Nat /\ turn \in 1 .. Len(keys) /\ Len(keys) \in Nat
  BY <1>1, InHandOne, LeftToHire, Places DEF StaffInv, StaffTyped, CastInv
<1>4. personas = IF department = Executive /\ Administrated THEN Tail(Personas[company][department])
                 ELSE Personas[company][department]
  BY <1>1 DEF StaffInv, Waiting
<1>5. CASE department \in DOMAIN heads
  <2>1. UNCHANGED <<users, personas>>
    BY <1>5 DEF HireHead
  <2>2. department = Executive
    <3>1. turn \in turn .. Len(keys) /\ department = Alphabetical[company][turn]
      BY <1>3 DEF department
    <3> QED  BY <1>1, <1>5, <3>1 DEF StaffInv, Headed
  <2>3. personas = << >>
    <3>1. Tail(<<"admin.company">>) = << >>
      OBVIOUS
    <3> QED  BY <1>3, <1>4, <2>2, <3>1, Casting
  <2>4. WellCast' /\ Awaited'
    <3>1. WellCast' /\ \A q : Played(q)' <=> Played(q)
      BY <1>1, <1>3, <2>1, CastStays
    <3>2. \A d : Filled(d)' <=> Filled(d)
      BY <1>1, <2>1, CastStays
    <3>3. Awaited'
      BY <1>1, <1>2, <1>3, <2>1, <3>1, <3>2 DEF Awaited, Played
    <3> QED  BY <3>1, <3>3
  <2> QED  BY <1>1, <2>1, <2>3, <2>4 DEF CastInv
<1>6. CASE department \notin DOMAIN heads
  <2>1. /\ Hire(department, Exec, TRUE, FirstPersona, RoleFor(department, FirstPersona))
        /\ left' = left - 1 /\ personas' = RestPersonas /\ leads'.due = LeadsDue(left - 1)
    <3>1. leads \in [due : Nat, hired : Seq(Nat)] /\ leads' = [leads EXCEPT !.due = LeadsDue(left - 1)]
      BY <1>6 DEF HireHead, StaffInv, StaffTyped
    <3> QED  BY <1>6, <3>1 DEF HireHead
  <2>2. department # Executive /\ personas = Personas[company][department]
    <3>1. Executive \in DOMAIN heads
      BY <1>1 DEF StaffInv, Headed
    <3> QED  BY <1>4, <1>6, <3>1
  <2>3. Len(personas) <= 1 \/ personas = <<"manager.engineering", "employee.engineering">>
    <3>1. Len(<< >>) <= 1
      OBVIOUS
    <3>2. IF department = "Engineering"
          THEN personas \in {<< >>, <<"manager.engineering", "employee.engineering">>}
          ELSE Len(personas) <= 1
      BY <1>3, <2>2, Casting
    <3> QED  BY <3>1, <3>2
  <2>4. \/ personas = << >> /\ FirstPersona = "" /\ RestPersonas = << >>
        \/ 1 \in DOMAIN personas /\ Range(personas) = {personas[1]} /\ FirstPersona = personas[1]
           /\ RestPersonas = << >>
        \/ personas = <<"manager.engineering", "employee.engineering">>
           /\ FirstPersona = "manager.engineering" /\ RestPersonas = <<"employee.engineering">>
    BY <1>3, <2>3, Queue
  <2>5. FirstPersona = "" \/ (FirstPersona \in Cast(department) /\ ~ Played(FirstPersona))
    <3>1. personas = <<"manager.engineering", "employee.engineering">> =>
            1 \in DOMAIN personas /\ personas[1] = "manager.engineering"
      OBVIOUS
    <3>2. FirstPersona = "" \/ (1 \in DOMAIN personas /\ FirstPersona = personas[1])
      BY <2>4, <3>1
    <3> QED  BY <1>3, <3>2 DEF Awaited
  <2>6. WellCast' /\ \A q : Played(q)' <=> Played(q) \/ q = FirstPersona
    <3>1. PICK m, manages, p, r : m = Exec /\ manages = TRUE /\ p = FirstPersona
                                  /\ r = RoleFor(department, FirstPersona)
      OBVIOUS
    <3>2. PICK d \in Range(keys) : d = department
      BY <1>3
    <3>3. Hire(d, m, manages, p, r)
      BY <2>1, <3>1, <3>2
    <3>4. p = "" \/ (p \in Cast(d) /\ ~ Played(p))
      BY <2>5, <3>1, <3>2
    <3>5. WellCast' /\ \A q : Played(q)' <=> Played(q) \/ q = p
      BY <1>1, <1>3, <3>3, <3>4, CastHired
    <3> QED  BY <3>1, <3>5
  <2>7. \A d : Filled(d) => Filled(d)'
    BY <1>1, <1>2, <2>6 DEF Filled, Alone
  <2>8. /\ \A i \in DOMAIN personas' : personas'[i] \in Cast(department)
        /\ \A q \in Range(personas') : ~ Played(q)'
        /\ \A q \in Cast(department) : Played(q)' \/ q \in Range(personas')
        /\ personas' # << >> => Len(personas') = 1 /\ personas'[1] = "employee.engineering"
    <3>1. CASE personas = << >> /\ FirstPersona = "" /\ RestPersonas = << >>
      <4>1. \A x : x \notin Range(<< >>) /\ x \notin DOMAIN << >>
        BY DEF Range
      <4> QED  BY <1>3, <2>1, <2>6, <3>1, <4>1 DEF Awaited
    <3>2. CASE 1 \in DOMAIN personas /\ Range(personas) = {personas[1]} /\ FirstPersona = personas[1]
               /\ RestPersonas = << >>
      <4>1. \A x : x \notin Range(<< >>) /\ x \notin DOMAIN << >>
        BY DEF Range
      <4> QED  BY <1>3, <2>1, <2>6, <3>2, <4>1 DEF Awaited
    <3>3. CASE personas = <<"manager.engineering", "employee.engineering">>
               /\ FirstPersona = "manager.engineering" /\ RestPersonas = <<"employee.engineering">>
      <4>1. /\ DOMAIN personas = {1, 2} /\ personas[1] = "manager.engineering"
            /\ personas[2] = "employee.engineering"
            /\ Range(personas) = {"manager.engineering", "employee.engineering"}
        BY <3>3 DEF Range
      <4>2. /\ DOMAIN personas' = {1} /\ personas'[1] = "employee.engineering" /\ Len(personas') = 1
            /\ Range(personas') = {"employee.engineering"}
        BY <2>1, <3>3 DEF Range
      <4>3. "employee.engineering" \in Cast(department) /\ ~ Played("employee.engineering")
        BY <1>3, <4>1 DEF Awaited
      <4>4. \A q \in Cast(department) : Played(q) \/ q \in {"manager.engineering", "employee.engineering"}
        BY <1>3, <4>1 DEF Awaited
      <4> QED  BY <2>6, <3>3, <4>2, <4>3, <4>4
    <3> QED  BY <2>4, <3>1, <3>2, <3>3
  <2>9. Awaited'
    <3>1. \A i \in DOMAIN personas' : personas'[i] \in Range(personas')
      BY DEF Range
    <3>2. \A q \in Cast(Executive) : Played(q)'
      BY <1>3, <2>6 DEF Awaited
    <3>3. \A i \in 1 .. turn - 1 : Filled(Alphabetical[company][i])'
      <4>1. \A i \in 1 .. turn - 1 : Filled(Alphabetical[company][i])
        BY <1>3 DEF Awaited
      <4>2. \A i : Filled(Alphabetical[company][i]) => Filled(Alphabetical[company][i])'
        <5> SUFFICES ASSUME NEW i
                     PROVE  Filled(Alphabetical[company][i]) => Filled(Alphabetical[company][i])'
          OBVIOUS
        <5>1. PICK d : d = Alphabetical[company][i]
          OBVIOUS
        <5> QED  BY <1>1, <2>7, <5>1 DEF Filled, Alone
      <4> QED  BY <4>1, <4>2
    <3> QED  BY <1>1, <1>2, <2>8, <3>1, <3>2, <3>3 DEF Awaited, Played
  <2>10. left' > leads'.due \/ counts[department] = 1
    <3>1. left = counts[department] /\ counts[department] \in Nat
      <4>1. counts[department] \in 1 .. total /\ total \in Nat
        BY <1>1, <1>3, Placement DEF StaffTyped
      <4> QED  BY <1>3, <2>2, <4>1
    <3>2. left - 1 \in Nat
      BY <1>1, <1>3
    <3>3. left - 1 > 0 => LeadsDue(left - 1) < left - 1
      BY <3>2, LeadsFewer
    <3> QED  BY <1>1, <1>3, <2>1, <3>1, <3>2, <3>3
  <2> QED  BY <1>1, <1>2, <2>6, <2>8, <2>9, <2>10 DEF CastInv
<1> QED  BY <1>5, <1>6

\* What was complete stays complete while people are hired.
LEMMA FilledStays ==
  ASSUME company' = company, counts' = counts, \A q : Played(q) => Played(q)'
  PROVE  \A i : Filled(Alphabetical[company][i]) => Filled(Alphabetical[company][i])'
<1> SUFFICES ASSUME NEW i
             PROVE  Filled(Alphabetical[company][i]) => Filled(Alphabetical[company][i])'
  OBVIOUS
<1>1. PICK d : d = Alphabetical[company][i]
  OBVIOUS
<1>2. Cast(d)' = Cast(d)
  BY DEF Cast
<1>3. Filled(d) => Filled(d)'
  BY <1>2 DEF Filled, Alone
<1> QED  BY <1>1, <1>3 DEF Filled, Alone, Cast

LEMMA CastLead ==
  ASSUME StaffInv, CastInv, HireLead
  PROVE  CastInv'
<1>1. /\ stage = "staff" /\ stage' = "staff" /\ UNCHANGED <<company, total, counts, turn, personas>>
      /\ left' = left - 1 /\ leads'.due = leads.due - 1 /\ leads.due > 0
      /\ Hire(department, heads[department], TRUE, "", RoleFor(department, ""))
  BY DEF HireLead, request
<1>2. /\ keys' = keys /\ department' = department /\ \A e : Cast(e)' = Cast(e)
  BY <1>1 DEF keys, department, Cast
<1>3. /\ StaffTyped /\ department \in Range(keys) /\ WellCast /\ Awaited
      /\ left \in Nat /\ leads.due \in Nat
      /\ personas # << >> =>
            /\ Len(personas) = 1 /\ personas[1] = "employee.engineering"
            /\ left > leads.due \/ counts[department] = 1
  BY <1>1, InHandOne, LeftToHire DEF StaffInv, StaffTyped, CastInv
<1>4. WellCast' /\ \A q : Played(q)' <=> Played(q) \/ q = ""
  <2>1. PICK m, manages, p, r : m = heads[department] /\ manages = TRUE /\ p = ""
                                /\ r = RoleFor(department, "")
    OBVIOUS
  <2>2. PICK d \in Range(keys) : d = department
    BY <1>3
  <2>3. Hire(d, m, manages, p, r)
    BY <1>1, <2>1, <2>2
  <2>4. WellCast' /\ \A q : Played(q)' <=> Played(q) \/ q = p
    BY <1>1, <1>3, <2>1, <2>3, CastHired
  <2> QED  BY <2>1, <2>4
<1>5. \A e \in Range(keys) : "" \notin Cast(e)
  BY <1>3, Casting
<1>6. Awaited'
  <2>1. \A i \in 1 .. turn - 1 : Filled(Alphabetical[company][i])'
    BY <1>1, <1>3, <1>4, FilledStays DEF Awaited
  <2>2. \A i \in DOMAIN personas : personas[i] \in Cast(department) /\ ~ Played(personas[i])
        /\ personas[i] # ""
    BY <1>3, <1>5 DEF Awaited
  <2>3. \A i \in DOMAIN personas' : personas'[i] \in Cast(department) /\ ~ \E u \in DOMAIN users' : users'[u].persona = personas'[i]
    BY <1>1, <1>4, <2>2 DEF Played
  <2>4. \A q : Played(q) => Played(q)'
    BY <1>4
  <2> QED  BY <1>1, <1>2, <1>3, <2>1, <2>3, <2>4 DEF Awaited, Played
<1>7. personas' # << >> =>
            /\ Len(personas') = 1 /\ personas'[1] = "employee.engineering"
            /\ left' > leads'.due \/ counts'[department'] = 1
  <2>1. left > leads.due => left - 1 > leads.due - 1
    BY <1>3
  <2>2. counts'[department'] = counts[department]
    BY <1>1, <1>2
  <2> QED  BY <1>1, <1>3, <2>1, <2>2
<1> QED  BY <1>1, <1>4, <1>6, <1>7 DEF CastInv

LEMMA CastMember ==
  ASSUME StaffInv, CastInv, HireMember
  PROVE  CastInv'
<1>1. /\ stage = "staff" /\ stage' = "staff" /\ UNCHANGED <<company, total, counts, turn>>
      /\ personas' = RestPersonas
      /\ Hire(department, ManagerOfNext, FALSE, FirstPersona, RoleFor(department, FirstPersona))
  BY DEF HireMember, request
<1>2. /\ keys' = keys /\ department' = department /\ \A e : Cast(e)' = Cast(e)
  BY <1>1 DEF keys, department, Cast
<1>3. /\ StaffTyped /\ department \in Range(keys) /\ WellCast /\ Awaited
      /\ personas \in Seq(PERSONAS)
      /\ personas # << >> => Len(personas) = 1 /\ personas[1] = "employee.engineering"
  BY <1>1, InHandOne DEF StaffInv, StaffTyped, CastInv
<1>4. /\ FirstPersona = "" \/ (1 \in DOMAIN personas /\ FirstPersona = personas[1])
      /\ RestPersonas = << >>
      /\ \A q \in Range(personas) : q = FirstPersona
  <2>1. Len(<< >>) <= 1 /\ \A x : x \notin Range(<< >>)
    BY DEF Range
  <2>2. Len(personas) <= 1
    BY <1>3, <2>1
  <2>3. personas # <<"manager.engineering", "employee.engineering">>
    BY <2>2
  <2>4. \/ personas = << >> /\ FirstPersona = "" /\ RestPersonas = << >>
        \/ 1 \in DOMAIN personas /\ Range(personas) = {personas[1]} /\ FirstPersona = personas[1]
           /\ RestPersonas = << >>
    BY <1>3, <2>2, <2>3, Queue
  <2> QED  BY <2>1, <2>4
<1>5. FirstPersona = "" \/ (FirstPersona \in Cast(department) /\ ~ Played(FirstPersona))
  BY <1>3, <1>4 DEF Awaited
<1>6. WellCast' /\ \A q : Played(q)' <=> Played(q) \/ q = FirstPersona
  <2>1. PICK m, manages, p, r : m = ManagerOfNext /\ manages = FALSE /\ p = FirstPersona
                                /\ r = RoleFor(department, FirstPersona)
    OBVIOUS
  <2>2. PICK d \in Range(keys) : d = department
    BY <1>3
  <2>3. Hire(d, m, manages, p, r)
    BY <1>1, <2>1, <2>2
  <2>4. p = "" \/ (p \in Cast(d) /\ ~ Played(p))
    BY <1>5, <2>1, <2>2
  <2>5. WellCast' /\ \A q : Played(q)' <=> Played(q) \/ q = p
    BY <1>1, <1>3, <2>3, <2>4, CastHired
  <2> QED  BY <2>1, <2>5
<1>7. Awaited'
  <2>1. \A i \in 1 .. turn - 1 : Filled(Alphabetical[company][i])'
    BY <1>1, <1>3, <1>6, FilledStays DEF Awaited
  <2>2. \A i : i \notin DOMAIN personas'
    <3>1. \A i : i \notin DOMAIN << >>
      OBVIOUS
    <3> QED  BY <1>1, <1>4, <3>1
  <2>3. \A q \in Cast(department) : Played(q)'
    BY <1>3, <1>4, <1>6 DEF Awaited
  <2>4. \A q \in Cast(Executive) : Played(q)'
    BY <1>3, <1>6 DEF Awaited
  <2> QED  BY <1>1, <1>2, <2>1, <2>2, <2>3, <2>4 DEF Awaited
<1> QED  BY <1>1, <1>4, <1>6, <1>7 DEF CastInv

\* The department in hand is complete when nobody is left to hire.
LEMMA CastNext ==
  ASSUME StaffInv, StaffInv', CastInv, CountInv', NextDepartment
  PROVE  CastInv'
<1>1. /\ left = 0 /\ stage \in {"head", "staff"} /\ UNCHANGED <<company, total, counts, users>>
      /\ IF turn < Len(keys) THEN TakeUp(turn + 1) /\ stage' = "head"
         ELSE stage' = "reports" /\ turn' = turn
  BY DEF NextDepartment, request
<1>2. /\ StaffTyped /\ WellCast /\ Awaited /\ turn \in 1 .. Len(keys) /\ Len(keys) \in Nat
      /\ counts \in [Range(keys) -> 1 .. total] /\ StaffTyped' /\ leads.due \in Nat /\ leads.due <= left
  BY <1>1, Places DEF StaffInv, StaffTyped, CastInv
<1>3. WellCast' /\ (\A q : Played(q)' <=> Played(q)) /\ keys' = keys
  BY <1>1, <1>2, CastStays DEF keys
<1>4. Filled(department)
  <2>1. CASE stage = "head"
    <3>1. department \in DOMAIN heads
      BY <1>1, <2>1 DEF StaffInv, Headed
    <3>2. department = Executive
      <4>1. turn \in turn .. Len(keys) /\ department = Alphabetical[company][turn]
        BY <1>2 DEF department
      <4> QED  BY <2>1, <3>1, <4>1 DEF StaffInv, Headed
    <3> QED  BY <1>2, <3>2 DEF Awaited, Filled
  <2>2. CASE stage = "staff"
    <3>1. CASE personas = << >>
      <4>1. \A x : x \notin Range(<< >>)
        BY DEF Range
      <4> QED  BY <1>2, <3>1, <4>1 DEF Awaited, Filled
    <3>2. CASE personas # << >>
      <4>1. /\ Len(personas) = 1 /\ personas[1] = "employee.engineering"
            /\ left > leads.due \/ counts[department] = 1
        BY <2>2, <3>2 DEF CastInv
      <4>2. counts[department] = 1
        BY <1>1, <1>2, <4>1
      <4>3. \A x \in Range(personas) : x = "employee.engineering"
        <5>1. personas \in Seq(PERSONAS)
          BY <1>2 DEF StaffTyped
        <5>2. DOMAIN personas = 1 .. 1
          BY <4>1, <5>1, Row
        <5> QED  BY <4>1, <5>2 DEF Range
      <4> QED  BY <1>2, <4>2, <4>3 DEF Awaited, Filled, Alone
    <3> QED  BY <3>1, <3>2
  <2> QED  BY <1>1, <2>1, <2>2
<1>5. \A i \in 1 .. turn : Filled(Alphabetical[company][i])'
  <2>1. \A i \in 1 .. turn : Filled(Alphabetical[company][i])
    BY <1>2, <1>4 DEF Awaited, department
  <2> QED  BY <1>1, <1>3, <2>1, FilledStays
<1>6. CASE turn < Len(keys)
  <2>1. turn + 1 \in 1 .. Len(keys) /\ stage' = "head" /\ TakeUp(turn + 1) /\ turn + 1 - 1 = turn
    BY <1>1, <1>2, <1>6
  <2>2. PICK position \in 1 .. Len(keys) : position = turn + 1
    BY <2>1
  <2>3. TakeUp(position)
    BY <2>1, <2>2
  <2>4. \A i \in 1 .. position - 1 : Filled(Alphabetical[company][i])'
    <3>1. position - 1 = turn
      BY <1>2, <2>2
    <3> QED  BY <1>5, <3>1
  <2>5. \A q \in Cast(Executive) : Played(q)'
    BY <1>2, <1>3 DEF Awaited
  <2> QED  BY <1>1, <1>2, <1>3, <2>1, <2>3, <2>4, <2>5, TakenUp
<1>7. CASE ~ (turn < Len(keys))
  <2>1. stage' = "reports" /\ turn = Len(keys)
    BY <1>1, <1>2, <1>7
  <2>2. \A d \in Range(keys) : Filled(d)'
    <3> SUFFICES ASSUME NEW d \in Range(keys)
                 PROVE  Filled(d)'
      OBVIOUS
    <3>1. PICK i \in 1 .. Len(keys) : Alphabetical[company][i] = d
      BY <1>2, Places
    <3>2. Filled(Alphabetical[company][i])'
      BY <1>5, <2>1
    <3> QED  BY <1>1, <3>1, <3>2 DEF Filled, Alone, Cast
  <2> QED  BY <1>3, <2>1, <2>2 DEF CastInv
<1> QED  BY <1>6, <1>7

LEMMA CastKept ==
  ASSUME StaffInv, StaffInv', CastInv, CountInv', [DataNext]_dataVars
  PROVE  CastInv'
<1>1. ASSUME company' = company, DOMAIN users' = DOMAIN users,
             \A u \in DOMAIN users : /\ users'[u].department = users[u].department
                                     /\ users'[u].persona = users[u].persona,
             counts' = counts, stage \notin {"allocate", "balance", "failed", "head", "staff"},
             stage' \notin {"head", "staff"}
      PROVE  CastInv'
  <2>1. WellCast' /\ \A d : Filled(d)' <=> Filled(d)
    BY <1>1, CastStays DEF CastInv
  <2>2. keys' = keys /\ \A d \in Range(keys) : Filled(d)
    BY <1>1 DEF CastInv, keys
  <2> QED  BY <1>1, <2>1, <2>2 DEF CastInv
<1>2. CASE Refuse \/ Divide \/ Balance
  <2>1. stage' \in {"balance", "failed"} /\ UNCHANGED <<company, users>>
    BY <1>2 DEF Refuse, Divide, Balance, request
  <2>2. WellCast'
    BY <2>1, CastStays DEF CastInv
  <2> QED  BY <2>1, <2>2 DEF CastInv
<1>3. CASE HireCEO
  BY <1>3, CastBegins
<1>4. CASE HireHead
  BY <1>4, CastHead
<1>5. CASE HireLead
  BY <1>5, CastLead
<1>6. CASE HireMember
  BY <1>6, CastMember
<1>7. CASE NextDepartment
  BY <1>7, CastNext
<1>8. CASE PairPersonas \/ MoveReports
  <2>1. PICK m \in WithPersona("manager.engineering") : \E moved : MovedTo(m, moved)
    BY <1>8, Paired, Moves
  <2>2. PICK moved : MovedTo(m, moved)
    BY <2>1
  <2>3. /\ DOMAIN users' = DOMAIN users
        /\ \A u \in DOMAIN users : /\ users'[u].department = users[u].department
                                   /\ users'[u].persona = users[u].persona
    BY <2>2, Reassigned
  <2>4. /\ UNCHANGED <<company, counts>> /\ stage \in {"reports", "enough"}
        /\ stage' \in {"enough", "built", "failed"}
    BY <1>8 DEF PairPersonas, MoveReports, request
  <2> QED  BY <1>1, <2>3, <2>4
<1>9. CASE NoManagerPersona
  <2>1. UNCHANGED <<company, counts, users>> /\ stage = "reports" /\ stage' = "built"
    BY <1>9 DEF NoManagerPersona, request
  <2> QED  BY <1>1, <2>1
<1>10. CASE Recording
  <2>1. Recorded
    BY <1>10, AllRecord DEF StaffInv, StaffTyped
  <2> QED  BY <1>1, <2>1 DEF Recorded, RecordStages
<1>11. CASE UNCHANGED dataVars
  <2>1. UNCHANGED <<company, total, stage, counts, turn, left, personas, leads, users>>
    BY <1>11 DEF dataVars, staffVars, request, hiring
  <2>2. keys' = keys /\ department' = department /\ Cast(Executive)' = Cast(Executive)
    BY <2>1 DEF keys, department, Cast
  <2>3. WellCast' = WellCast /\ Awaited' = Awaited /\ \A d : Filled(d)' = Filled(d)
    BY <2>1, <2>2 DEF WellCast, Awaited, Filled, Alone, Played, Cast
  <2> QED  BY <2>1, <2>2, <2>3 DEF CastInv
<1>12. DataNext => Staff \/ Recording
  BY DEF DataNext, Recording
<1> QED
  BY <1>2, <1>3, <1>4, <1>5, <1>6, <1>7, <1>8, <1>9, <1>10, <1>11, <1>12 DEF Staff, StaffNext

-----------------------------------------------------------------------------
(* The teams: whoever is not under the Exec is managed in the department.  *)

Teamed ==
    \A u \in DOMAIN users : users[u].manager \notin {Nobody, Exec} =>
        users[users[u].manager].department = users[u].department

\* The employee of the scenarios is under their manager, who has his reports in
\* the end.
TeamInv ==
    /\ Teamed
    /\ stage = "head" => leads.hired = << >>
    /\ stage = "staff" => \A i \in DOMAIN leads.hired : users[leads.hired[i]].department = department
    /\ stage \in {"enough", "built"} =>
        \A m \in WithPersona("manager.engineering"), e \in WithPersona("employee.engineering") :
            users[e].manager = m
    /\ stage = "built" =>
        \A m \in WithPersona("manager.engineering") : Cardinality(Reports(m)) >= MIN_MANAGER_REPORTS

\* Somebody comes under the Exec, under nobody, or under one of the department.
LEMMA TeamHired ==
  ASSUME StaffInv, Teamed, NEW d, NEW m, NEW manages, NEW p, NEW r, Hire(d, m, manages, p, r),
         m \in {Nobody, Exec} \/ (m \in DOMAIN users /\ users[m].department = d)
  PROVE  Teamed' /\ \A u \in DOMAIN users : u \in DOMAIN users' /\ users'[u] = users[u]
<1>1. PICK n : n = Hired
  OBVIOUS
<1>2. Joins(n, d, m, manages, p)
  BY <1>1, Joined DEF StaffInv, StaffTyped
<1>3. /\ DOMAIN users' = DOMAIN users \cup {n} /\ n \notin DOMAIN users
      /\ \A u \in DOMAIN users : users'[u] = users[u]
      /\ users'[n].department = d /\ users'[n].manager = m
  BY <1>2 DEF Joins
<1>4. \A u \in DOMAIN users : users[u].manager \notin {Nobody, Exec} => users[u].manager \in DOMAIN users
  BY DEF StaffInv, Answers
<1>5. ASSUME NEW u \in DOMAIN users', users'[u].manager \notin {Nobody, Exec}
      PROVE  users'[users'[u].manager].department = users'[u].department
  <2>1. CASE u \in DOMAIN users
    <3>1. users'[u] = users[u] /\ users[u].manager \in DOMAIN users
      BY <1>3, <1>4, <1>5, <2>1
    <3>2. users'[users[u].manager] = users[users[u].manager]
      BY <1>3, <3>1
    <3>3. users[users[u].manager].department = users[u].department
      BY <1>5, <2>1, <3>1 DEF Teamed
    <3> QED  BY <3>1, <3>2, <3>3
  <2>2. CASE u = n
    BY <1>3, <1>5, <2>2
  <2> QED  BY <1>3, <2>1, <2>2
<1> QED  BY <1>3, <1>5 DEF Teamed

\* The manager of the next member is of the department in hand.
LEMMA NextManager ==
  ASSUME StaffInv, TeamInv, stage = "staff"
  PROVE  /\ heads[department] \in DOMAIN users /\ users[heads[department]].department = department
         /\ ManagerOfNext \in DOMAIN users /\ users[ManagerOfNext].department = department
<1>1. /\ leads \in [due : Nat, hired : Seq(Nat)]
      /\ heads[department] \in DOMAIN users /\ users[heads[department]].department = department
      /\ users \in Seq(Person)
  BY InTheMiddle DEF StaffInv, Leads
<1>2. ManagerOfNext \in DOMAIN users
  BY SomebodyLeads
<1>3. CASE leads.hired = << >>
  BY <1>1, <1>2, <1>3 DEF ManagerOfNext
<1>4. CASE leads.hired # << >>
  <2>1. PICK h : h = leads.hired
    OBVIOUS
  <2>2. h \in Seq(Nat) /\ h # << >> /\ Len(users) \in Nat
    BY <1>1, <1>4, <2>1, Row
  <2>3. \A i \in DOMAIN h : users[h[i]].department = department
    BY <2>1 DEF TeamInv
  <2>4. ManagerOfNext = h[((Len(users) - Last(h)) % Len(h)) + 1]
    BY <1>4, <2>1 DEF ManagerOfNext
  <2>5. Len(h) \in Nat /\ Len(h) > 0 /\ DOMAIN h = 1 .. Len(h) /\ Last(h) \in Nat
    <3>1. Len(h) \in Nat /\ Len(h) > 0 /\ DOMAIN h = 1 .. Len(h)
      BY <2>2, Row
    <3>2. h[Len(h)] \in Nat
      BY <2>2, <3>1
    <3> QED  BY <3>1, <3>2 DEF Last
  <2>6. ((Len(users) - Last(h)) % Len(h)) + 1 \in DOMAIN h
    BY <2>2, <2>5
  <2> QED  BY <1>1, <1>2, <2>3, <2>4, <2>6
<1> QED  BY <1>1, <1>3, <1>4

LEMMA TeamHires ==
  ASSUME StaffInv, TeamInv, HireCEO \/ HireHead \/ HireLead \/ HireMember
  PROVE  TeamInv'
<1>1. Teamed
  BY DEF TeamInv
<1>2. CASE HireCEO
  <2>1. /\ stage' = "head" /\ leads'.hired = << >>
        /\ Hire(Executive, Nobody, TRUE, IF Administrated THEN "admin.company" ELSE "", "Company Admin")
    BY <1>2 DEF HireCEO, TakeUp
  <2>2. PICK d, m, manages, p, r : /\ d = Executive /\ m = Nobody /\ manages = TRUE
                                   /\ p = (IF Administrated THEN "admin.company" ELSE "")
                                   /\ r = "Company Admin"
    OBVIOUS
  <2>3. Hire(d, m, manages, p, r) /\ m \in {Nobody, Exec}
    BY <2>1, <2>2
  <2>4. Teamed'
    BY <1>1, <2>3, TeamHired
  <2> QED  BY <2>1, <2>4 DEF TeamInv
<1>3. CASE HireHead
  <2>1. stage = "head" /\ stage' = "staff" /\ leads'.hired = leads.hired
    <3>1. leads \in [due : Nat, hired : Seq(Nat)]
      BY DEF StaffInv, StaffTyped
    <3> QED  BY <1>3, <3>1 DEF HireHead
  <2>2. \A i : i \notin DOMAIN leads'.hired
    <3>1. \A i : i \notin DOMAIN << >>
      OBVIOUS
    <3> QED  BY <2>1, <3>1 DEF TeamInv
  <2>3. Teamed'
    <3>1. CASE users' = users
      BY <1>1, <3>1 DEF Teamed
    <3>2. CASE Hire(department, Exec, TRUE, FirstPersona, RoleFor(department, FirstPersona))
      <4>1. PICK d, m, manages, p, r : /\ d = department /\ m = Exec /\ manages = TRUE
                                       /\ p = FirstPersona /\ r = RoleFor(department, FirstPersona)
        OBVIOUS
      <4>2. Hire(d, m, manages, p, r) /\ m \in {Nobody, Exec}
        BY <3>2, <4>1
      <4> QED  BY <1>1, <4>2, TeamHired
    <3> QED  BY <1>3, <3>1, <3>2 DEF HireHead
  <2> QED  BY <2>1, <2>2, <2>3 DEF TeamInv
<1>4. CASE HireLead
  <2>1. /\ stage = "staff" /\ stage' = "staff" /\ UNCHANGED <<company, turn>>
        /\ leads'.hired = Append(leads.hired, Hired)
        /\ Hire(department, heads[department], TRUE, "", RoleFor(department, ""))
    BY <1>4 DEF HireLead, request
  <2>2. heads[department] \in DOMAIN users /\ users[heads[department]].department = department
    BY <2>1, NextManager
  <2>3. PICK d, m, manages, p, r : /\ d = department /\ m = heads[department] /\ manages = TRUE
                                   /\ p = "" /\ r = RoleFor(department, "")
    OBVIOUS
  <2>4. Hire(d, m, manages, p, r) /\ m \in DOMAIN users /\ users[m].department = d
    BY <2>1, <2>2, <2>3
  <2>5. Teamed' /\ \A u \in DOMAIN users : u \in DOMAIN users' /\ users'[u] = users[u]
    BY <1>1, <2>4, TeamHired
  <2>6. PICK n : n = Hired
    OBVIOUS
  <2>7. users \in Seq(Person) /\ leads.hired \in Seq(Nat) /\ TeamLeads
    BY DEF StaffInv, StaffTyped
  <2>8. users'[n].department = d /\ n \in Nat
    <3>1. Joins(n, d, m, manages, p)
      BY <2>4, <2>6, <2>7, Joined
    <3> QED  BY <3>1 DEF Joins
  <2>9. department' = department
    BY <2>1 DEF department
  <2>10. \A i \in DOMAIN leads'.hired : users'[leads'.hired[i]].department = department
    <3>1. PICK h : h = leads.hired
      OBVIOUS
    <3>2. \A i \in DOMAIN h : h[i] \in DOMAIN users /\ users[h[i]].department = department
      BY <2>1, <2>7, <3>1 DEF TeamLeads, TeamInv
    <3>3. /\ DOMAIN Append(h, n) = 1 .. Len(h) + 1 /\ Len(h) \in Nat /\ DOMAIN h = 1 .. Len(h)
          /\ Append(h, n)[Len(h) + 1] = n
          /\ \A i \in 1 .. Len(h) : Append(h, n)[i] = h[i]
      BY <2>7, <2>8, <3>1, Longer, Row
    <3>4. \A i \in DOMAIN Append(h, n) : i = Len(h) + 1 \/ i \in DOMAIN h
      BY <3>3
    <3>5. \A i \in DOMAIN Append(h, n) : users'[Append(h, n)[i]].department = department
      BY <2>3, <2>5, <2>8, <3>2, <3>3, <3>4
    <3> QED  BY <2>1, <2>6, <3>1, <3>5
  <2> QED  BY <2>1, <2>5, <2>9, <2>10 DEF TeamInv
<1>5. CASE HireMember
  <2>1. /\ stage = "staff" /\ stage' = "staff" /\ UNCHANGED <<company, turn, leads>>
        /\ Hire(department, ManagerOfNext, FALSE, FirstPersona, RoleFor(department, FirstPersona))
    BY <1>5 DEF HireMember, request
  <2>2. ManagerOfNext \in DOMAIN users /\ users[ManagerOfNext].department = department
    BY <2>1, NextManager
  <2>3. PICK d, m, manages, p, r : /\ d = department /\ m = ManagerOfNext /\ manages = FALSE
                                   /\ p = FirstPersona /\ r = RoleFor(department, FirstPersona)
    OBVIOUS
  <2>4. Hire(d, m, manages, p, r) /\ m \in DOMAIN users /\ users[m].department = d
    BY <2>1, <2>2, <2>3
  <2>5. Teamed' /\ \A u \in DOMAIN users : u \in DOMAIN users' /\ users'[u] = users[u]
    BY <1>1, <2>4, TeamHired
  <2>6. department' = department
    BY <2>1 DEF department
  <2>7. \A i \in DOMAIN leads.hired : leads.hired[i] \in DOMAIN users /\ users[leads.hired[i]].department = department
    BY <2>1 DEF TeamInv, StaffInv, TeamLeads
  <2>8. \A i \in DOMAIN leads'.hired : users'[leads'.hired[i]].department = department'
    BY <2>1, <2>5, <2>6, <2>7
  <2> QED  BY <2>1, <2>5, <2>8 DEF TeamInv
<1> QED  BY <1>2, <1>3, <1>4, <1>5

\* Those who come under the manager are of his department, and the only manager
\* of the scenarios is he.
LEMMA TeamMoved ==
  ASSUME StaffInv, CastInv, Teamed, NEW m \in WithPersona("manager.engineering"), NEW moved, MovedTo(m, moved)
  PROVE  /\ Teamed'
         /\ \A p : WithPersona(p)' = WithPersona(p)
         /\ WithPersona("manager.engineering") = {m}
         /\ Reports(m)' = Reports(m) \cup moved
<1>1. /\ m \in DOMAIN users /\ m # Exec /\ users[m].department = "Engineering" /\ m # Nobody
      /\ DOMAIN users' = DOMAIN users
      /\ \A u \in DOMAIN users : /\ users'[u].department = users[u].department
                                 /\ users'[u].persona = users[u].persona
                                 /\ users'[u].manager = IF u \in moved THEN m ELSE users[u].manager
  BY Reassigned
<1>2. moved \in SUBSET DOMAIN users /\ \A u \in moved : users[u].department = "Engineering"
  BY DEF MovedTo
<1>3. \A u \in DOMAIN users : users[u].manager \notin {Nobody, Exec} => users[u].manager \in DOMAIN users
  BY DEF StaffInv, Answers
<1>4. Teamed'
  <2> SUFFICES ASSUME NEW u \in DOMAIN users, users'[u].manager \notin {Nobody, Exec}
               PROVE  users'[users'[u].manager].department = users'[u].department
    BY <1>1 DEF Teamed
  <2>1. CASE u \in moved
    BY <1>1, <1>2, <2>1
  <2>2. CASE u \notin moved
    <3>1. users'[u].manager = users[u].manager /\ users[u].manager \in DOMAIN users
      BY <1>1, <1>3, <2>2
    <3>2. users[users[u].manager].department = users[u].department
      BY <3>1 DEF Teamed
    <3> QED  BY <1>1, <3>1, <3>2
  <2> QED  BY <2>1, <2>2
<1>5. \A p : WithPersona(p)' = WithPersona(p)
  BY <1>1 DEF WithPersona
<1>6. WithPersona("manager.engineering") = {m}
  BY DEF WithPersona, CastInv, WellCast
<1>7. Reports(m)' = Reports(m) \cup moved
  BY <1>1, <1>2 DEF Reports
<1> QED  BY <1>4, <1>5, <1>6, <1>7

\* Where there are candidates enough, those who come make up for what is lacking.
LEMMA NearestEnough ==
  ASSUME StaffInv, NEW m \in DOMAIN users, ~ (Cardinality(Candidates(m)) < Lacking(m))
  PROVE  /\ IsFiniteSet(Reports(m) \cup Nearest(m))
         /\ Cardinality(Reports(m) \cup Nearest(m)) >= MIN_MANAGER_REPORTS
<1>1. /\ DOMAIN users = 1 .. Len(users) /\ Len(users) \in Nat /\ IsFiniteSet(DOMAIN users)
      /\ \A u \in DOMAIN users : users[u] \in Person
  BY MembersFinite, Row DEF StaffInv, StaffTyped
<1>2. /\ Reports(m) \in SUBSET DOMAIN users /\ Candidates(m) \in SUBSET DOMAIN users
      /\ Nearest(m) \in SUBSET Candidates(m) /\ Reports(m) \cap Nearest(m) = {}
  BY DEF Reports, Candidates, Nearest
<1>3. /\ IsFiniteSet(Reports(m)) /\ Cardinality(Reports(m)) \in Nat
      /\ IsFiniteSet(Candidates(m)) /\ Cardinality(Candidates(m)) \in Nat
      /\ IsFiniteSet(Nearest(m)) /\ Cardinality(Nearest(m)) \in Nat
  BY <1>1, <1>2, FS_Subset, FS_CardinalityType
<1>4. /\ IsFiniteSet(Reports(m) \cup Nearest(m))
      /\ Cardinality(Reports(m) \cup Nearest(m)) = Cardinality(Reports(m)) + Cardinality(Nearest(m))
  <2>1. /\ IsFiniteSet(Reports(m) \cup Nearest(m))
        /\ Cardinality(Reports(m) \cup Nearest(m))
             = Cardinality(Reports(m)) + Cardinality(Nearest(m)) - Cardinality(Reports(m) \cap Nearest(m))
    BY <1>3, FS_Union
  <2>2. Cardinality(Reports(m) \cap Nearest(m)) = 0
    BY <1>2, FS_EmptySet
  <2> QED  BY <1>3, <2>1, <2>2
<1>5. Lacking(m) = 3 - Cardinality(Reports(m)) /\ MIN_MANAGER_REPORTS = 3
  BY DEF Lacking, MIN_MANAGER_REPORTS
<1>6. CASE Lacking(m) <= 0
  BY <1>3, <1>4, <1>5, <1>6
<1>7. CASE ~ (Lacking(m) <= 0)
  <2>1. PICK n \in Nat : n = Lacking(m)
    BY <1>3, <1>5, <1>7
  <2>2. PICK S : S = Candidates(m)
    OBVIOUS
  <2> DEFINE key == [u \in S |-> IF users[u].is_manager THEN Len(users) + u ELSE u]
  <2>3. \A u \in S : key[u] \in Nat
    BY <1>1, <1>2, <2>2
  <2>4. \A u, v \in S : Precedes(v, u) <=> key[v] < key[u]
    <3> SUFFICES ASSUME NEW u \in S, NEW v \in S
                 PROVE  Precedes(v, u) <=> key[v] < key[u]
      OBVIOUS
    <3>1. /\ u \in 1 .. Len(users) /\ v \in 1 .. Len(users)
          /\ users[u].is_manager \in BOOLEAN /\ users[v].is_manager \in BOOLEAN
      BY <1>1, <1>2, <2>2 DEF Person
    <3>2. PICK a, b, ku, kv : /\ a = users[u].is_manager /\ b = users[v].is_manager
                              /\ ku = key[u] /\ kv = key[v]
      OBVIOUS
    <3>3. /\ a \in BOOLEAN /\ b \in BOOLEAN
          /\ ku = (IF a THEN Len(users) + u ELSE u) /\ kv = (IF b THEN Len(users) + v ELSE v)
      BY <3>1, <3>2
    <3>4. Precedes(v, u) <=> IF b = a THEN v < u ELSE a
      BY <3>2 DEF Precedes
    <3>5. (IF b = a THEN v < u ELSE a) <=> kv < ku
      BY <1>1, <3>1, <3>3
    <3> QED  BY <3>2, <3>4, <3>5
  <2> HIDE DEF key
  <2>5. Nearest(m) = {u \in S : Cardinality({v \in S : key[v] < key[u]}) < n}
    <3>1. \A u \in S : {v \in S : Precedes(v, u)} = {v \in S : key[v] < key[u]}
      BY <2>4
    <3> QED  BY <2>1, <2>2, <3>1 DEF Nearest
  <2>6. Cardinality(Nearest(m)) >= n
    <3>1. n <= Cardinality(S) /\ IsFiniteSet(S)
      BY <1>3, <2>1, <2>2
    <3>2. PICK k : k = key
      OBVIOUS
    <3> QED  BY <2>3, <2>5, <3>1, <3>2, FirstFew
  <2> QED  BY <1>3, <1>4, <1>5, <2>1, <2>6
<1> QED  BY <1>6, <1>7

LEMMA TeamKept ==
  ASSUME StaffInv, CastInv, TeamInv, [DataNext]_dataVars
  PROVE  TeamInv'
<1>1. CASE Refuse \/ Divide \/ Balance
  <2>1. stage' \in {"balance", "failed"} /\ UNCHANGED users
    BY <1>1 DEF Refuse, Divide, Balance
  <2> QED  BY <2>1 DEF TeamInv, Teamed
<1>2. CASE HireCEO \/ HireHead \/ HireLead \/ HireMember
  BY <1>2, TeamHires
<1>3. CASE NextDepartment
  <2>1. /\ UNCHANGED users /\ stage' \in {"head", "reports"}
        /\ stage' = "head" => leads'.hired = << >>
    BY <1>3 DEF NextDepartment, TakeUp
  <2> QED  BY <2>1 DEF TeamInv, Teamed
<1>4. CASE PairPersonas
  <2>1. PICK m \in WithPersona("manager.engineering") : MovedTo(m, WithPersona("employee.engineering"))
    BY <1>4, Paired
  <2>2. PICK moved : moved = WithPersona("employee.engineering")
    OBVIOUS
  <2>3. /\ Teamed' /\ (\A p : WithPersona(p)' = WithPersona(p))
        /\ WithPersona("manager.engineering") = {m} /\ Reports(m)' = Reports(m) \cup moved
    BY <2>1, <2>2, TeamMoved DEF TeamInv
  <2>4. stage' = "enough"
    BY <1>4 DEF PairPersonas
  <2>5. \A n \in WithPersona("manager.engineering")', e \in WithPersona("employee.engineering")' :
          users'[e].manager = n
    BY <2>2, <2>3 DEF Reports
  <2> QED  BY <2>3, <2>4, <2>5 DEF TeamInv
<1>5. CASE MoveReports
  <2>1. PICK m \in WithPersona("manager.engineering") :
            /\ MovedTo(m, Nearest(m))
            /\ stage' = IF Cardinality(Candidates(m)) < Lacking(m) THEN "failed" ELSE "built"
    BY <1>5, Moves
  <2>2. PICK moved : moved = Nearest(m)
    OBVIOUS
  <2>3. /\ Teamed' /\ (\A p : WithPersona(p)' = WithPersona(p))
        /\ WithPersona("manager.engineering") = {m} /\ Reports(m)' = Reports(m) \cup moved
    BY <2>1, <2>2, TeamMoved DEF TeamInv
  <2>4. stage = "enough"
    BY <1>5 DEF MoveReports
  <2>5. \A n \in WithPersona("manager.engineering")', e \in WithPersona("employee.engineering")' :
          users'[e].manager = n
    <3>1. \A e \in WithPersona("employee.engineering") : e \in Reports(m)
      BY <2>4 DEF TeamInv, WithPersona, Reports
    <3> QED  BY <2>3, <3>1 DEF Reports
  <2>6. CASE stage' = "failed"
    BY <2>3, <2>6 DEF TeamInv
  <2>7. CASE stage' = "built"
    <3>1. m \in DOMAIN users
      BY DEF WithPersona
    <3>2. ~ (Cardinality(Candidates(m)) < Lacking(m))
      BY <2>1, <2>7
    <3>3. Cardinality(Reports(m) \cup Nearest(m)) >= MIN_MANAGER_REPORTS
      BY <3>1, <3>2, NearestEnough
    <3>4. \A n \in WithPersona("manager.engineering")' : Cardinality(Reports(n)') >= MIN_MANAGER_REPORTS
      BY <2>2, <2>3, <3>3
    <3> QED  BY <2>3, <2>5, <2>7, <3>4 DEF TeamInv
  <2> QED  BY <2>1, <2>6, <2>7
<1>6. CASE NoManagerPersona
  <2>1. UNCHANGED users /\ stage' = "built" /\ WithPersona("manager.engineering")' = {}
    BY <1>6 DEF NoManagerPersona, WithPersona
  <2> QED  BY <2>1 DEF TeamInv, Teamed
<1>7. CASE Recording
  <2>1. Recorded
    BY <1>7, AllRecord DEF StaffInv, StaffTyped
  <2>2. UNCHANGED users /\ stage' \notin {"head", "staff", "enough", "built"}
    BY <2>1 DEF Recorded, RecordStages
  <2> QED  BY <2>2 DEF TeamInv, Teamed
<1>8. CASE UNCHANGED dataVars
  <2>1. UNCHANGED <<company, stage, turn, leads, users>>
    BY <1>8 DEF dataVars, staffVars, request, hiring
  <2>2. department' = department /\ (\A p : WithPersona(p)' = WithPersona(p)) /\ \A u : Reports(u)' = Reports(u)
    BY <2>1 DEF department, WithPersona, Reports
  <2> QED  BY <2>1, <2>2 DEF TeamInv, Teamed
<1>9. DataNext => Staff \/ Recording
  BY DEF DataNext, Recording
<1> QED
  BY <1>1, <1>2, <1>3, <1>4, <1>5, <1>6, <1>7, <1>8, <1>9 DEF Staff, StaffNext

-----------------------------------------------------------------------------
(* The crews: the members that follow the team leads come under them in    *)
(* turn, so that those of one lead are evenly spaced, and few.             *)

Spaced(s, from, step) == \A v \in s : \E j \in 0 .. 6 : v = from + step * j
Spread(s) == \E from, step \in Nat : Spaced(s, from, step)

\* How many members have followed the leads h.
Followed(h) == IF h = << >> THEN 0 ELSE Len(users) - Last(h)

\* The leads h, with some still due, come one after the other; then the members,
\* no more than seven for each lead.
Crew(h, due) ==
    /\ due + Len(h) > 0 => due + Len(h) <= 8 /\ left + Followed(h) <= 7 * (due + Len(h)) + due
    /\ Followed(h) >= 0 /\ (due > 0 => Followed(h) = 0)
    /\ \A i \in DOMAIN h :
        /\ h[i] = Last(h) - Len(h) + i /\ h[i] # heads[department]
        /\ due > 0 => Reports(h[i]) = {}
        /\ Spaced(Reports(h[i]), Last(h) + i, due + Len(h))

\* Who leads no department has a crew like that.
Manned(h) ==
    \A u \in DOMAIN users : users[u].is_manager /\ u \notin Range(heads) /\ u \notin Range(h) =>
        Spread(Reports(u))

CrewInv ==
    /\ stage # "staff" => Manned(<< >>)
    /\ stage = "staff" => Manned(leads.hired) /\ Crew(leads.hired, leads.due)

LEMMA LeadsEnough ==
  ASSUME NEW n \in Nat, n <= 64
  PROVE  LeadsDue(n) \in Nat /\ LeadsDue(n) <= 8 /\ (LeadsDue(n) > 0 => n <= 8 * LeadsDue(n))
  BY DEF LeadsDue

LEMMA Turns ==
  ASSUME NEW L \in 1 .. 8, NEW k \in Nat, k < 7 * L
  PROVE  k % L \in 0 .. L - 1 /\ \E j \in 0 .. 6 : k = L * j + (k % L)
<1>1. k % L \in 0 .. L - 1
  OBVIOUS
<1>2. \E j \in 0 .. 6 : k = L * j + (k % L)
  <2>1. CASE L = 1  BY <2>1
  <2>2. CASE L = 2  BY <2>2
  <2>3. CASE L = 3  BY <2>3
  <2>4. CASE L = 4  BY <2>4
  <2>5. CASE L = 5  BY <2>5
  <2>6. CASE L = 6  BY <2>6
  <2>7. CASE L = 7  BY <2>7
  <2>8. CASE L = 8  BY <2>8
  <2> QED  BY <2>1, <2>2, <2>3, <2>4, <2>5, <2>6, <2>7, <2>8
<1> QED  BY <1>1, <1>2

\* A set of that kind has no more than seven in it.
LEMMA SpreadFew ==
  ASSUME NEW s, Spread(s)
  PROVE  IsFiniteSet(s) /\ Cardinality(s) <= 7
<1>1. PICK from \in Nat, step \in Nat : Spaced(s, from, step)
  BY DEF Spread
<1> DEFINE t == {from + step * j : j \in 0 .. 6}
           f == [j \in 0 .. 6 |-> from + step * j]
<1>2. s \in SUBSET t
  BY <1>1 DEF Spaced
<1>3. f \in Surjection(0 .. 6, t)
  BY DEF Surjection
<1>4. IsFiniteSet(0 .. 6) /\ Cardinality(0 .. 6) = 7
  <2>1. 0 \in Int /\ 6 \in Int /\ ~ (0 > 6) /\ 6 - 0 + 1 = 7
    OBVIOUS
  <2>2. \A a, b \in Int : IsFiniteSet(a .. b) /\ Cardinality(a .. b) = IF a > b THEN 0 ELSE b - a + 1
    BY FS_Interval
  <2> QED  BY <2>1, <2>2
<1> HIDE DEF t, f
<1>5. IsFiniteSet(t) /\ Cardinality(t) <= 7
  BY <1>3, <1>4, FS_Surjection
<1>6. IsFiniteSet(s) /\ Cardinality(s) <= Cardinality(t)
  BY <1>2, <1>5, FS_Subset
<1> QED  BY <1>5, <1>6, FS_CardinalityType

\* Who is hired comes to the reports of one, and has none.
LEMMA ReportsHired ==
  ASSUME StaffInv, NEW d, NEW m \in {Nobody} \cup DOMAIN users, NEW manages, NEW p, NEW r, NEW n, n = Hired,
         Hire(d, m, manages, p, r)
  PROVE  /\ Joins(n, d, m, manages, p) /\ n \in Nat
         /\ \A u \in DOMAIN users : u # m => Reports(u)' = Reports(u)
         /\ \A u \in DOMAIN users : u = m => Reports(u)' = Reports(u) \cup {n}
         /\ Reports(n)' = {}
<1>1. Joins(n, d, m, manages, p)
  BY Joined DEF StaffInv, StaffTyped
<1>2. /\ DOMAIN users' = DOMAIN users \cup {n} /\ n \notin DOMAIN users /\ n \in Nat /\ n # Nobody
      /\ \A u \in DOMAIN users : users'[u] = users[u]
      /\ users'[n].manager = m
  BY <1>1 DEF Joins, Nobody
<1>3. \A u \in DOMAIN users : users[u].manager = Nobody \/ users[u].manager \in DOMAIN users
  BY DEF StaffInv, Answers
<1>4. \A u \in DOMAIN users : u # m => Reports(u)' = Reports(u)
  BY <1>2 DEF Reports
<1>5. \A u \in DOMAIN users : u = m => Reports(u)' = Reports(u) \cup {n}
  BY <1>2 DEF Reports
<1>6. Reports(n)' = {}
  <2>1. \A u \in DOMAIN users' : users'[u].manager # n
    BY <1>2, <1>3
  <2> QED  BY <2>1 DEF Reports
<1> QED  BY <1>1, <1>2, <1>4, <1>5, <1>6

\* The heads stay heads.
LEMMA HeadsStay ==
  ASSUME NEW d, NEW n, d \notin DOMAIN heads, heads' = With(heads, d, n)
  PROVE  Range(heads') = Range(heads) \cup {n}
<1>1. /\ DOMAIN heads' = DOMAIN heads \cup {d} /\ heads'[d] = n
      /\ \A e \in DOMAIN heads : heads'[e] = heads[e]
  BY DEF With
<1> QED  BY <1>1 DEF Range

\* Nothing comes to those who lead no department where the staff stays.
LEMMA MannedStays ==
  ASSUME NEW h, NEW k, Manned(h), \A u \in Range(h) : u \in Range(k) \/ Spread(Reports(u)'),
         DOMAIN users' = DOMAIN users, Range(heads') = Range(heads),
         \A u \in DOMAIN users : users'[u].is_manager = users[u].is_manager,
         \A u \in DOMAIN users : u \notin Range(heads) => Reports(u)' \subseteq Reports(u)
  PROVE  Manned(k)'
<1> SUFFICES ASSUME NEW u \in DOMAIN users, users[u].is_manager, u \notin Range(heads), u \notin Range(k)
             PROVE  Spread(Reports(u)')
  <2>1. \A s : Spread(s)' <=> Spread(s)
    BY DEF Spread, Spaced
  <2> QED  BY <2>1 DEF Manned
<1>1. CASE u \in Range(h)
  BY <1>1
<1>2. CASE u \notin Range(h)
  <2>1. Spread(Reports(u)) /\ Reports(u)' \subseteq Reports(u)
    BY <1>2 DEF Manned
  <2> QED  BY <2>1 DEF Spread, Spaced
<1> QED  BY <1>1, <1>2

\* A lead more: those who are there have nobody yet.
LEMMA CrewLed ==
  ASSUME StaffInv, CrewInv, HireLead
  PROVE  CrewInv'
<1>1. /\ stage = "staff" /\ stage' = "staff" /\ leads.due > 0
      /\ UNCHANGED <<company, total, counts, turn, heads>> /\ left' = left - 1
      /\ leads' = [due |-> leads.due - 1, hired |-> Append(leads.hired, Hired)]
      /\ Hire(department, heads[department], TRUE, "", RoleFor(department, ""))
  BY DEF HireLead, request
<1>2. /\ leads \in [due : Nat, hired : Seq(Nat)] /\ heads[department] \in DOMAIN users /\ TeamLeads
      /\ department \in DOMAIN heads /\ left \in Nat /\ users \in Seq(Person)
  BY <1>1, InTheMiddle, LeftToHire
<1>3. PICK d, m, manages, p, r : /\ d = department /\ m = heads[department] /\ manages = TRUE
                                 /\ p = "" /\ r = RoleFor(department, "")
  OBVIOUS
<1>4. PICK n : n = Hired
  OBVIOUS
<1>5. Hire(d, m, manages, p, r) /\ m \in {Nobody} \cup DOMAIN users
  BY <1>1, <1>2, <1>3
<1>6. /\ Joins(n, d, m, manages, p) /\ n \in Nat
      /\ \A u \in DOMAIN users : u # m => Reports(u)' = Reports(u)
      /\ Reports(n)' = {}
  BY <1>4, <1>5, ReportsHired
<1>7. /\ DOMAIN users = 1 .. Len(users) /\ Len(users) \in Nat /\ n = Len(users) + 1
      /\ DOMAIN users' = DOMAIN users \cup {n} /\ n \notin DOMAIN users
      /\ Len(users') = n
      /\ \A u \in DOMAIN users : users'[u] = users[u]
  BY <1>6 DEF Joins
<1>8. PICK h : h = leads.hired
  OBVIOUS
<1>9. PICK due \in Nat : due = leads.due
  BY <1>2
<1>10. PICK k : k = Append(h, n)
  OBVIOUS
<1>11. h \in Seq(Nat) /\ Len(h) \in Nat /\ DOMAIN h = 1 .. Len(h)
  BY <1>2, <1>8, Row
<1>12. /\ k \in Seq(Nat) /\ k # << >> /\ Len(k) = Len(h) + 1 /\ DOMAIN k = 1 .. Len(h) + 1
       /\ k[Len(h) + 1] = n
       /\ \A i \in 1 .. Len(h) : k[i] = h[i]
  BY <1>6, <1>10, <1>11, Longer
<1>13. leads'.hired = k /\ leads'.due = due - 1 /\ due > 0
  BY <1>1, <1>4, <1>8, <1>9, <1>10
<1>14. Crew(h, due) /\ Manned(h)
  BY <1>1, <1>8, <1>9 DEF CrewInv
<1>15. \A i \in DOMAIN h : h[i] \in DOMAIN users /\ h[i] # m
  BY <1>2, <1>3, <1>8, <1>14 DEF TeamLeads, Crew
<1>16. Last(k) = n
  BY <1>12 DEF Last
<1>17. h # << >> => Last(h) = Len(users)
  <2>1. h # << >> => Last(h) = h[Len(h)] /\ Len(h) \in DOMAIN h
    BY <1>11, Row DEF Last
  <2>2. h # << >> => Last(h) \in Nat
    BY <1>7, <1>15, <2>1
  <2>3. h # << >> => Len(users) - Last(h) = 0
    BY <1>13, <1>14 DEF Crew, Followed
  <2> QED  BY <1>7, <2>2, <2>3
<1>18. Followed(h) = 0 /\ Followed(k)' = 0
  <2>1. Followed(k)' = Len(users') - Last(k)
    BY <1>12 DEF Followed
  <2> QED  BY <1>6, <1>7, <1>13, <1>14, <1>16, <2>1 DEF Crew
<1>19. Crew(k, due - 1)'
  <2>1. department' = department
    BY <1>1 DEF department
  <2>2. ASSUME NEW i \in DOMAIN k
        PROVE  /\ k[i] = n - Len(k) + i /\ k[i] # m
               /\ Reports(k[i])' = {}
    <3>1. CASE i = Len(h) + 1
      <4>1. k[i] = n
        BY <1>12, <3>1
      <4>2. n = n - Len(k) + i
        BY <1>6, <1>11, <1>12, <3>1
      <4>3. n # m
        BY <1>2, <1>3, <1>7
      <4> QED  BY <1>6, <4>1, <4>2, <4>3
    <3>2. CASE i \in 1 .. Len(h)
      <4>1. k[i] = h[i] /\ h[i] \in DOMAIN users /\ h[i] # m
        BY <1>11, <1>12, <1>15, <3>2
      <4>2. h[i] = Last(h) - Len(h) + i /\ Reports(h[i]) = {}
        BY <1>11, <1>13, <1>14, <3>2 DEF Crew
      <4>3. h # << >>
        BY <1>11, <3>2
      <4>4. h[i] = Len(users) - Len(h) + i
        BY <1>17, <4>2, <4>3
      <4>5. Len(users) - Len(h) + i = n - Len(k) + i
        BY <1>7, <1>11, <1>12, <3>2
      <4> QED  BY <1>6, <4>1, <4>2, <4>4, <4>5
    <3> QED  BY <1>11, <1>12, <3>1, <3>2
  <2>3. /\ due + Len(h) > 0 /\ due + Len(h) <= 8 /\ left <= 7 * (due + Len(h)) + due
    BY <1>2, <1>11, <1>13, <1>14, <1>18 DEF Crew
  <2>4. due - 1 + Len(k) > 0 => due - 1 + Len(k) <= 8 /\ left' + 0 <= 7 * (due - 1 + Len(k)) + (due - 1)
    <3>1. due - 1 + Len(k) = due + Len(h) /\ due + Len(h) \in Nat
      BY <1>11, <1>12
    <3>2. left' + 0 <= 7 * (due + Len(h)) + (due - 1)
      <4>1. PICK c \in Nat : c = due + Len(h)
        BY <3>1
      <4>2. PICK l \in Nat : l = left
        BY <1>2
      <4>3. left' = l - 1
        BY <1>1, <4>2
      <4>4. l <= 7 * c + due
        BY <2>3, <4>1, <4>2
      <4>5. l - 1 + 0 <= 7 * c + (due - 1)
        BY <4>4
      <4> QED  BY <4>1, <4>3, <4>5
    <3> QED  BY <2>3, <3>1, <3>2
  <2>5. \A i \in DOMAIN k : Spaced(Reports(k[i])', Last(k) + i, due - 1 + Len(k))
    BY <2>2 DEF Spaced
  <2>6. \A i \in DOMAIN k : /\ k[i] = Last(k) - Len(k) + i /\ k[i] # heads'[department']
                            /\ due - 1 > 0 => Reports(k[i])' = {}
                            /\ Spaced(Reports(k[i]), Last(k) + i, due - 1 + Len(k))'
    <3>1. \A i : Spaced(Reports(k[i])', Last(k) + i, due - 1 + Len(k))
                    => Spaced(Reports(k[i]), Last(k) + i, due - 1 + Len(k))'
      BY DEF Spaced
    <3> QED  BY <1>1, <1>3, <1>16, <2>1, <2>2, <2>5, <3>1
  <2> QED  BY <1>18, <2>4, <2>6 DEF Crew
<1>20. Manned(k)'
  <2>1. ASSUME NEW u \in DOMAIN users', users'[u].is_manager, u \notin Range(heads), u \notin Range(k)
        PROVE  Spread(Reports(u)')
    <3>1. n \in Range(k) /\ Range(h) \subseteq Range(k)
      BY <1>11, <1>12 DEF Range
    <3>2. u \in DOMAIN users /\ users[u].is_manager /\ u \notin Range(h)
      BY <1>7, <2>1, <3>1
    <3>3. m \in Range(heads)
      BY <1>2, <1>3 DEF Range
    <3>4. Reports(u)' = Reports(u)
      BY <1>6, <2>1, <3>2, <3>3
    <3>5. Spread(Reports(u))
      BY <1>14, <2>1, <3>2 DEF Manned
    <3> QED  BY <3>4, <3>5
  <2>2. \A s : Spread(s)' <=> Spread(s)
    BY DEF Spread, Spaced
  <2>3. \A u : Spread(Reports(u)') => Spread(Reports(u))'
    BY DEF Spread, Spaced
  <2> QED  BY <1>1, <2>1, <2>3 DEF Manned
<1> QED  BY <1>1, <1>13, <1>19, <1>20 DEF CrewInv

\* A member more: the next lead in turn gets them, or the head.
LEMMA CrewJoined ==
  ASSUME StaffInv, CrewInv, HireMember
  PROVE  CrewInv'
<1>1. /\ stage = "staff" /\ stage' = "staff" /\ leads.due = 0 /\ left > 0
      /\ UNCHANGED <<company, total, counts, turn, heads, leads>> /\ left' = left - 1
      /\ Hire(department, ManagerOfNext, FALSE, FirstPersona, RoleFor(department, FirstPersona))
  BY DEF HireMember, request
<1>2. /\ leads \in [due : Nat, hired : Seq(Nat)] /\ heads[department] \in DOMAIN users /\ TeamLeads
      /\ department \in DOMAIN heads /\ left \in Nat /\ users \in Seq(Person)
  BY <1>1, InTheMiddle, LeftToHire
<1>3. PICK d, m, manages, p, r : /\ d = department /\ m = ManagerOfNext /\ manages = FALSE
                                 /\ p = FirstPersona /\ r = RoleFor(department, FirstPersona)
  OBVIOUS
<1>4. PICK n : n = Hired
  OBVIOUS
<1>5. Hire(d, m, manages, p, r) /\ m \in {Nobody} \cup DOMAIN users
  BY <1>1, <1>3, SomebodyLeads
<1>6. /\ Joins(n, d, m, manages, p) /\ n \in Nat
      /\ \A u \in DOMAIN users : u # m => Reports(u)' = Reports(u)
      /\ \A u \in DOMAIN users : u = m => Reports(u)' = Reports(u) \cup {n}
  BY <1>4, <1>5, ReportsHired
<1>7. /\ DOMAIN users = 1 .. Len(users) /\ Len(users) \in Nat /\ n = Len(users) + 1
      /\ DOMAIN users' = DOMAIN users \cup {n} /\ n \notin DOMAIN users
      /\ Len(users') = n /\ users'[n].is_manager = manages
      /\ \A u \in DOMAIN users : users'[u] = users[u]
  BY <1>6 DEF Joins
<1>8. PICK h : h = leads.hired
  OBVIOUS
<1>9. h \in Seq(Nat) /\ Len(h) \in Nat /\ DOMAIN h = 1 .. Len(h) /\ (h # << >> => Len(h) > 0)
  BY <1>2, <1>8, Row
<1>10. Crew(h, 0) /\ Manned(h)
  BY <1>1, <1>8 DEF CrewInv
<1>11. \A i \in DOMAIN h : h[i] \in DOMAIN users /\ h[i] # heads[department]
  BY <1>2, <1>8, <1>10 DEF TeamLeads, Crew
<1>12. m = IF h = << >> THEN heads[department] ELSE h[((Len(users) - Last(h)) % Len(h)) + 1]
  BY <1>3, <1>8 DEF ManagerOfNext
<1>13. leads'.hired = h /\ leads'.due = 0 /\ heads' = heads /\ department' = department
  BY <1>1, <1>8 DEF department
<1>14. m \in Range(h) \cup Range(heads)
  <2>1. CASE h = << >>
    BY <1>2, <1>12, <2>1 DEF Range
  <2>2. CASE h # << >>
    <3>1. Last(h) \in Nat
      BY <1>7, <1>9, <1>11, <2>2 DEF Last
    <3>2. ((Len(users) - Last(h)) % Len(h)) + 1 \in DOMAIN h
      BY <1>7, <1>9, <2>2, <3>1
    <3> QED  BY <1>12, <2>2, <3>2 DEF Range
  <2> QED  BY <2>1, <2>2
<1>15. Manned(h)'
  <2>1. ASSUME NEW u \in DOMAIN users', users'[u].is_manager, u \notin Range(heads), u \notin Range(h)
        PROVE  Spread(Reports(u)')
    <3>1. u \in DOMAIN users /\ users[u].is_manager
      BY <1>3, <1>7, <2>1
    <3>2. Reports(u)' = Reports(u)
      BY <1>6, <1>14, <2>1, <3>1
    <3> QED  BY <1>10, <2>1, <3>1, <3>2 DEF Manned
  <2>2. \A u : Spread(Reports(u)') => Spread(Reports(u))'
    BY DEF Spread, Spaced
  <2> QED  BY <1>13, <2>1, <2>2 DEF Manned
<1>16. CASE h = << >>
  <2>1. Len(h) = 0 /\ \A i : i \notin DOMAIN h
    BY <1>9, <1>16
  <2>2. Followed(h)' = 0
    BY <1>16 DEF Followed
  <2>3. Crew(h, 0)'
    BY <2>1, <2>2 DEF Crew
  <2> QED  BY <1>1, <1>13, <1>15, <2>3 DEF CrewInv
<1>17. CASE h # << >>
  <2>1. Len(h) \in Nat \ {0} /\ Len(h) \in DOMAIN h /\ Last(h) = h[Len(h)] /\ Last(h) \in DOMAIN users
    BY <1>9, <1>11, <1>17 DEF Last
  <2>2. PICK L \in Nat : L = Len(h)
    BY <2>1
  <2>3. PICK z \in Nat : z = Last(h)
    BY <1>7, <2>1
  <2>4. PICK k \in Nat : k = Len(users) - z
    BY <1>7, <2>1, <2>3
  <2>5. Followed(h) = k /\ n = z + k + 1
    BY <1>7, <1>17, <2>3, <2>4 DEF Followed
  <2>6. L \in 1 .. 8 /\ left + k <= 7 * L
    <3>1. 0 + Len(h) > 0 => 0 + Len(h) <= 8 /\ left + Followed(h) <= 7 * (0 + Len(h)) + 0
      BY <1>10 DEF Crew
    <3>2. L > 0 => L <= 8 /\ left + k <= 7 * L
      BY <2>2, <2>5, <3>1
    <3>3. L > 0
      BY <2>1, <2>2
    <3> QED  BY <3>2, <3>3
  <2>7. k < 7 * L
    <3>1. left \in Nat /\ left > 0
      BY <1>1, <1>2
    <3> QED  BY <2>6, <3>1
  <2>8. PICK a : a = k % L
    OBVIOUS
  <2>9. a \in 0 .. L - 1 /\ \E j \in 0 .. 6 : k = L * j + a
    BY <2>6, <2>7, <2>8, Turns
  <2>10. PICK j \in 0 .. 6 : k = L * j + a
    BY <2>9
  <2>11. n = z + (a + 1) + L * j
    <3>1. L * j \in Nat
      BY <2>2, <2>10
    <3> QED  BY <2>5, <2>9, <2>10, <3>1
  <2>12. m = h[a + 1]
    BY <1>12, <1>17, <2>2, <2>3, <2>4, <2>8
  <2>13. \A i \in DOMAIN h : h[i] = z - L + i
    BY <1>10, <2>2, <2>3 DEF Crew
  <2>14. \A i \in DOMAIN h : Spaced(Reports(h[i]), z + i, L)
    <3>1. \A i \in DOMAIN h : Spaced(Reports(h[i]), Last(h) + i, 0 + Len(h))
      BY <1>10 DEF Crew
    <3> QED  BY <2>2, <2>3, <3>1
  <2>15. ASSUME NEW i \in DOMAIN h
         PROVE  Spaced(Reports(h[i])', z + i, L)
    <3>1. CASE i = a + 1
      <4>1. Reports(h[i])' = Reports(h[i]) \cup {n}
        BY <1>6, <1>11, <2>12, <3>1
      <4>2. n = z + i + L * j
        BY <2>11, <3>1
      <4>3. Spaced(Reports(h[i]), z + i, L)
        BY <2>14
      <4> QED  BY <2>10, <4>1, <4>2, <4>3 DEF Spaced
    <3>2. CASE i # a + 1
      <4>1. i \in Nat /\ a + 1 \in DOMAIN h /\ a \in Nat
        BY <1>9, <2>2, <2>9
      <4>2. h[i] = z - L + i /\ h[a + 1] = z - L + (a + 1)
        BY <2>13, <4>1
      <4>3. h[i] # h[a + 1]
        BY <2>2, <2>3, <3>2, <4>1, <4>2
      <4>4. Reports(h[i])' = Reports(h[i])
        BY <1>6, <1>11, <2>12, <4>3
      <4> QED  BY <2>14, <4>4
    <3> QED  BY <3>1, <3>2
  <2>16. Followed(h)' = k + 1 /\ left' + (k + 1) <= 7 * L
    <3>1. Followed(h)' = Len(users') - Last(h)
      BY <1>17 DEF Followed
    <3>2. Followed(h)' = k + 1
      BY <1>7, <2>3, <2>5, <3>1
    <3> QED  BY <1>1, <1>2, <2>6, <3>2
  <2>17. Crew(h, 0)'
    <3>1. 0 + Len(h) > 0 => 0 + Len(h) <= 8 /\ left' + Followed(h)' <= 7 * (0 + Len(h)) + 0
      <4>1. 0 + Len(h) = L
        BY <2>1, <2>2
      <4>2. L <= 8 /\ left' + Followed(h)' <= 7 * L
        BY <2>6, <2>16
      <4>3. 7 * L + 0 = 7 * L
        OBVIOUS
      <4> QED  BY <4>1, <4>2, <4>3
    <3>2. Followed(h)' >= 0
      BY <2>16
    <3>3. \A i \in DOMAIN h : Spaced(Reports(h[i]), Last(h) + i, 0 + Len(h))'
      <4>1. \A i \in DOMAIN h : Spaced(Reports(h[i])', Last(h) + i, 0 + Len(h))
        BY <2>2, <2>3, <2>15
      <4>2. \A i : Spaced(Reports(h[i])', Last(h) + i, 0 + Len(h))
                     => Spaced(Reports(h[i]), Last(h) + i, 0 + Len(h))'
        BY DEF Spaced
      <4> QED  BY <4>1, <4>2
    <3>4. \A i \in DOMAIN h : h[i] = Last(h) - Len(h) + i /\ h[i] # heads'[department']
      BY <1>10, <1>13 DEF Crew
    <3> QED  BY <3>1, <3>2, <3>3, <3>4 DEF Crew
  <2> QED  BY <1>1, <1>13, <1>15, <2>17 DEF CrewInv
<1> QED  BY <1>16, <1>17

\* There are leads enough for the department that gets its head.
LEMMA CrewBegins ==
  ASSUME StaffInv, AllocationInv, CastInv, TeamInv, CrewInv, HireHead
  PROVE  CrewInv'
<1>1. /\ stage = "head" /\ stage' = "staff" /\ left > 0
      /\ UNCHANGED <<company, total, counts, turn>>
  BY DEF HireHead, request
<1>2. /\ StaffTyped /\ leads \in [due : Nat, hired : Seq(Nat)] /\ leads.hired = << >>
      /\ left \in Nat /\ department \in Range(keys) /\ total \in Nat
      /\ counts \in [Range(keys) -> 1 .. total]
  BY <1>1, InHandOne, LeftToHire DEF StaffInv, StaffTyped, TeamInv
<1>3. counts[department] \in Nat /\ counts[department] <= 65
  <2>1. counts[department] \in 1 .. total
    BY <1>2
  <2>2. counts[department] <= AtLeastOne(Portion(department)) + 1
    BY <1>1, <1>2 DEF AllocationInv
  <2>3. Portion(department) \in Nat /\ Portion(department) <= 64
    BY <1>2, Portions
  <2> QED  BY <1>2, <2>1, <2>2, <2>3 DEF AtLeastOne
<1>4. left = counts[department] - (IF department = Executive THEN 1 ELSE 0)
  BY <1>1 DEF CastInv
<1>5. Manned(<< >>)
  BY <1>1 DEF CrewInv
<1>6. /\ Executive \in DOMAIN heads /\ heads[Executive] = Exec
      /\ department \in DOMAIN heads => department = Executive
  <2>1. turn \in turn .. Len(keys) /\ department = Alphabetical[company][turn]
    BY <1>2, Places DEF StaffTyped, department
  <2> QED  BY <1>1, <2>1 DEF StaffInv, Headed
<1>7. \A i : i \notin DOMAIN << >> /\ i \notin Range(<< >>)
  BY DEF Range
<1>8. ASSUME NEW rest \in Nat, rest <= 64, left' = rest, NEW due, due = LeadsDue(rest)
      PROVE  Crew(<< >>, due)'
  <2>2. due \in Nat /\ due <= 8 /\ (due > 0 => rest <= 8 * due)
    BY <1>8, LeadsEnough
  <2>3. Len(<< >>) = 0
    OBVIOUS
  <2>4. Followed(<< >>)' = 0
    BY DEF Followed
  <2>5. due + 0 > 0 => due + 0 <= 8 /\ rest + 0 <= 7 * (due + 0) + due
    BY <2>2
  <2> QED  BY <1>7, <1>8, <2>3, <2>4, <2>5 DEF Crew
<1>9. CASE department \in DOMAIN heads
  <2>1. /\ UNCHANGED <<users, heads, left>> /\ leads' = [leads EXCEPT !.due = LeadsDue(left)]
    BY <1>9 DEF HireHead
  <2>2. leads'.due = LeadsDue(left) /\ leads'.hired = << >>
    BY <1>2, <2>1
  <2>3. left <= 64
    BY <1>2, <1>3, <1>4, <1>6, <1>9
  <2>4. PICK due : due = LeadsDue(left)
    OBVIOUS
  <2>6. Crew(<< >>, due)'
    BY <1>2, <1>8, <2>1, <2>3, <2>4
  <2>5. Manned(<< >>)'
    BY <1>5, <2>1 DEF Manned, Spread, Spaced, Reports
  <2> QED  BY <1>1, <2>2, <2>4, <2>5, <2>6 DEF CrewInv
<1>10. CASE department \notin DOMAIN heads
  <2>1. /\ Hire(department, Exec, TRUE, FirstPersona, RoleFor(department, FirstPersona))
        /\ heads' = With(heads, department, Hired) /\ left' = left - 1
        /\ leads' = [leads EXCEPT !.due = LeadsDue(left - 1)]
    BY <1>10 DEF HireHead
  <2>2. leads'.due = LeadsDue(left - 1) /\ leads'.hired = << >>
    BY <1>2, <2>1
  <2>3. left - 1 \in Nat /\ left - 1 <= 64
    BY <1>1, <1>2, <1>3, <1>4, <1>6, <1>10
  <2>4. PICK due, rest : rest = left - 1 /\ due = LeadsDue(rest)
    OBVIOUS
  <2>12. Crew(<< >>, due)'
    BY <1>8, <2>1, <2>3, <2>4
  <2>5. PICK d, m, manages, p, r : /\ d = department /\ m = Exec /\ manages = TRUE
                                   /\ p = FirstPersona /\ r = RoleFor(department, FirstPersona)
    OBVIOUS
  <2>6. PICK n : n = Hired
    OBVIOUS
  <2>7. Hire(d, m, manages, p, r) /\ m \in {Nobody} \cup DOMAIN users
    <3>1. Exec \in DOMAIN users
      BY <1>6 DEF StaffInv, Leads
    <3> QED  BY <2>1, <2>5, <3>1
  <2>8. /\ Joins(n, d, m, manages, p)
        /\ \A u \in DOMAIN users : u # m => Reports(u)' = Reports(u)
    BY <2>6, <2>7, ReportsHired
  <2>9. /\ DOMAIN users' = DOMAIN users \cup {n} /\ \A u \in DOMAIN users : users'[u] = users[u]
    BY <2>8 DEF Joins
  <2>10. Range(heads') = Range(heads) \cup {n} /\ m \in Range(heads)
    <3>1. Range(heads') = Range(heads) \cup {n}
      BY <1>10, <2>1, <2>6, HeadsStay
    <3> QED  BY <1>6, <2>5, <3>1 DEF Range
  <2>11. Manned(<< >>)'
    <3>1. ASSUME NEW u \in DOMAIN users', users'[u].is_manager, u \notin Range(heads')
          PROVE  Spread(Reports(u)')
      <4>1. u \in DOMAIN users /\ users[u].is_manager /\ u \notin Range(heads) /\ u # m
        BY <2>9, <2>10, <3>1
      <4> QED  BY <1>5, <1>7, <2>8, <4>1 DEF Manned
    <3>2. \A u : Spread(Reports(u)') => Spread(Reports(u))'
      BY DEF Spread, Spaced
    <3> QED  BY <3>1, <3>2 DEF Manned
  <2> QED  BY <1>1, <2>2, <2>4, <2>11, <2>12 DEF CrewInv
<1> QED  BY <1>9, <1>10

\* The first one leads the Executive.
LEMMA CrewFirst ==
  ASSUME StaffInv, HireCEO
  PROVE  CrewInv'
<1>1. /\ stage = "balance" /\ stage' = "head" /\ heads' = With(heads, Executive, Exec)
      /\ Hire(Executive, Nobody, TRUE, IF Administrated THEN "admin.company" ELSE "", "Company Admin")
  BY DEF HireCEO
<1>2. users = << >> /\ heads = << >> /\ users \in Seq(Person)
  BY <1>1 DEF StaffInv, Headed, StaffTyped
<1>3. PICK d, m, manages, p, r : /\ d = Executive /\ m = Nobody /\ manages = TRUE
                                 /\ p = (IF Administrated THEN "admin.company" ELSE "")
                                 /\ r = "Company Admin"
  OBVIOUS
<1>4. PICK n : n = Hired
  OBVIOUS
<1>5. Joins(n, d, m, manages, p)
  BY <1>1, <1>2, <1>3, <1>4, Joined
<1>6. n = 1 /\ DOMAIN users' = {1}
  <2>1. Len(users) = 0
    BY <1>2
  <2>2. DOMAIN users = {}
    BY <1>2, <2>1, Row
  <2> QED  BY <1>5, <2>1, <2>2 DEF Joins
<1>7. Exec \in Range(heads')
  <2>1. Executive \in DOMAIN heads' /\ heads'[Executive] = Exec
    BY <1>1 DEF With
  <2> QED  BY <2>1 DEF Range
<1> QED  BY <1>1, <1>6, <1>7 DEF CrewInv, Manned, Exec

LEMMA CrewKept ==
  ASSUME StaffInv, AllocationInv, CastInv, TeamInv, CrewInv, [DataNext]_dataVars
  PROVE  CrewInv'
<1>1. ASSUME UNCHANGED <<users, heads>>, stage # "staff" \/ (stage = "staff" /\ stage' # "staff"),
             stage' # "staff"
      PROVE  CrewInv'
  <2>1. ASSUME NEW u \in DOMAIN users, users[u].is_manager, u \notin Range(heads)
        PROVE  Spread(Reports(u))
    <3>0. \A x : x \notin Range(<< >>)
      BY DEF Range
    <3>1. CASE stage # "staff"
      BY <2>1, <3>0, <3>1 DEF CrewInv, Manned
    <3>2. CASE stage = "staff" /\ u \notin Range(leads.hired)
      BY <2>1, <3>2 DEF CrewInv, Manned
    <3>3. CASE stage = "staff" /\ u \in Range(leads.hired)
      <4>1. PICK h : h = leads.hired
        OBVIOUS
      <4>2. h \in Seq(Nat) /\ leads.due \in Nat
        BY <4>1 DEF StaffInv, StaffTyped
      <4>3. PICK i \in DOMAIN h : h[i] = u
        BY <3>3, <4>1 DEF Range
      <4>4. Spaced(Reports(u), Last(h) + i, leads.due + Len(h))
        BY <3>3, <4>1, <4>3 DEF CrewInv, Crew
      <4>5. Last(h) + i \in Nat /\ leads.due + Len(h) \in Nat
        <5>1. DOMAIN h = 1 .. Len(h) /\ Len(h) \in Nat
          BY <4>2, Row
        <5>2. Len(h) \in DOMAIN h
          BY <4>3, <5>1
        <5>3. Last(h) \in Nat
          BY <4>2, <5>2, Row DEF Last
        <5> QED  BY <4>2, <4>3, <5>1, <5>3
      <4> QED  BY <4>4, <4>5 DEF Spread
    <3> QED  BY <3>1, <3>2, <3>3
  <2>2. \A u : Spread(Reports(u)) => Spread(Reports(u))'
    BY <1>1 DEF Spread, Spaced, Reports
  <2>3. Manned(<< >>)'
    BY <1>1, <2>1, <2>2 DEF Manned
  <2> QED  BY <1>1, <2>3 DEF CrewInv
<1>2. CASE Refuse \/ Divide \/ Balance \/ NextDepartment \/ NoManagerPersona
  <2>1. UNCHANGED <<users, heads>> /\ stage' # "staff"
    BY <1>2 DEF Refuse, Divide, Balance, NextDepartment, NoManagerPersona
  <2> QED  BY <1>1, <2>1
<1>3. CASE HireCEO
  BY <1>3, CrewFirst
<1>4. CASE HireHead
  BY <1>4, CrewBegins
<1>5. CASE HireLead
  BY <1>5, CrewLed
<1>6. CASE HireMember
  BY <1>6, CrewJoined
<1>7. CASE PairPersonas \/ MoveReports
  <2>1. PICK m \in WithPersona("manager.engineering") : \E moved : MovedTo(m, moved)
    BY <1>7, Paired, Moves
  <2>2. PICK moved : MovedTo(m, moved)
    BY <2>1
  <2>3. /\ DOMAIN users' = DOMAIN users /\ "Engineering" \in DOMAIN heads /\ heads["Engineering"] = m
        /\ \A u \in DOMAIN users : /\ users'[u].is_manager = users[u].is_manager
                                   /\ users'[u].manager = IF u \in moved THEN m ELSE users[u].manager
    BY <2>2, Reassigned
  <2>4. heads' = heads /\ stage \in {"reports", "enough"} /\ stage' \in {"enough", "built", "failed"}
    BY <1>7 DEF PairPersonas, MoveReports
  <2>5. m \in Range(heads)
    BY <2>3 DEF Range
  <2>6. \A u \in DOMAIN users : u \notin Range(heads) => Reports(u)' \subseteq Reports(u)
    BY <2>3, <2>5 DEF Reports
  <2>7. Manned(<< >>) /\ \A x : x \notin Range(<< >>)
    BY <2>4 DEF CrewInv, Range
  <2>8. Manned(<< >>)'
    BY <2>3, <2>4, <2>6, <2>7, MannedStays
  <2> QED  BY <2>4, <2>8 DEF CrewInv
<1>8. CASE Recording
  <2>1. Recorded
    BY <1>8, AllRecord DEF StaffInv, StaffTyped
  <2> QED  BY <1>1, <2>1 DEF Recorded, RecordStages
<1>9. CASE UNCHANGED dataVars
  <2>1. UNCHANGED <<company, stage, turn, left, leads, users, heads>>
    BY <1>9 DEF dataVars, staffVars, request, hiring
  <2>2. department' = department
    BY <2>1 DEF department
  <2>3. \A h : Manned(h)' = Manned(h)
    BY <2>1 DEF Manned, Spread, Spaced, Reports
  <2>4. \A h, due : Crew(h, due)' = Crew(h, due)
    BY <2>1, <2>2 DEF Crew, Spaced, Reports, Followed
  <2>5. CrewInv' = CrewInv
    BY <2>1, <2>3, <2>4 DEF CrewInv
  <2> QED  BY <2>5
<1>10. DataNext => Staff \/ Recording
  BY DEF DataNext, Recording
<1> QED
  BY <1>2, <1>3, <1>4, <1>5, <1>6, <1>7, <1>8, <1>9, <1>10 DEF Staff, StaffNext

-----------------------------------------------------------------------------
(* The end of it: enough people to move, everybody on stage, and no way to *)
(* fail.                                                                   *)

\* Where the floor was asked for, Engineering has the people its manager lacks.
LEMMA CandidatesEnough ==
  ASSUME StaffInv, CountInv, AllocationInv, CastInv, TeamInv, stage = "enough", total >= Floor,
         NEW m \in WithPersona("manager.engineering")
  PROVE  ~ (Cardinality(Candidates(m)) < Lacking(m))
<1> DEFINE d == "Engineering"  M == Members(d)  R == Reports(m)  C == Candidates(m)
<1>1. /\ StaffTyped /\ users \in Seq(Person) /\ DOMAIN users = 1 .. Len(users) /\ Len(users) \in Nat
      /\ \A u \in DOMAIN users : users[u] \in Person
  BY Row DEF StaffInv, StaffTyped
<1>2. m \in DOMAIN users /\ users[m].persona = "manager.engineering"
  BY DEF WithPersona
<1>3. users[m].department = d
  BY <1>2 DEF StaffInv, Carries
<1>4. d \in Range(keys)
  BY <1>1, <1>2, <1>3 DEF Person
<1>5. Cardinality(M) >= 4
  <2>1. Cardinality(M) = counts[d]
    BY <1>4 DEF CountInv
  <2>2. counts[d] >= Portion(d)
    BY <1>4 DEF AllocationInv
  <2>3. Portion(d) \in Nat /\ Portion(d) >= 4
    BY <1>1, <1>4, Portions
  <2>4. Cardinality(M) \in Nat
    BY <1>1, MembersFinite
  <2> QED  BY <2>1, <2>2, <2>3, <2>4
<1>6. M \in SUBSET ({m} \cup (R \cup C))
  <2> SUFFICES ASSUME NEW u \in M, u # m, u \notin R
               PROVE  u \in C
    OBVIOUS
  <2>1. u \in DOMAIN users /\ users[u].department = d
    BY DEF Members
  <2>2. users[u].persona = ""
    <3>1. CASE users[u].persona = "manager.engineering"
      BY <1>2, <2>1, <3>1 DEF CastInv, WellCast
    <3>2. CASE users[u].persona = "employee.engineering"
      <4>1. u \in WithPersona("employee.engineering")
        BY <2>1, <3>2 DEF WithPersona
      <4> QED  BY <2>1, <4>1 DEF TeamInv, Reports
    <3>3. \A x \in Cast(d) : x \in {"manager.engineering", "employee.engineering"}
      <4>1. Personas[company][d] \in {<< >>, <<"manager.engineering", "employee.engineering">>}
        BY <1>1, <1>4, Casting
      <4>2. \A x : x \notin Range(<< >>)
        BY DEF Range
      <4>3. \A x \in Range(<<"manager.engineering", "employee.engineering">>) :
              x \in {"manager.engineering", "employee.engineering"}
        BY DEF Range
      <4> QED  BY <4>1, <4>2, <4>3 DEF Cast
    <3>4. users[u].persona # "" => users[u].persona \in Cast(d)
      BY <2>1 DEF CastInv, WellCast
    <3> QED  BY <3>1, <3>2, <3>3, <3>4
  <2>3. users[u].manager # Nobody
    <3>1. users[u].manager = Nobody => u = Exec
      BY <2>1 DEF StaffInv, Answers
    <3>2. users[Exec].department = Executive
      <4>1. Executive \in DOMAIN heads /\ heads[Executive] = Exec
        BY DEF StaffInv, Headed
      <4> QED  BY <4>1 DEF StaffInv, Leads
    <3> QED  BY <2>1, <3>1, <3>2 DEF Executive
  <2> QED  BY <1>3, <2>1, <2>2, <2>3 DEF Candidates
<1>7. R \in SUBSET DOMAIN users /\ C \in SUBSET DOMAIN users /\ IsFiniteSet(DOMAIN users)
  BY <1>1, MembersFinite DEF Reports, Candidates
<1>8. Lacking(m) = 3 - Cardinality(R)
  BY DEF Lacking, MIN_MANAGER_REPORTS
<1> HIDE DEF M, R, C
<1>9. /\ IsFiniteSet(R) /\ Cardinality(R) \in Nat /\ IsFiniteSet(C) /\ Cardinality(C) \in Nat
  BY <1>7, FS_Subset, FS_CardinalityType
<1>10. /\ IsFiniteSet(R \cup C) /\ Cardinality(R \cup C) \in Nat
       /\ Cardinality(R \cup C) <= Cardinality(R) + Cardinality(C)
  <2>1. R \cap C \in SUBSET R
    OBVIOUS
  <2>2. IsFiniteSet(R \cap C) /\ Cardinality(R \cap C) \in Nat
    BY <1>9, <2>1, FS_Subset, FS_CardinalityType
  <2>3. /\ IsFiniteSet(R \cup C)
        /\ Cardinality(R \cup C) = Cardinality(R) + Cardinality(C) - Cardinality(R \cap C)
    BY <1>9, FS_Union
  <2> QED  BY <1>9, <2>2, <2>3, FS_CardinalityType
<1>11. /\ IsFiniteSet({m} \cup (R \cup C))
       /\ Cardinality({m} \cup (R \cup C)) <= Cardinality(R \cup C) + 1
       /\ Cardinality({m} \cup (R \cup C)) \in Nat
  <2>1. (R \cup C) \cup {m} = {m} \cup (R \cup C)
    OBVIOUS
  <2>2. /\ IsFiniteSet((R \cup C) \cup {m})
        /\ Cardinality((R \cup C) \cup {m}) = IF m \in R \cup C THEN Cardinality(R \cup C)
                                              ELSE Cardinality(R \cup C) + 1
    BY <1>10, FS_AddElement
  <2> QED  BY <1>10, <2>1, <2>2
<1>12. Cardinality(M) <= Cardinality({m} \cup (R \cup C)) /\ Cardinality(M) \in Nat
  BY <1>6, <1>11, FS_Subset, FS_CardinalityType
<1>13. Cardinality(C) >= 3 - Cardinality(R)
  BY <1>5, <1>9, <1>10, <1>11, <1>12
<1> QED  BY <1>8, <1>9, <1>13 DEF C

\* Nothing fails where the floor was asked for.
LEMMA FloorKept ==
  ASSUME StaffInv, CountInv, AllocationInv, CastInv, TeamInv, PaperInv, FloorSuffices,
         [DataNext]_dataVars
  PROVE  FloorSuffices'
<1>1. total' = total
  <2>1. CASE Recording
    <3>1. Recorded
      BY <2>1, AllRecord DEF StaffInv, StaffTyped
    <3> QED  BY <3>1 DEF Recorded
  <2>2. CASE Staff
    BY <2>2 DEF Staff, StaffNext, Refuse, Divide, Balance, HireCEO, HireHead, HireLead, HireMember,
                NextDepartment, PairPersonas, MoveReports, NoManagerPersona, request
  <2>3. CASE UNCHANGED dataVars
    BY <2>3 DEF dataVars, staffVars, request
  <2> QED  BY <2>1, <2>2, <2>3 DEF DataNext, Recording
<1> SUFFICES ASSUME total >= Floor
             PROVE  stage' # "failed"
  BY <1>1 DEF FloorSuffices
<1>2. stage # "failed"
  BY DEF FloorSuffices
<1>3. ~ Refuse
  <2>1. total >= Len(keys)
    BY Portions DEF StaffInv
  <2>2. total \in Nat /\ Len(keys) \in Nat
    BY Placement, Listed DEF StaffInv
  <2> QED  BY <2>1, <2>2 DEF Refuse
<1>4. CASE MoveReports
  <2>1. PICK m \in WithPersona("manager.engineering") :
            stage' = IF Cardinality(Candidates(m)) < Lacking(m) THEN "failed" ELSE "built"
    BY <1>4, Moves
  <2>2. ~ (Cardinality(Candidates(m)) < Lacking(m))
    BY <1>4, CandidatesEnough DEF MoveReports
  <2> QED  BY <2>1, <2>2
<1>5. CASE Divide \/ Balance \/ HireCEO \/ HireHead \/ HireLead \/ HireMember \/ NextDepartment
           \/ PairPersonas \/ NoManagerPersona
  BY <1>2, <1>5 DEF Divide, Balance, HireCEO, HireHead, HireLead, HireMember, NextDepartment,
                    PairPersonas, NoManagerPersona
<1>6. CASE Recording
  BY <1>6, PaperKept
<1>7. CASE UNCHANGED dataVars
  BY <1>2, <1>7 DEF dataVars, staffVars
<1>8. DataNext => Staff \/ Recording
  BY DEF DataNext, Recording
<1> QED  BY <1>3, <1>4, <1>5, <1>6, <1>7, <1>8 DEF Staff, StaffNext

\* Everybody is on stage when the company is.
LEMMA AllPlaced ==
  ASSUME StaffInv, CountInv, CastInv, TeamInv
  PROVE  PersonasPlaced
<1> SUFFICES ASSUME stage = "built"
             PROVE  /\ \A d \in Range(keys) : \A p \in Cast(d) :
                         \E u \in DOMAIN users : WithPersona(p) = {u} /\ users[u].department = d
                    /\ \A m \in WithPersona("manager.engineering") :
                         /\ Cardinality(Reports(m)) >= MIN_MANAGER_REPORTS
                         /\ WithPersona("employee.engineering") \subseteq Reports(m)
                         /\ heads["Engineering"] = m
  BY DEF PersonasPlaced, Cast
<1>1. /\ StaffTyped /\ users \in Seq(Person) /\ WellCast
      /\ \A u \in DOMAIN users : users[u] \in Person
  BY Row DEF StaffInv, StaffTyped, CastInv
<1>2. ASSUME NEW m \in WithPersona("manager.engineering")
      PROVE  /\ Cardinality(Reports(m)) >= MIN_MANAGER_REPORTS
             /\ WithPersona("employee.engineering") \subseteq Reports(m)
             /\ m \in DOMAIN users /\ users[m].department = "Engineering" /\ m # Exec
             /\ heads["Engineering"] = m
  <2>1. m \in DOMAIN users /\ users[m].persona = "manager.engineering"
    BY DEF WithPersona
  <2>2. users[m].department = "Engineering" /\ m # Exec /\ heads["Engineering"] = m
    BY <2>1 DEF StaffInv, Carries
  <2>3. WithPersona("employee.engineering") \subseteq Reports(m)
    BY DEF TeamInv, WithPersona, Reports
  <2> QED  BY <2>1, <2>2, <2>3 DEF TeamInv
<1>3. ASSUME NEW d \in Range(keys), NEW p \in Cast(d)
      PROVE  \E u \in DOMAIN users : WithPersona(p) = {u} /\ users[u].department = d
  <2>1. Filled(d)
    BY DEF CastInv
  <2>2. Played(p)
    <3> SUFFICES ASSUME Alone(p, d), ~ Played(p)
                 PROVE  FALSE
      BY <2>1 DEF Filled
    <3>1. p = "employee.engineering" /\ counts[d] = 1
      BY DEF Alone
    <3>2. d = "Engineering"
      <4>1. PICK s : s = Personas[company][d]
        OBVIOUS
      <4>2. PICK i \in DOMAIN s : s[i] = p
        BY <4>1 DEF Cast, Range
      <4> QED  BY <1>1, <3>1, <4>1, <4>2, Placement
    <3>3. "manager.engineering" \in Cast(d)
      <4>1. Personas[company][d] \in {<< >>, <<"manager.engineering", "employee.engineering">>}
        BY <1>1, <3>2, Casting
      <4>2. \A x : x \notin Range(<< >>)
        BY DEF Range
      <4>3. "manager.engineering" \in Range(<<"manager.engineering", "employee.engineering">>)
        <5>1. PICK s : s = <<"manager.engineering", "employee.engineering">>
          OBVIOUS
        <5>2. 1 \in DOMAIN s /\ s[1] = "manager.engineering"
          BY <5>1
        <5>3. s[1] \in Range(s)
          BY <5>2 DEF Range
        <5> QED  BY <5>1, <5>2, <5>3
      <4> QED  BY <4>1, <4>2, <4>3 DEF Cast
    <3>4. Played("manager.engineering")
      BY <2>1, <3>3 DEF Filled, Alone
    <3>5. PICK m \in WithPersona("manager.engineering") : TRUE
      BY <3>4 DEF Played, WithPersona
    <3>6. /\ Cardinality(Reports(m)) >= 3 /\ m \in DOMAIN users /\ users[m].department = d /\ m # Exec
      BY <1>2, <3>2 DEF MIN_MANAGER_REPORTS
    <3>7. Reports(m) \in SUBSET Members(d)
      <4>1. DOMAIN users = 1 .. Len(users) /\ Len(users) \in Nat
        BY <1>1, Row
      <4>2. m \notin {Nobody, Exec}
        BY <3>6, <4>1 DEF Nobody
      <4> QED  BY <3>6, <4>2 DEF TeamInv, Teamed, Reports, Members
    <3>8. Cardinality(Members(d)) = 1 /\ IsFiniteSet(Members(d))
      <4>1. Cardinality(Members(d)) = counts[d]
        BY DEF CountInv
      <4>2. IsFiniteSet(Members(d))
        BY <1>1, MembersFinite
      <4> QED  BY <3>1, <4>1, <4>2
    <3>9. Cardinality(Reports(m)) <= 1 /\ Cardinality(Reports(m)) \in Nat
      BY <3>7, <3>8, FS_Subset, FS_CardinalityType
    <3> QED  BY <3>6, <3>9
  <2>3. PICK u \in DOMAIN users : users[u].persona = p
    BY <2>2 DEF Played
  <2>4. p # ""
    BY <1>1, Casting
  <2>5. WithPersona(p) = {u}
    BY <1>1, <2>3, <2>4 DEF WithPersona, WellCast
  <2>6. users[u].department = d
    <3>1. p \in Cast(users[u].department) /\ users[u].department \in Range(keys)
      BY <1>1, <2>3, <2>4 DEF WellCast, Person
    <3>2. \A e \in Range(keys) : d # e => Cast(d) \cap Cast(e) = {}
      BY <1>1, Casting
    <3> QED  BY <3>1, <3>2
  <2> QED  BY <2>5, <2>6
<1> QED  BY <1>2, <1>3

\* What is said of the scenarios holds from the start and stays.
SceneInv == AllocationInv /\ CastInv /\ TeamInv /\ CrewInv /\ PaperInv /\ FloorSuffices

LEMMA SceneAlways == DataSpec => [](StaffInv /\ CountInv /\ SceneInv)
<1>1. DataInit => SceneInv
  <2> SUFFICES ASSUME DataInit
               PROVE  SceneInv
    OBVIOUS
  <2>1. /\ stage = "allocate" /\ turn = 1 /\ users = << >> /\ files = {}
    BY DEF DataInit, StaffInit
  <2>2. \A i : i \notin DOMAIN users
    BY <2>1
  <2>3. AllocationInv /\ PaperInv /\ FloorSuffices
    BY <2>1 DEF AllocationInv, PaperInv, FloorSuffices
  <2>4. CastInv /\ TeamInv /\ CrewInv
    BY <2>1, <2>2 DEF CastInv, WellCast, TeamInv, Teamed, CrewInv, Manned
  <2> QED  BY <2>3, <2>4 DEF SceneInv
<1>2. StaffInv /\ CountInv /\ SceneInv /\ [DataNext]_dataVars => (StaffInv /\ CountInv /\ SceneInv)'
  <2> SUFFICES ASSUME StaffInv, CountInv, SceneInv, [DataNext]_dataVars
               PROVE  StaffInv' /\ CountInv' /\ SceneInv'
    OBVIOUS
  <2>1. StaffInv' /\ CountInv'
    BY StaffInvKept, CountKept
  <2>2. AllocationInv'
    BY AllocationKept DEF SceneInv
  <2>3. CastInv'
    BY <2>1, CastKept DEF SceneInv
  <2>4. TeamInv' /\ CrewInv'
    BY TeamKept, CrewKept DEF SceneInv
  <2>5. PaperInv' /\ FloorSuffices'
    BY PaperKept, FloorKept DEF SceneInv
  <2> QED  BY <2>1, <2>2, <2>3, <2>4, <2>5 DEF SceneInv
<1>3. DataInit => StaffInv /\ CountInv
  <2>1. DataInit => stage = "allocate"
    BY DEF DataInit, StaffInit
  <2> QED  BY <2>1, StaffBegins DEF CountInv
<1> QED
  BY <1>1, <1>2, <1>3, PTL DEF DataSpec

\* FR-025b holds of every company whose personas have one place each: whatever the
\* headcount, where generation does not fail every persona is one person of its
\* department, and the manager of the scenarios heads Engineering and has three
\* reports or more, their employee among them.
THEOREM ScenariosPlayable == DataSpec => []PersonasPlaced
<1>1. StaffInv /\ CountInv /\ SceneInv => PersonasPlaced
  BY AllPlaced DEF SceneInv
<1> QED
  BY <1>1, SceneAlways, PTL

\* At the floor of config.py and above, generation does not fail at any step: no
\* department is left without a head, Engineering has the people to put under its
\* manager, and no two documents get the same key.
THEOREM FloorIsEnough == DataSpec => []FloorSuffices
<1>1. SceneInv => FloorSuffices
  BY DEF SceneInv
<1> QED
  BY <1>1, SceneAlways, PTL

\* As many are hired as were asked for, department by department, and a team lead
\* is given no more than seven of them.
THEOREM SpanOfControl == DataSpec => []Staffed
<1>1. CrewInv => SpanKept
  <2> SUFFICES ASSUME CrewInv, stage = "built",
                      NEW u \in DOMAIN users, users[u].is_manager, u \notin Range(heads)
               PROVE  Cardinality(Reports(u)) <= 7
    BY DEF SpanKept
  <2>1. \A x : x \notin Range(<< >>)
    BY DEF Range
  <2>2. Spread(Reports(u))
    BY <2>1 DEF CrewInv, Manned
  <2> QED  BY <2>2, SpreadFew
<1>2. SceneInv => SpanKept
  BY <1>1 DEF SceneInv
<1> QED
  BY <1>2, SceneAlways, StaffedAsAsked, PTL DEF Staffed

\* A company is staffed so that the scenarios can be played in it, and what is
\* recorded of it agrees with it and with itself: everything the runs check of
\* the generators but that they come to an end.
THEOREM GenerationSound == DataSpec => []Sound
<1>1. PersonasPlaced /\ FloorSuffices /\ Staffed /\ OneLine /\ StaffTypeOK /\ TypeIsRight /\ Coherent => Sound
  BY DEF Sound, Staffing
<1> QED
  BY <1>1, ScenariosPlayable, FloorIsEnough, SpanOfControl, OneLineOfCommand, StaffTypeCorrect,
     RecordsCoherent, PTL

-----------------------------------------------------------------------------
(* Generation ends: the stages come one after the other, and within one    *)
(* something gets less with every step.                                    *)

Number ==
    [allocate |-> 0, balance |-> 1, head |-> 2, staff |-> 2, reports |-> 3, enough |-> 4, built |-> 5,
     profiles |-> 6, leave |-> 7, attendance |-> 8, training |-> 9, reviews |-> 10, products |-> 11,
     customers |-> 12, allocation |-> 13, remainder |-> 14, dates |-> 15, orders |-> 16, revenue |-> 17,
     targets |-> 18, expenses |-> 19, budgets |-> 20, policies |-> 21, payroll |-> 22,
     comparison |-> 23, contracts |-> 24, leaders |-> 25, news |-> 26, vacancies |-> 27, about |-> 28,
     recorded |-> 29, failed |-> 30]
Chapter == Number[stage]

\* How many turns the loop of a stage has.
Rounds ==
    LET v == Volume[company]
    IN  [profiles |-> Len(users), leave |-> v.leave_requests, attendance |-> Len(users),
         training |-> v.training_records, reviews |-> Len(users), products |-> v.products,
         customers |-> v.customers, orders |-> v.orders, expenses |-> v.expenses,
         policies |-> Len(POLICY_TYPES), payroll |-> 1, comparison |-> Pair,
         contracts |-> v.contracts - Pair, news |-> Items, vacancies |-> Items, about |-> 1]
Looping == {"profiles", "leave", "attendance", "training", "reviews", "products", "customers", "orders",
            "expenses", "policies", "payroll", "comparison", "contracts", "news", "vacancies", "about"}

\* What a stage has still to do: members to give or to take back, departments to
\* hire for, orders to hand out or to date, turns of a loop.
ToDo ==
    IF stage = "balance" THEN IF Allocated < total THEN total - Allocated ELSE Allocated - total
    ELSE IF stage \in {"head", "staff"} THEN Len(keys) - turn
    ELSE IF stage = "remainder" THEN Wanted - Allotted
    ELSE IF stage = "dates" THEN Wanted - Len(order_dates)
    ELSE IF stage \in Looping /\ item < Rounds[stage] THEN Rounds[stage] - item
    ELSE 0

\* How many turns away the next department is that has more than one to give back.
Distance ==
    IF \E i \in turn .. Len(keys) : counts[keys[i]] > 1 THEN Len(keys) - turn
    ELSE Len(keys) + (Len(keys) - turn)

\* What is to be done before that gets less.
Within ==
    IF stage = "balance" THEN Distance
    ELSE IF stage = "head" THEN 2 * left + 1
    ELSE IF stage = "staff" THEN 2 * left
    ELSE 0

Nearer ==
    \/ Chapter < Chapter'
    \/ Chapter = Chapter' /\ ToDo' < ToDo
    \/ Chapter = Chapter' /\ ToDo' = ToDo /\ Within' < Within

\* A later stage, or the same with less to do in the loop.
LEMMA LoopNearer ==
  ASSUME item \in Nat, NEW this \in Looping, NEW next, NEW n \in Int, n = Rounds[this],
         Number[this] < Number[next], Loop(this, n, next)
  PROVE  Nearer
<1>1. stage = this /\ company' = company /\ users' = users
  BY DEF Loop, staff, request
<1>2. Rounds' = Rounds
  BY <1>1 DEF Rounds, Items
<1>3. CASE item + 1 < n
  <2>1. item' = item + 1 /\ stage' = this
    BY <1>1, <1>3 DEF Loop
  <2>2. this \notin {"balance", "head", "staff", "remainder", "dates"}
    BY DEF Looping
  <2>3. Rounds'[this] = n
    BY <1>2
  <2>4. ToDo = n - item
    BY <1>1, <1>3, <2>2 DEF ToDo
  <2>5. ToDo' = n - (item + 1)
    BY <1>3, <2>1, <2>2, <2>3 DEF ToDo
  <2>6. Chapter' = Chapter
    BY <1>1, <2>1 DEF Chapter
  <2> QED  BY <2>4, <2>5, <2>6 DEF Nearer
<1>4. CASE ~ (item + 1 < n)
  <2>1. stage' = next
    BY <1>4 DEF Loop
  <2> QED  BY <1>1, <2>1 DEF Nearer, Chapter
<1> QED  BY <1>3, <1>4

LEMMA DocumentNearer ==
  ASSUME item \in Nat, stage \in Looping, NEW name, NEW type, NEW classification, NEW owner,
         NEW more, NEW loop, loop.turns \in Int, loop.turns = Rounds[stage],
         Number[stage] < Number[loop.next], Number[stage] < Number["failed"],
         add_document(name, type, classification, owner, more, loop)
  PROVE  Nearer
<1> DEFINE key == <<classification, type, name>>
<1>1. CASE key \in files
  <2>1. stage' = "failed"
    BY <1>1 DEF add_document
  <2> QED  BY <2>1 DEF Nearer, Chapter
<1>2. CASE key \notin files
  <2>1. Loop(stage, loop.turns, loop.next)
    BY <1>2 DEF add_document
  <2> QED  BY <2>1, LoopNearer
<1> QED  BY <1>1, <1>2

LEMMA RoundsTyped ==
  ASSUME company \in Company, Len(users) \in Nat
  PROVE  /\ \A s \in Looping : Rounds[s] \in Int
         /\ Rounds["profiles"] = Len(users) /\ Rounds["attendance"] = Len(users)
         /\ Rounds["reviews"] = Len(users)
         /\ Rounds["leave"] = Volume[company].leave_requests
         /\ Rounds["training"] = Volume[company].training_records
         /\ Rounds["products"] = Volume[company].products
         /\ Rounds["customers"] = Volume[company].customers
         /\ Rounds["orders"] = Volume[company].orders
         /\ Rounds["expenses"] = Volume[company].expenses
         /\ Rounds["policies"] = Len(POLICY_TYPES) /\ Rounds["payroll"] = 1
         /\ Rounds["comparison"] = Pair /\ Rounds["contracts"] = Volume[company].contracts - Pair
         /\ Rounds["news"] = Items /\ Rounds["vacancies"] = Items /\ Rounds["about"] = 1
<1>1. /\ Rounds["profiles"] = Len(users) /\ Rounds["attendance"] = Len(users)
      /\ Rounds["reviews"] = Len(users)
      /\ Rounds["leave"] = Volume[company].leave_requests
      /\ Rounds["training"] = Volume[company].training_records
      /\ Rounds["products"] = Volume[company].products
      /\ Rounds["customers"] = Volume[company].customers
      /\ Rounds["orders"] = Volume[company].orders
      /\ Rounds["expenses"] = Volume[company].expenses
      /\ Rounds["policies"] = Len(POLICY_TYPES) /\ Rounds["payroll"] = 1
      /\ Rounds["comparison"] = Pair /\ Rounds["contracts"] = Volume[company].contracts - Pair
      /\ Rounds["news"] = Items /\ Rounds["vacancies"] = Items /\ Rounds["about"] = 1
  BY DEF Rounds
<1>2. /\ Volume[company].leave_requests \in Nat /\ Volume[company].training_records \in Nat
      /\ Volume[company].products \in Nat /\ Volume[company].customers \in Nat
      /\ Volume[company].expenses \in Nat /\ Volume[company].contracts - Pair \in Int
  BY VolumeAssumption DEF Pair
<1>3. Items \in Nat /\ Volume[company].orders \in Nat
  BY ItemsMade
<1>4. Len(POLICY_TYPES) \in Int /\ Pair \in Int
  BY DEF POLICY_TYPES, Pair
<1>5. \A s \in Looping : Rounds[s] \in Int
  <2> SUFFICES ASSUME NEW s \in Looping
               PROVE  Rounds[s] \in Int
    OBVIOUS
  <2>1. CASE s \in {"profiles", "leave", "attendance", "training", "reviews", "products", "customers", "orders"}
    BY <1>1, <1>2, <1>3, <2>1
  <2>2. CASE s \in {"expenses", "policies", "payroll", "comparison", "contracts", "news", "vacancies", "about"}
    BY <1>1, <1>2, <1>3, <1>4, <2>2
  <2> QED  BY <2>1, <2>2 DEF Looping
<1> QED  BY <1>1, <1>5

LEMMA LoopsNearer ==
  ASSUME item \in Nat, company \in Company, Len(users) \in Nat,
         AddProfile \/ RequestLeave \/ Attend \/ Train \/ Review \/ AddProduct \/ AddCustomer
           \/ AddOrder \/ AddExpense \/ PublishNews \/ Advertise
  PROVE  Nearer
<1> DEFINE Runs(this, next) == Loop(this, Rounds[this], next) /\ Number[this] < Number[next]
<1>1. PICK this \in Looping, next \in RecordStages : Runs(this, next)
  <2>1. CASE AddProfile
    <3>1. Loop("profiles", Len(users), "leave")  BY <2>1, Zenon DEF AddProfile
    <3>2. Runs("profiles", "leave")  BY <3>1, RoundsTyped DEF Number
    <3> QED  BY <3>2 DEF Looping, RecordStages
  <2>2. CASE RequestLeave
    <3>1. Loop("leave", Volume[company].leave_requests, "attendance")  BY <2>2, Zenon DEF RequestLeave
    <3>2. Runs("leave", "attendance")  BY <3>1, RoundsTyped DEF Number
    <3> QED  BY <3>2 DEF Looping, RecordStages
  <2>3. CASE Attend
    <3>1. Loop("attendance", Len(users), "training")  BY <2>3, Zenon DEF Attend
    <3>2. Runs("attendance", "training")  BY <3>1, RoundsTyped DEF Number
    <3> QED  BY <3>2 DEF Looping, RecordStages
  <2>4. CASE Train
    <3>1. Loop("training", Volume[company].training_records, "reviews")  BY <2>4, Zenon DEF Train
    <3>2. Runs("training", "reviews")  BY <3>1, RoundsTyped DEF Number
    <3> QED  BY <3>2 DEF Looping, RecordStages
  <2>5. CASE Review
    <3>1. Loop("reviews", Len(users), "products")  BY <2>5, Zenon DEF Review
    <3>2. Runs("reviews", "products")  BY <3>1, RoundsTyped DEF Number
    <3> QED  BY <3>2 DEF Looping, RecordStages
  <2>6. CASE AddProduct
    <3>1. Loop("products", Volume[company].products, "customers")  BY <2>6, Zenon DEF AddProduct
    <3>2. Runs("products", "customers")  BY <3>1, RoundsTyped DEF Number
    <3> QED  BY <3>2 DEF Looping, RecordStages
  <2>7. CASE AddCustomer
    <3>1. Loop("customers", Volume[company].customers, "allocation")  BY <2>7, Zenon DEF AddCustomer
    <3>2. Runs("customers", "allocation")  BY <3>1, RoundsTyped DEF Number
    <3> QED  BY <3>2 DEF Looping, RecordStages
  <2>8. CASE AddOrder
    <3>1. Loop("orders", Volume[company].orders, "revenue")  BY <2>8, OrderTurn
    <3>2. Runs("orders", "revenue")  BY <3>1, RoundsTyped DEF Number
    <3> QED  BY <3>2 DEF Looping, RecordStages
  <2>9. CASE AddExpense
    <3>1. Loop("expenses", Volume[company].expenses, "budgets")  BY <2>9, Zenon DEF AddExpense
    <3>2. Runs("expenses", "budgets")  BY <3>1, RoundsTyped DEF Number
    <3> QED  BY <3>2 DEF Looping, RecordStages
  <2>10. CASE PublishNews
    <3>1. Loop("news", Items, "vacancies")  BY <2>10, Zenon DEF PublishNews
    <3>2. Runs("news", "vacancies")  BY <3>1, RoundsTyped DEF Number
    <3> QED  BY <3>2 DEF Looping, RecordStages
  <2>11. CASE Advertise
    <3>1. Loop("vacancies", Items, "about")  BY <2>11, Zenon DEF Advertise
    <3>2. Runs("vacancies", "about")  BY <3>1, RoundsTyped DEF Number
    <3> QED  BY <3>2 DEF Looping, RecordStages
  <2> HIDE DEF Runs
  <2> QED
    BY <2>1, <2>2, <2>3, <2>4, <2>5, <2>6, <2>7, <2>8, <2>9, <2>10, <2>11, Zenon
<1>2. Rounds[this] \in Int
  BY RoundsTyped
<1> QED  BY <1>1, <1>2, LoopNearer

LEMMA LegalNearer ==
  ASSUME item \in Nat, company \in Company, Len(users) \in Nat,
         WritePolicy \/ FilePayroll \/ Compare \/ WriteContract \/ PublishAbout
  PROVE  Nearer
<1>1. CASE WritePolicy
  <2> DEFINE loop == [turns |-> Len(POLICY_TYPES), next |-> "payroll"]
  <2>1. stage = "policies" /\ loop.next = "payroll" /\ loop.turns = Len(POLICY_TYPES)
    BY <1>1 DEF WritePolicy
  <2>2. \E name, type, classification, owner, more : add_document(name, type, classification, owner, more, loop)
    BY <1>1 DEF WritePolicy
  <2> HIDE DEF loop
  <2>3. /\ stage \in Looping /\ loop.turns = Rounds[stage] /\ loop.turns \in Int
    BY <2>1, RoundsTyped DEF Looping
  <2>4. Number[stage] < Number[loop.next] /\ Number[stage] < Number["failed"]
    BY <2>1 DEF Number
  <2> QED  BY <2>2, <2>3, <2>4, DocumentNearer
<1>2. CASE FilePayroll
  <2> DEFINE loop == [turns |-> 1, next |-> "comparison"]
  <2>1. stage = "payroll" /\ loop.next = "comparison" /\ loop.turns = 1
    BY <1>2 DEF FilePayroll
  <2>2. \E name, type, classification, owner, more : add_document(name, type, classification, owner, more, loop)
    BY <1>2 DEF FilePayroll
  <2> HIDE DEF loop
  <2>3. /\ stage \in Looping /\ loop.turns = Rounds[stage] /\ loop.turns \in Int
    BY <2>1, RoundsTyped DEF Looping
  <2>4. Number[stage] < Number[loop.next] /\ Number[stage] < Number["failed"]
    BY <2>1 DEF Number
  <2> QED  BY <2>2, <2>3, <2>4, DocumentNearer
<1>3. CASE Compare
  <2> DEFINE loop == [turns |-> Pair,
                      next |-> IF Volume[company].contracts > Pair THEN "contracts" ELSE "leaders"]
  <2>1. stage = "comparison" /\ loop.next \in {"contracts", "leaders"} /\ loop.turns = Pair
    BY <1>3 DEF Compare
  <2>2. \E name, type, classification, owner, more : add_document(name, type, classification, owner, more, loop)
    BY <1>3 DEF Compare
  <2> HIDE DEF loop
  <2>3. /\ stage \in Looping /\ loop.turns = Rounds[stage] /\ loop.turns \in Int
    BY <2>1, RoundsTyped DEF Looping
  <2>4. Number[stage] < Number[loop.next] /\ Number[stage] < Number["failed"]
    <3>1. Number[stage] < Number["contracts"] /\ Number[stage] < Number["leaders"]
          /\ Number[stage] < Number["failed"]
      BY <2>1 DEF Number
    <3> QED  BY <2>1, <3>1
  <2> QED  BY <2>2, <2>3, <2>4, DocumentNearer
<1>4. CASE WriteContract
  <2> DEFINE loop == [turns |-> Volume[company].contracts - Pair, next |-> "leaders"]
  <2>1. stage = "contracts" /\ loop.next = "leaders" /\ loop.turns = Volume[company].contracts - Pair
    BY <1>4 DEF WriteContract
  <2>2. \E name, type, classification, owner, more : add_document(name, type, classification, owner, more, loop)
    BY <1>4 DEF WriteContract
  <2> HIDE DEF loop
  <2>3. /\ stage \in Looping /\ loop.turns = Rounds[stage] /\ loop.turns \in Int
    BY <2>1, RoundsTyped DEF Looping
  <2>4. Number[stage] < Number[loop.next] /\ Number[stage] < Number["failed"]
    BY <2>1 DEF Number
  <2> QED  BY <2>2, <2>3, <2>4, DocumentNearer
<1>5. CASE PublishAbout
  <2> DEFINE loop == [turns |-> 1, next |-> "recorded"]
  <2>1. stage = "about" /\ loop.next = "recorded" /\ loop.turns = 1
    BY <1>5 DEF PublishAbout
  <2>2. \E name, type, classification, owner, more : add_document(name, type, classification, owner, more, loop)
    BY <1>5 DEF PublishAbout
  <2> HIDE DEF loop
  <2>3. /\ stage \in Looping /\ loop.turns = Rounds[stage] /\ loop.turns \in Int
    BY <2>1, RoundsTyped DEF Looping
  <2>4. Number[stage] < Number[loop.next] /\ Number[stage] < Number["failed"]
    BY <2>1 DEF Number
  <2> QED  BY <2>2, <2>3, <2>4, DocumentNearer
<1> QED  BY <1>1, <1>2, <1>3, <1>4, <1>5

\* The steps that do a stage at once.
LEMMA StagesNearer ==
  ASSUME Enrol \/ Allot \/ Allocate_dates \/ StartOrders \/ ReportRevenue \/ SetTargets
           \/ SetBudgets \/ Introduce
  PROVE  Nearer
<1>1. <<stage, stage'>> \in {<<"built", "profiles">>, <<"allocation", "remainder">>, <<"remainder", "dates">>,
          <<"dates", "orders">>, <<"revenue", "targets">>, <<"targets", "expenses">>,
          <<"budgets", "policies">>, <<"leaders", "news">>}
  <2>1. CASE Enrol \/ Allot \/ Allocate_dates \/ StartOrders
    BY <2>1 DEF Enrol, Allot, Allocate_dates, StartOrders
  <2>2. CASE ReportRevenue
    BY <2>2, RevenueTurn
  <2>3. CASE SetTargets \/ SetBudgets \/ Introduce
    BY <2>3 DEF SetTargets, SetBudgets, Introduce
  <2> QED  BY <2>1, <2>2, <2>3
<1>2. Number[stage] < Number[stage']
  BY <1>1 DEF Number
<1> QED  BY <1>2 DEF Nearer, Chapter

\* An order more is handed out, and the date of one more is drawn.
LEMMA OrdersNearer ==
  ASSUME SharesInv, company \in Company, HandOut \/ DrawDate
  PROVE  Nearer
<1>1. /\ stage' = stage /\ Wanted' = Wanted /\ Wanted \in Nat
  BY WholeShares DEF HandOut, DrawDate, staff, request, Wanted
<1>2. CASE HandOut
  <2>1. stage = "remainder" /\ quota \in [_month_starts -> Nat]
    BY <1>2 DEF HandOut, SharesInv
  <2>2. PICK m \in _month_starts : quota' = [quota EXCEPT ![m] = @ + 1]
    BY <1>2, <2>1 DEF HandOut
  <2>3. Allotted' = Allotted + 1 /\ Allotted \in Nat
    <3>1. /\ Allotted = SumFunctionOnSet(quota, _month_starts)
          /\ Allotted' = SumFunctionOnSet(quota', _month_starts)
      BY <2>1, <2>2 DEF Allotted, SumFunction
    <3> PICK h : h = quota'
      OBVIOUS
    <3>2. /\ \A y \in _month_starts : quota[y] \in Nat
          /\ h[m] = quota[m] + 1 /\ \A y \in _month_starts \ {m} : h[y] = quota[y]
      BY <2>1, <2>2
    <3>3. IsFiniteSet(_month_starts)
      BY MonthsInside
    <3>4. /\ SumFunctionOnSet(h, _month_starts) = SumFunctionOnSet(quota, _month_starts) + 1
          /\ SumFunctionOnSet(quota, _month_starts) \in Nat
      BY <3>2, <3>3, SumsOneMore
    <3> QED  BY <3>1, <3>4
  <2>4. ToDo = Wanted - Allotted /\ ToDo' = Wanted' - Allotted'
    BY <1>1, <2>1 DEF ToDo
  <2> QED  BY <1>1, <2>3, <2>4 DEF Nearer, Chapter
<1>3. CASE DrawDate
  <2>1. stage = "dates"
    BY <1>3 DEF DrawDate
  <2>2. Len(order_dates') = Len(order_dates) + 1 /\ Len(order_dates) \in Nat
    <3>1. order_dates \in Seq(history_start .. history_end)
      BY DEF SharesInv
    <3>2. \E day : order_dates' = Append(order_dates, day)
      BY <1>3 DEF DrawDate
    <3> QED  BY <3>1, <3>2
  <2>3. ToDo = Wanted - Len(order_dates) /\ ToDo' = Wanted' - Len(order_dates')
    BY <1>1, <2>1 DEF ToDo
  <2> QED  BY <1>1, <2>2, <2>3 DEF Nearer, Chapter
<1> QED  BY <1>2, <1>3

\* While the departments are hired for, fewer are left of the one in hand or one
\* less is left.
LEMMA HiresNearer ==
  ASSUME StaffInv, HireHead \/ HireLead \/ HireMember \/ NextDepartment
  PROVE  Nearer
<1>1. left \in Nat /\ turn \in Nat /\ Len(keys) \in Nat
  BY LeftToHire, Listed DEF StaffInv, StaffTyped
<1>2. keys' = keys
  BY DEF HireHead, HireLead, HireMember, NextDepartment, request, keys
<1>3. Number["head"] = 2 /\ Number["staff"] = 2 /\ Number["reports"] = 3
  BY DEF Number
<1>4. stage \in {"head", "staff"} /\ ToDo = Len(keys) - turn
  BY DEF HireHead, HireLead, HireMember, NextDepartment, ToDo
<1>5. CASE HireHead \/ HireLead \/ HireMember
  <2>1. /\ stage' = "staff" /\ turn' = turn /\ (stage = "staff" => left' = left - 1)
        /\ left' = left \/ left' = left - 1
    BY <1>1, <1>5 DEF HireHead, HireLead, HireMember
  <2>2. ToDo' = ToDo
    BY <1>2, <1>4, <2>1 DEF ToDo
  <2>3. Within' = 2 * left' /\ (stage = "head" => Within = 2 * left + 1)
        /\ (stage = "staff" => Within = 2 * left)
    BY <2>1 DEF Within
  <2>4. Within' < Within
    BY <1>1, <1>4, <2>1, <2>3
  <2>5. Chapter' = Chapter
    BY <1>3, <1>4, <2>1 DEF Chapter
  <2> QED  BY <2>2, <2>4, <2>5 DEF Nearer
<1>6. CASE NextDepartment
  <2>1. CASE turn < Len(keys)
    <3>1. stage' = "head" /\ turn' = turn + 1
      BY <1>6, <2>1 DEF NextDepartment, TakeUp
    <3>2. ToDo' = Len(keys) - (turn + 1)
      BY <1>2, <3>1 DEF ToDo
    <3>3. Chapter' = Chapter
      BY <1>3, <1>4, <3>1 DEF Chapter
    <3> QED  BY <1>1, <1>4, <3>2, <3>3 DEF Nearer
  <2>2. CASE ~ (turn < Len(keys))
    <3>1. stage' = "reports"
      BY <1>6, <2>2 DEF NextDepartment
    <3> QED  BY <1>3, <1>4, <3>1 DEF Nearer, Chapter
  <2> QED  BY <2>1, <2>2
<1> QED  BY <1>5, <1>6

LEMMA StaffNearer ==
  ASSUME Refuse \/ Divide \/ HireCEO \/ PairPersonas \/ MoveReports \/ NoManagerPersona
  PROVE  Nearer
<1>1. \/ stage = "allocate" /\ stage' \in {"failed", "balance"}
      \/ stage = "balance" /\ stage' = "head"
      \/ stage = "reports" /\ stage' \in {"enough", "built"}
      \/ stage = "enough" /\ stage' \in {"failed", "built"}
  BY DEF Refuse, Divide, HireCEO, PairPersonas, MoveReports, NoManagerPersona
<1>2. Number[stage] < Number[stage']
  BY <1>1 DEF Number
<1> QED  BY <1>2 DEF Nearer, Chapter

\* Whoever is asked for, there is one for every department.
OneEach == stage = "balance" => total >= Len(keys)

LEMMA OneEachKept ==
  ASSUME StaffInv, OneEach, [DataNext]_dataVars
  PROVE  OneEach'
<1>1. CASE Divide \/ Balance
  BY <1>1 DEF Divide, Balance, request, OneEach, keys
<1>2. CASE Refuse \/ HireCEO \/ HireHead \/ HireLead \/ HireMember \/ NextDepartment
           \/ PairPersonas \/ MoveReports \/ NoManagerPersona
  <2>1. stage' # "balance"
    BY <1>2 DEF Refuse, HireCEO, HireHead, HireLead, HireMember, NextDepartment, PairPersonas,
                MoveReports, NoManagerPersona
  <2> QED  BY <2>1 DEF OneEach
<1>3. CASE Recording
  <2>1. Recorded
    BY <1>3, AllRecord DEF StaffInv, StaffTyped
  <2> QED  BY <2>1 DEF Recorded, RecordStages, OneEach
<1>4. CASE UNCHANGED dataVars
  <2>1. UNCHANGED <<company, total, stage>>
    BY <1>4 DEF dataVars, staffVars, request
  <2> QED  BY <2>1 DEF OneEach, keys
<1> QED
  BY <1>1, <1>2, <1>3, <1>4 DEF DataNext, Staff, StaffNext, Recording

\* What the departments have been given, and how far it is from what was asked for.
LEMMA Given ==
  ASSUME StaffInv, stage = "balance"
  PROVE  /\ Allocated = SumFunctionOnSet(counts, Range(keys)) /\ Allocated \in Nat /\ total \in Nat
         /\ \A d \in Range(keys) : counts[d] \in Nat /\ counts[d] >= 1
         /\ turn \in 1 .. Len(keys) /\ Len(keys) \in Nat
<1>1. /\ StaffTyped /\ total \in Nat /\ turn \in 1 .. Len(keys)
      /\ counts \in [Range(keys) -> 1 .. total] /\ Len(keys) \in Nat
  BY Placement, Listed DEF StaffInv, StaffTyped
<1>2. \A d \in Range(keys) : counts[d] \in Nat /\ counts[d] >= 1
  BY <1>1
<1>3. SumFunctionOnSet(counts, Range(keys)) \in Nat
  BY <1>1, <1>2, Listed, SumsNest
<1> QED  BY <1>1, <1>2, <1>3 DEF Allocated, SumFunction

\* When too many have been given, somebody can give one back.
LEMMA SomebodyGives ==
  ASSUME StaffInv, OneEach, stage = "balance", Allocated > total
  PROVE  \E i \in 1 .. Len(keys) : counts[keys[i]] > 1
<1> DEFINE S == Range(keys)
<1>1. /\ Allocated = SumFunctionOnSet(counts, S) /\ Allocated \in Nat /\ total \in Nat
      /\ \A d \in S : counts[d] \in Nat /\ counts[d] >= 1
  BY Given
<1>2. /\ IsFiniteSet(S) /\ Cardinality(S) \in Nat /\ Cardinality(S) <= Len(keys) /\ Len(keys) \in Nat
      /\ DOMAIN keys = 1 .. Len(keys)
  BY Listed DEF StaffInv
<1>3. SUFFICES ASSUME \A i \in 1 .. Len(keys) : ~ (counts[keys[i]] > 1)
               PROVE  FALSE
  OBVIOUS
<1>4. \A d \in S : counts[d] = 1
  <2> SUFFICES ASSUME NEW d \in S
               PROVE  counts[d] = 1
    OBVIOUS
  <2>1. PICK i \in 1 .. Len(keys) : d = keys[i]
    BY <1>2 DEF Range
  <2>2. ~ (counts[d] > 1)
    BY <1>3, <2>1
  <2> QED  BY <1>1, <2>2
<1> DEFINE none == [d \in S |-> 0]
<1>5. \A d \in S : none[d] \in Nat /\ none[d] = 0 /\ counts[d] = none[d] + 1
  BY <1>4
<1> HIDE DEF none, S
<1>6. SumFunctionOnSet(counts, S) = SumFunctionOnSet(none, S) + Cardinality(S)
  BY <1>2, <1>5, SumsSpread
<1>7. SumFunctionOnSet(none, S) = 0
  BY <1>2, <1>5, SumsOfZeros
<1>8. total >= Len(keys)
  BY DEF OneEach
<1> QED  BY <1>1, <1>2, <1>6, <1>7, <1>8

LEMMA OneLess ==
  ASSUME NEW a \in Nat, NEW b \in Nat, NEW t \in Nat, a = b + 1, a > t
  PROVE  (IF b < t THEN t - b ELSE b - t) < (IF a < t THEN t - a ELSE a - t)
  OBVIOUS

\* A round of the departments brings their sum nearer to what was asked for, or
\* the turn nearer to one that has more than one to give back.
LEMMA BalanceNearer ==
  ASSUME StaffInv, OneEach, Balance
  PROVE  Nearer
<1> DEFINE S == Range(keys)  d == keys[turn]  n == Len(keys)
<1>1. /\ stage = "balance" /\ stage' = "balance" /\ Allocated # total
      /\ company' = company /\ total' = total /\ turn' = (turn % Len(keys)) + 1
      /\ counts' = IF Allocated < total THEN [counts EXCEPT ![d] = @ + 1]
                   ELSE [counts EXCEPT ![d] = AtLeastOne(@ - 1)]
  BY DEF Balance, request, NextTurn
<1>2. keys' = keys
  BY <1>1 DEF keys
<1>3. /\ Allocated = SumFunctionOnSet(counts, S) /\ Allocated \in Nat /\ total \in Nat
      /\ \A e \in S : counts[e] \in Nat /\ counts[e] >= 1
      /\ turn \in 1 .. n /\ n \in Nat
  BY <1>1, Given
<1>4. /\ IsFiniteSet(S) /\ \A i \in 1 .. n : keys[i] \in S
      /\ \A i, j \in 1 .. n : keys[i] = keys[j] => i = j
  BY Listed DEF StaffInv
<1>5. d \in S /\ DOMAIN counts = S
  BY <1>1, <1>3, <1>4 DEF StaffInv, StaffTyped
<1>6. Allocated' = SumFunctionOnSet(counts', S)
  <2>1. DOMAIN counts' = S
    BY <1>1, <1>5
  <2> QED  BY <2>1 DEF Allocated, SumFunction
<1>7. Chapter' = Chapter
  BY <1>1 DEF Chapter
<1>8. /\ ToDo = IF Allocated < total THEN total - Allocated ELSE Allocated - total
      /\ ToDo' = IF Allocated' < total THEN total - Allocated' ELSE Allocated' - total
      /\ Within = Distance /\ Within' = Distance'
  BY <1>1 DEF ToDo, Within
<1> HIDE DEF S
<1>9. CASE Allocated < total
  <2> PICK c : c = counts'
    OBVIOUS
  <2>1. c[d] = counts[d] + 1 /\ \A e \in S \ {d} : c[e] = counts[e]
    BY <1>1, <1>5, <1>9
  <2>2. SumFunctionOnSet(c, S) = SumFunctionOnSet(counts, S) + 1
    <3> HIDE DEF d
    <3>1. \A e \in S : counts[e] \in Nat
      BY <1>3
    <3>2. IsFiniteSet(S) /\ d \in S
      BY <1>4, <1>5
    <3> QED  BY <2>1, <3>1, <3>2, SumsOneMore
  <2>3. Allocated' = Allocated + 1
    BY <1>3, <1>6, <2>2
  <2> QED  BY <1>3, <1>7, <1>8, <1>9, <2>3 DEF Nearer
<1>10. CASE ~ (Allocated < total) /\ counts[d] > 1
  <2> PICK c : c = counts'
    OBVIOUS
  <2>1. counts[d] = c[d] + 1 /\ \A e \in S \ {d} : counts[e] = c[e]
    BY <1>1, <1>3, <1>5, <1>10 DEF AtLeastOne
  <2>2. \A e \in S : c[e] \in Nat
    <3> SUFFICES ASSUME NEW e \in S
                 PROVE  c[e] \in Nat
      OBVIOUS
    <3>1. CASE e # d
      BY <1>3, <2>1, <3>1
    <3>2. CASE e = d
      <4>1. c[d] = counts[d] - 1 /\ counts[d] \in Nat /\ counts[d] >= 1
        BY <1>1, <1>3, <1>5, <1>10 DEF AtLeastOne
      <4> QED  BY <3>2, <4>1
    <3> QED  BY <3>1, <3>2
  <2>3. SumFunctionOnSet(counts, S) = SumFunctionOnSet(c, S) + 1 /\ SumFunctionOnSet(c, S) \in Nat
    <3> HIDE DEF d
    <3> QED  BY <1>4, <1>5, <2>1, <2>2, SumsOneMore
  <2>4. Allocated = Allocated' + 1 /\ Allocated' \in Nat
    BY <1>3, <1>6, <2>3
  <2>5. Allocated > total /\ total \in Nat /\ Allocated \in Nat
    BY <1>1, <1>3, <1>10
  <2>6. ToDo' < ToDo
    BY <1>8, <2>4, <2>5, OneLess
  <2> QED  BY <1>7, <2>6 DEF Nearer
<1>11. CASE ~ (Allocated < total) /\ ~ (counts[d] > 1)
  <2>1. counts[d] = 1
    BY <1>3, <1>5, <1>11
  <2> PICK c : c = counts'
    OBVIOUS
  <2>2. \A e \in S : c[e] = counts[e]
    BY <1>1, <1>5, <1>11, <2>1 DEF AtLeastOne
  <2>3. Allocated' = Allocated
    <3>1. SumFunctionOnSet(counts, S) = SumFunctionOnSet(c, S)
      BY <1>3, <1>4, <2>2, SumsAgree
    <3> QED  BY <1>3, <1>6, <3>1
  <2>4. ToDo' = ToDo
    BY <1>8, <2>3
  <2>5. \A i \in 1 .. n : counts'[keys'[i]] = counts[keys[i]]
    BY <1>2, <1>4, <2>2
  <2>6. Distance' = IF \E i \in turn' .. n : counts[keys[i]] > 1 THEN n - turn'
                    ELSE n + (n - turn')
    <3>1. turn' \in 1 .. n
      BY <1>1, <1>3
    <3>2. (\E i \in turn' .. n : counts'[keys'[i]] > 1) <=> (\E i \in turn' .. n : counts[keys[i]] > 1)
      BY <1>3, <2>5, <3>1
    <3> QED  BY <1>2, <3>2 DEF Distance
  <2>7. Distance = IF \E i \in turn .. n : counts[keys[i]] > 1 THEN n - turn ELSE n + (n - turn)
    BY DEF Distance
  <2>8. Distance' < Distance
    <3>1. CASE turn < n
      <4>1. turn % n = turn
        <5>1. turn \in Nat /\ n \in Nat \ {0}
          BY <1>3
        <5> QED  BY <3>1, <5>1, Remains
      <4>2. turn' = turn + 1
        BY <1>1, <4>1
      <4>3. (\E i \in turn .. n : counts[keys[i]] > 1) => (\E i \in turn + 1 .. n : counts[keys[i]] > 1)
        <5> SUFFICES ASSUME NEW i \in turn .. n, counts[keys[i]] > 1
                     PROVE  i \in turn + 1 .. n
          OBVIOUS
        <5>1. i # turn
          BY <1>11
        <5> QED  BY <1>3, <5>1
      <4> HIDE DEF n
      <4> QED  BY <1>3, <2>6, <2>7, <3>1, <4>2, <4>3
    <3>2. CASE turn = n
      <4>1. turn' = 1
        BY <1>1, <1>3, <3>2
      <4>2. \E i \in 1 .. n : counts[keys[i]] > 1
        BY <1>1, <1>3, <1>11, SomebodyGives
      <4>3. ~ \E i \in turn .. n : counts[keys[i]] > 1
        BY <1>3, <1>11, <3>2
      <4> HIDE DEF n
      <4> QED  BY <1>3, <2>6, <2>7, <3>2, <4>1, <4>2, <4>3
    <3> QED  BY <1>3, <3>1, <3>2
  <2> QED  BY <1>7, <1>8, <2>4, <2>8 DEF Nearer
<1> QED  BY <1>9, <1>10, <1>11

\* What is to do is a number.
LEMMA ToDoCounts ==
  ASSUME StaffInv, LedgerInv
  PROVE  Chapter \in 0 .. 30 /\ ToDo \in Nat /\ Within \in Nat
<1>1. /\ company \in Company /\ Len(users) \in Nat /\ item \in Nat /\ turn \in 1 .. Len(keys)
      /\ Len(keys) \in Nat /\ left \in Nat /\ stage \in StaffStages \cup RecordStages
  BY LeftToHire, Listed DEF StaffInv, StaffTyped
<1>2. Chapter \in 0 .. 30
  <2>1. CASE stage \in StaffStages
    BY <2>1 DEF Chapter, Number, StaffStages
  <2>2. CASE stage \in {"profiles", "leave", "attendance", "training", "reviews", "products", "customers",
                        "allocation", "remainder", "dates", "orders", "revenue", "targets"}
    BY <2>2 DEF Chapter, Number
  <2>3. CASE stage \in {"expenses", "budgets", "policies", "payroll", "comparison", "contracts",
                        "leaders", "news", "vacancies", "about", "recorded"}
    BY <2>3 DEF Chapter, Number
  <2> QED  BY <1>1, <2>1, <2>2, <2>3 DEF RecordStages
<1>3. CASE stage = "balance"
  <2>1. Allocated \in Nat /\ total \in Nat
    BY <1>3, Given
  <2> QED  BY <1>1, <1>2, <1>3, <2>1 DEF ToDo, Within, Distance
<1>4. CASE stage \in {"head", "staff"}
  BY <1>1, <1>2, <1>4 DEF ToDo, Within
<1>5. CASE stage \in {"remainder", "dates"}
  <2>1. /\ quota \in [_month_starts -> Nat] /\ Wanted \in Nat /\ order_dates \in Seq(history_start .. history_end)
        /\ stage = "remainder" => Allotted <= Wanted
        /\ stage = "dates" => Allotted + Len(order_dates) = Wanted
    BY <1>1, <1>5, WholeShares DEF LedgerInv, SharesInv
  <2>2. Allotted \in Nat
    <3>1. Allotted = SumFunctionOnSet(quota, _month_starts)
      BY <2>1 DEF Allotted, SumFunction
    <3>2. (\A y \in _month_starts : quota[y] \in Nat) /\ _month_starts \in SUBSET _month_starts
      BY <2>1
    <3> QED  BY <3>1, <3>2, MonthsInside, SumsNest
  <2>3. Len(order_dates) \in Nat
    BY <2>1
  <2> QED  BY <1>2, <1>5, <2>1, <2>2, <2>3 DEF ToDo, Within
<1>6. CASE stage \notin {"balance", "head", "staff", "remainder", "dates"}
  <2>1. stage \in Looping => Rounds[stage] \in Int
    BY <1>1, RoundsTyped
  <2> QED  BY <1>1, <1>2, <1>6, <2>1 DEF ToDo, Within
<1> QED  BY <1>3, <1>4, <1>5, <1>6

\* Whatever is asked for, generation comes to an end: with every step a later stage
\* is reached, or there is less left of the one in hand, and neither can go on for
\* ever.  That it stops nowhere else than at its end is what TLC checks (Generates).
THEOREM GenerationEnds ==
  DataSpec => /\ [](Chapter \in 0 .. 30 /\ ToDo \in Nat /\ Within \in Nat)
              /\ [][Nearer]_dataVars
<1>1. DataInit => OneEach
  BY DEF DataInit, StaffInit, OneEach
<1>2. StaffInv /\ OneEach /\ [DataNext]_dataVars => OneEach'
  BY OneEachKept
<1>3. StaffInv /\ LedgerInv => Chapter \in 0 .. 30 /\ ToDo \in Nat /\ Within \in Nat
  BY ToDoCounts
<1>4. StaffInv /\ LedgerInv /\ OneEach /\ [DataNext]_dataVars => [Nearer]_dataVars
  <2> SUFFICES ASSUME StaffInv, LedgerInv, OneEach, DataNext
               PROVE  Nearer
    OBVIOUS
  <2>1. /\ company \in Company /\ Len(users) \in Nat /\ item \in Nat
    BY DEF StaffInv, StaffTyped
  <2>2. CASE Refuse \/ Divide \/ HireCEO \/ PairPersonas \/ MoveReports \/ NoManagerPersona
    BY <2>2, StaffNearer
  <2>3. CASE Balance
    BY <2>3, BalanceNearer
  <2>4. CASE HireHead \/ HireLead \/ HireMember \/ NextDepartment
    BY <2>4, HiresNearer
  <2>5. CASE Enrol \/ Allot \/ Allocate_dates \/ StartOrders \/ ReportRevenue \/ SetTargets
           \/ SetBudgets \/ Introduce
    BY <2>5, StagesNearer
  <2>6. CASE HandOut \/ DrawDate
    BY <2>1, <2>6, OrdersNearer DEF LedgerInv
  <2>7. CASE AddProfile \/ RequestLeave \/ Attend \/ Train \/ Review \/ AddProduct \/ AddCustomer
           \/ AddOrder \/ AddExpense \/ PublishNews \/ Advertise
    BY <2>1, <2>7, LoopsNearer
  <2>8. CASE WritePolicy \/ FilePayroll \/ Compare \/ WriteContract \/ PublishAbout
    BY <2>1, <2>8, LegalNearer
  <2> QED
    BY <2>2, <2>3, <2>4, <2>5, <2>6, <2>7, <2>8 DEF DataNext, Staff, StaffNext
<1>5. DataSpec => [](StaffInv /\ LedgerInv)
  <2>1. DataInv => StaffInv
    BY DEF DataInv
  <2> QED  BY <2>1, LedgerAlways, PTL
<1> QED
  BY <1>1, <1>2, <1>3, <1>4, <1>5, PTL DEF DataSpec
=============================================================================
