--------------------------- MODULE SeedLifecycle ----------------------------
(***************************************************************************)
(* The life of a demo environment over four stores with no transaction     *)
(* between them: seed, reset, verify and credentials (eaios_seed cli.py),  *)
(* run by operators who may run two at once, over loaders/stores.py,       *)
(* credentials.py and the shared provisioner of payload indexes.  A run    *)
(* may die between any two calls to a store.  The application writes       *)
(* while they run; ingestion, which is not written yet, is taken to check  *)
(* a collection (preflight) and to write into it in one step.              *)
(***************************************************************************)
EXTENDS Naturals

CONSTANTS
    Op,             \* operators, each with one command at a time
    Profile,        \* known profiles
    Typo,           \* what is asked for and is none of them
    File, Files,    \* object keys, and those of each profile's dataset
    Collection,     \* QDRANT_COLLECTIONS
    Field,          \* REQUIRED_PAYLOAD_INDEXES
    None

ASSUME SeedAssumption ==
    /\ Typo \notin Profile /\ None \notin Profile \cup {Typo}
    /\ Files \in [Profile -> SUBSET File]

VARIABLES
    rows,           \* profile of the dataset and of its manifest, committed together
    object,         \* key -> the profile whose content it holds
    created,        \* collections that exist
    index,          \* collection -> its indexed fields
    points,         \* collections that hold points
    extra,          \* what the application and credentials add
    pc, job,        \* each operator's command and where it is
    disturbed,      \* a run died half-way, or a reset overlapped another run
    stale           \* what of extra was there before the reset that runs alone

vectors == <<created, index, points>>
stores == <<rows, object, vectors, extra>>
vars == <<stores, pc, job, disturbed, stale>>

Ended == {"done", "refused", "unverified", "dead"}
Committed == {"upload", "create", "index"}      \* past load_relational
Stages == Ended \cup Committed
          \cup {"look", "look_objects", "look_points", "look_keys", "load", "truncate",
                "list", "remove", "drop", "flush_cache", "flush_bounds", "config", "audit"}
Extras == {"runtime", "cache", "bound"}     \* RUNTIME_TABLES, and two kinds of keys

\* left: what the loop has still to do; alone: no other run meanwhile.
Jobs == [cmd : {"seed", "reset", "verify"}, profile : Profile \cup {Typo, None},
         left : SUBSET (File \cup Collection), alone : BOOLEAN]
NoJob == [cmd |-> "verify", profile |-> None, left |-> {}, alone |-> FALSE]

Busy(o) == pc[o] \notin Ended
Profiled(o) == job[o].profile

Complete(p) ==
    /\ rows = p
    /\ object = [f \in File |-> IF f \in Files[p] THEN p ELSE None]
    /\ created = Collection /\ index = [c \in Collection |-> Field]

TypeOK ==
    /\ rows \in Profile \cup {None}
    /\ object \in [File -> Profile \cup {None}]
    /\ index \in [Collection -> SUBSET Field]
    /\ points \subseteq created /\ created \subseteq Collection
    /\ stale \subseteq extra /\ extra \subseteq Extras
    /\ pc \in [Op -> Stages]
    /\ job \in [Op -> Jobs]
    /\ disturbed \in BOOLEAN
    /\ \A o \in Op : pc[o] \in Committed \cup {"load"} => Profiled(o) \in Profile

Init ==
    /\ rows = None
    /\ object = [f \in File |-> None]
    /\ created = {} /\ index = [c \in Collection |-> {}]
    /\ points = {}
    /\ extra = {} /\ stale = {}
    /\ pc = [o \in Op |-> "done"]
    /\ job = [o \in Op |-> NoJob]
    /\ disturbed = FALSE

-----------------------------------------------------------------------------
(* A command is started.  seed and verify look at the profile first; reset *)
(* has its three gates, passed here, and inspects only to print.           *)
Start(o, c, p) ==
    /\ ~Busy(o)
    /\ c # "reset" => p # Typo
    /\ pc' = [pc EXCEPT ![o] = IF c = "reset" THEN "truncate" ELSE "look"]
    /\ LET others == {q \in Op : Busy(q)}
       IN  /\ job' = [q \in Op |->
                IF q = o THEN [cmd |-> c, profile |-> p, left |-> {},
                               alone |-> others = {}]
                ELSE [job[q] EXCEPT !.alone = FALSE]]
           /\ disturbed' = (disturbed \/ \E q \in others :
                {c, job[q].cmd} \in {{"reset"}, {"reset", "seed"}})
           /\ stale' = IF c = "reset" /\ others = {} THEN extra ELSE {}
    /\ UNCHANGED stores

\* _config: an unknown profile is refused.
RejectProfile(o, c) ==
    /\ ~Busy(o) /\ c # "reset"
    /\ pc' = [pc EXCEPT ![o] = "refused"]
    /\ UNCHANGED <<stores, job, disturbed, stale>>

Go(o, next, rest) ==
    /\ pc' = [pc EXCEPT ![o] = next]
    /\ job' = [job EXCEPT ![o].left = rest]
End(o, outcome) ==
    /\ pc' = [pc EXCEPT ![o] = outcome]
    /\ job' = [job EXCEPT ![o] = NoJob]

\* A traceback, or the end of the process.  Nothing is undone but the
\* transaction that was open.
Die(o) ==
    /\ Busy(o)
    /\ End(o, "dead")
    /\ disturbed' = (disturbed \/ pc[o] \in Committed)
    /\ stale' = {}
    /\ UNCHANGED stores

-----------------------------------------------------------------------------
(* seed's inspection, one store after the other.  The bounds are not cache *)
(* namespaces and are not counted.                                         *)
Inspect(o, at, found, next) ==
    /\ pc[o] = at /\ job[o].cmd = "seed"
    /\ IF found THEN End(o, "refused") ELSE Go(o, next, {})
    /\ UNCHANGED <<stores, disturbed, stale>>

InspectRows(o) == Inspect(o, "look", rows # None, "look_objects")
InspectObjects(o) == Inspect(o, "look_objects", \E f \in File : object[f] # None, "look_points")
InspectPoints(o) == Inspect(o, "look_points", points # {}, "look_keys")
InspectKeys(o) == Inspect(o, "look_keys", "cache" \in extra, "load")

\* Faulty variant: a dataset loaded over another one, as an upsert would.
LoadRelationalOver(o) ==
    /\ pc[o] = "load"
    /\ rows' = Profiled(o)
    /\ Go(o, "upload", Files[Profiled(o)])
    /\ UNCHANGED <<object, vectors, extra, disturbed, stale>>

\* load_relational: one transaction; the identifiers are derived, so that a
\* second dataset breaks a primary key and is rolled back (Die).
LoadRelational(o) ==
    /\ pc[o] = "load" /\ rows = None
    /\ rows' = Profiled(o)
    /\ Go(o, "upload", Files[Profiled(o)])
    /\ UNCHANGED <<object, vectors, extra, disturbed, stale>>

LoadObject(o, f) ==
    /\ pc[o] = "upload" /\ f \in job[o].left
    /\ object' = [object EXCEPT ![f] = Profiled(o)]
    /\ Go(o, "upload", job[o].left \ {f})
    /\ UNCHANGED <<rows, vectors, extra, disturbed, stale>>

LoadedObjects(o) ==
    /\ pc[o] = "upload" /\ job[o].left = {}
    /\ Go(o, "create", Collection)
    /\ UNCHANGED <<stores, disturbed, stale>>

\* provision_qdrant takes a collection up and creates it where it is missing.
CreateCollection(o, c) ==
    /\ pc[o] = "create" /\ c \in job[o].left
    /\ created' = created \cup {c}
    /\ Go(o, "index", job[o].left)
    /\ UNCHANGED <<rows, object, index, points, extra, disturbed, stale>>

\* ensure_payload_indexes creates the missing ones.  On a collection that holds
\* points, or was dropped meanwhile, the run fails (Die).
EnsureIndex(o, c, field) ==
    /\ pc[o] = "index" /\ c \in job[o].left
    /\ c \in created \ points
    /\ field \notin index[c]
    /\ index' = [index EXCEPT ![c] = @ \cup {field}]
    /\ Go(o, "index", job[o].left)
    /\ UNCHANGED <<rows, object, created, points, extra, disturbed, stale>>

\* missing_payload_indexes reads them back; at the end the cache is pinged.
CheckIndexes(o, c) ==
    /\ pc[o] = "index" /\ c \in job[o].left
    /\ c \in created
    /\ Field \subseteq index[c]
    /\ IF job[o].left = {c} THEN End(o, "done") ELSE Go(o, "create", job[o].left \ {c})
    /\ UNCHANGED <<stores, disturbed, stale>>

-----------------------------------------------------------------------------
(* reset_all: the tables in one transaction, then store by store.          *)
Truncate(o) ==
    /\ pc[o] = "truncate"
    /\ rows' = None
    /\ extra' = extra \ {"runtime"} /\ stale' = stale \ {"runtime"}
    /\ Go(o, "list", {})
    /\ disturbed' = (disturbed /\ ~job[o].alone)
    /\ UNCHANGED <<object, vectors>>

ListObjects(o) ==
    /\ pc[o] = "list"
    /\ Go(o, "remove", {f \in File : object[f] # None})
    /\ UNCHANGED <<stores, disturbed, stale>>

RemoveObject(o, f) ==
    /\ pc[o] = "remove" /\ f \in job[o].left
    /\ object' = [object EXCEPT ![f] = None]
    /\ Go(o, "remove", job[o].left \ {f})
    /\ UNCHANGED <<rows, vectors, extra, disturbed, stale>>

ListCollections(o) ==
    /\ pc[o] = "remove" /\ job[o].left = {}
    /\ Go(o, "drop", created)
    /\ UNCHANGED <<stores, disturbed, stale>>

DropCollection(o, c) ==
    /\ pc[o] = "drop" /\ c \in job[o].left
    /\ created' = created \ {c} /\ points' = points \ {c}
    /\ index' = [index EXCEPT ![c] = {}]
    /\ Go(o, "drop", job[o].left \ {c})
    /\ UNCHANGED <<rows, object, extra, disturbed, stale>>

DroppedCollections(o) ==
    /\ pc[o] = "drop" /\ job[o].left = {}
    /\ Go(o, "flush_cache", {})
    /\ UNCHANGED <<stores, disturbed, stale>>

Flush(o, at, kind, next) ==
    /\ pc[o] = at
    /\ extra' = extra \ {kind} /\ stale' = stale \ {kind}
    /\ Go(o, next, {})
    /\ UNCHANGED <<rows, object, vectors, disturbed>>

FlushCache(o) == Flush(o, "flush_cache", "cache", "flush_bounds")
\* Faulty variant: the bounds keep their keys, as they did before the second scan.
FlushBoundsForgotten(o) ==
    /\ pc[o] = "flush_bounds"
    /\ Go(o, "config", {})
    /\ UNCHANGED <<stores, disturbed, stale>>

FlushBounds(o) == Flush(o, "flush_bounds", "bound", "config")

\* Only now is the profile looked at.
Configure(o) ==
    /\ pc[o] = "config"
    /\ IF Profiled(o) = Typo THEN End(o, "refused") ELSE Go(o, "load", {})
    /\ UNCHANGED <<stores, disturbed, stale>>

-----------------------------------------------------------------------------
(* verify reads the marker of the manifest, goes on with the profile it    *)
(* finds there, and audits the tables on another connection.  It looks at  *)
(* no other store, and the audit passes over empty tables.                 *)
\* Faulty variant: the marker's absence is no reason to stop.
ReadMarkerAbsent(o) ==
    /\ pc[o] = "look" /\ job[o].cmd = "verify"
    /\ pc' = [pc EXCEPT ![o] = "audit"]
    /\ job' = [job EXCEPT ![o].profile = rows]
    /\ UNCHANGED <<stores, disturbed, stale>>

ReadMarker(o) ==
    /\ pc[o] = "look" /\ job[o].cmd = "verify"
    /\ IF rows = None THEN End(o, "unverified")
       ELSE /\ pc' = [pc EXCEPT ![o] = "audit"]
            /\ job' = [job EXCEPT ![o].profile = rows]
    /\ UNCHANGED <<stores, disturbed, stale>>

CompareFingerprints(o) ==
    /\ pc[o] = "audit"
    /\ End(o, "done")
    /\ UNCHANGED <<stores, disturbed, stale>>

Step(o) ==
    \/ InspectRows(o) \/ InspectObjects(o) \/ InspectPoints(o) \/ InspectKeys(o)
    \/ LoadRelational(o) \/ LoadedObjects(o)
    \/ \E f \in File : LoadObject(o, f) \/ RemoveObject(o, f)
    \/ \E c \in Collection :
        \/ CreateCollection(o, c) \/ CheckIndexes(o, c) \/ DropCollection(o, c)
        \/ \E field \in Field : EnsureIndex(o, c, field)
    \/ Truncate(o) \/ ListObjects(o) \/ ListCollections(o) \/ DroppedCollections(o)
    \/ FlushCache(o) \/ FlushBounds(o) \/ Configure(o)
    \/ ReadMarker(o) \/ CompareFingerprints(o)

\* provision_credentials, in one transaction over the users there are, and the
\* application, which writes rows of the dataset's companies.
AddRuntimeRows ==
    /\ rows # None
    /\ extra' = extra \cup {"runtime"} /\ stale' = stale \ {"runtime"}
    /\ UNCHANGED <<rows, object, vectors, pc, job, disturbed>>

AddKey(kind) ==
    /\ extra' = extra \cup {kind} /\ stale' = stale \ {kind}
    /\ UNCHANGED <<rows, object, vectors, pc, job, disturbed>>

\* Faulty variant: one index is enough to go on.
PreflightAny(c) == c \in created /\ index[c] # {}

\* preflight: an unreadable or unindexed collection is refused.
Preflight(c) == c \in created /\ Field \subseteq index[c]

Ingest(c) ==
    /\ Preflight(c)
    /\ points' = points \cup {c}
    /\ UNCHANGED <<rows, object, created, index, extra, pc, job, disturbed, stale>>

Next ==
    \/ \E o \in Op, c \in {"seed", "reset", "verify"} :
        RejectProfile(o, c) \/ \E p \in Profile \cup {Typo} : Start(o, c, p)
    \/ \E o \in Op : Step(o) \/ Die(o)
    \/ AddRuntimeRows
    \/ \E kind \in {"cache", "bound"} : AddKey(kind)
    \/ \E c \in Collection : Ingest(c)

Spec == Init /\ [][Next]_vars

-----------------------------------------------------------------------------
(* FR-014b: an environment with a manifest holds its dataset in every      *)
(* store, and nothing of another, unless a run is still at it, has died    *)
(* after its rows were committed, or a reset overlapped another run.       *)
WholeUnlessDisturbed ==
    (rows # None /\ ~disturbed) =>
        /\ \A f \in File : object[f] # None => f \in Files[rows] /\ object[f] = rows
        /\ Complete(rows) \/ \E o \in Op : pc[o] \in Committed /\ Profiled(o) = rows

\* What holds points can be filtered by every field of the retrieval filter,
\* whatever run was interrupted at whichever index (FR-041, preflight.py).
PointsFilterable == \A c \in points : index[c] = Field

Succeeds(o, commands) ==
    Busy(o) /\ job[o].alone /\ job[o].cmd \in commands /\ pc'[o] = "done"

\* A seed or reset that reports success and had no other run beside it leaves
\* the whole dataset, from whatever earlier runs left behind; after a reset no
\* row and no key of before is there (cli.py, "Destroy all local data and
\* regenerate").
SuccessIsComplete ==
    [][\A o \in Op : Succeeds(o, {"seed", "reset"}) =>
        /\ \E p \in Profile : p = Profiled(o) /\ Complete(p)'
        /\ stale' = {}]_vars

\* What verify passes, with nothing beside it, is complete, unless a run died
\* after its commit or a reset was overlapped: the marker alone says no more.
VerifyVouches ==
    [][\A o \in Op : Succeeds(o, {"verify"}) /\ ~disturbed =>
        \E p \in Profile : p = Profiled(o) /\ Complete(p)]_vars
=============================================================================
