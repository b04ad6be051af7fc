-------------------------------- MODULE Site --------------------------------
(***************************************************************************)
(* The public website: one visitor's tab, the pages rendered on the server *)
(* (apps/web/app), the status page that polls, the contact form, and the   *)
(* anonymous routes of the API behind them (public/, health/), over stores *)
(* that fail, an API that goes away and a dataset that is reseeded.        *)
(*                                                                         *)
(* A list is the set of its rows.  Services, products and offices are one  *)
(* row, SomeRow, which is there while a dataset is.                        *)
(***************************************************************************)
EXTENDS FiniteSets, Naturals, Functions

CONSTANTS
    Nothing, SomeRow,
    Refresh,      \* bound: refreshes of the status page under way at a time
    Call,         \* bound: submissions of the form under way at a time
    Store,        \* what readiness reports on
    Failures,     \* of a store: the conditions it may be in but up
    Profile, Vacancy, Message,
    Contents,     \* what the dataset may be
    MaxChanges    \* bound: failures of a store or the API, and new datasets

\* A store refuses connections when down, is out of reach when cut, and takes a
\* connection but never answers on it when wedged.
Conditions == {"up", "down", "cut", "wedged"}
Statuses == {"up", "down", "timeout"}

ASSUME SiteAssumption ==
    /\ {"postgres", "redis", "worker"} \subseteq Store
    /\ Failures \in [Store -> SUBSET (Conditions \ {"up"})]
    /\ Contents \subseteq [seeded : BOOLEAN, profiles : SUBSET Profile,
                           hidden : SUBSET Profile, open : SUBSET Vacancy]
    /\ \A c \in Contents :
        /\ c.hidden \subseteq c.profiles
        /\ ~c.seeded => c.profiles = {} /\ c.open = {}
    /\ IsFiniteSet(Profile)
    /\ MaxChanges \in Nat

VARIABLES
    health, api, content, changes,  \* the world: stores, the API, the dataset
    page, wanted,                   \* where the visitor is; the vacancies of filter or slug
    regions,                        \* what each region of the page has read
    reading,                        \* the transaction of the leadership route
    board, loads,                   \* the status page and its refreshes
    form, calls,                    \* the contact form and its calls
    kept                            \* history: messages stored since the page was opened

world == <<health, api, content, changes>>
place == <<page, wanted>>
status == <<board, loads>>
contact == <<form, calls, kept>>
siteVars == <<world, place, regions, reading, status, contact>>

\* The regions a page asks for, each on one page only.  The contact page is
\* two here, the form and the addresses beside it.
Paths == [home |-> {"services", "openings"}, addresses |-> {"offices", "company"},
          leadership |-> {"leadership"}, careers |-> {"vacancies", "matching"},
          role |-> {"role"}, contact |-> {}, status |-> {}]
Regions == UNION {Paths[p] : p \in DOMAIN Paths}

Unasked == [state |-> "unasked", list |-> {}, seen |-> {}]
\* History in reading: the profiles that would not resolve at any moment of it
\* (missing) or at some moment (hid), and those of rows gone at the count (lost).
NotReading == [stage |-> "idle", rows |-> {}, missing |-> {},
               hid |-> {}, lost |-> {}, recorded |-> {}]
Unchecked == [d \in Store |-> Nothing]
\* History in a refresh: what was so since it was asked.
Idle == [asked |-> FALSE, rows |-> Unchecked, manifest |-> "unread", seen |-> {}]
Mounted == [state |-> "loading", rows |-> Unchecked, manifest |-> "none"]
NoForm == [status |-> "idle", message |-> Nothing]
NoCall == [stage |-> "none", message |-> Nothing, live |-> FALSE]

SiteTypeOK ==
    /\ health \in [Store -> Conditions]
    /\ api \in BOOLEAN
    /\ content \in Contents
    /\ changes \in 0 .. MaxChanges
    /\ page \in DOMAIN Paths
    /\ wanted \subseteq Vacancy
    /\ DOMAIN regions = Regions
    /\ \A r \in Regions :
        /\ regions[r].state \in {"unasked", "waiting", "failed", "read"}
        /\ (regions[r].state = "unasked") <=> (r \notin Paths[page])
    /\ reading.stage \in {"idle", "count", "orders"}
    /\ reading.stage # "idle" => regions["leadership"].state = "waiting"
    /\ board \in [state : {"loading", "loaded", "error"},
                  rows : [Store -> Statuses \cup {Nothing}], manifest : {"none", "seeded"}]
    /\ DOMAIN loads = Refresh
    /\ \A l \in Refresh :
        /\ loads[l].asked \in BOOLEAN
        /\ loads[l].rows \in [Store -> Statuses \cup {Nothing}]
        /\ loads[l].manifest \in {"unread", "none", "seeded"}
    /\ form \in [status : {"idle", "submitting", "sent", "failed", "bounded"},
                 message : Message \cup {Nothing}]
    /\ calls \in [Call -> [stage : {"none", "sent", "kept", "refused", "invalid", "broken"},
                           message : Message \cup {Nothing}, live : BOOLEAN]]
    /\ Cardinality({c \in Call : calls[c].live}) <= 1
    /\ kept \subseteq Message

SiteInit ==
    /\ health = [d \in Store |-> "up"]
    /\ api = TRUE
    /\ content \in Contents
    /\ changes = 0
    /\ page = "status" /\ wanted = {}
    /\ regions = [r \in Regions |-> Unasked]
    /\ reading = NotReading
    /\ board = Mounted /\ loads = [l \in Refresh |-> Idle]
    /\ form = NoForm /\ calls = [c \in Call |-> NoCall] /\ kept = {}

-----------------------------------------------------------------------------
(* The reads of the public routes: each is one statement, but leadership.  *)

Answering == api /\ health["postgres"] = "up"

\* What is cut off is refused by the network in the end; what is wedged never is.
Refusing == ~api \/ health["postgres"] \in {"down", "cut"}

PublicRows(c) == IF c.seeded THEN {SomeRow} ELSE {}
VisibleLeaders(c) == c.profiles \ c.hidden

\* By office and department, or by slug; a closed one is absent.
Matching(c, some) == c.open \cap some

\* What route r returns of dataset c, asked for the vacancies in some.
List(r, c, some) ==
    CASE r \in {"services", "offices", "company"} -> PublicRows(c)
      [] r \in {"openings", "vacancies"} -> c.open
      [] r \in {"matching", "role"} -> Matching(c, some)
      [] r = "leadership" -> VisibleLeaders(c)

\* A visitor opens a page, reloads it, or follows a link; what the last one
\* held is gone, and what was asked for it goes on in the API without a reader,
\* followed no further here.  (A reload is a visit of another page and back.)
Visit(p, some) ==
    /\ some # {} => p \in {"careers", "role"}
    /\ p # page
    /\ page' = p /\ wanted' = some
    /\ regions' = [r \in Regions |->
           IF r \in Paths[p]
           THEN [state |-> "waiting", list |-> {}, seen |-> {List(r, content, some)}]
           ELSE Unasked]
    /\ reading' = NotReading
    /\ board' = Mounted /\ loads' = [l \in Refresh |-> Idle]
    /\ form' = NoForm /\ calls' = [c \in Call |-> NoCall] /\ kept' = {}
    /\ UNCHANGED world

Settle(r, state, list) ==
    /\ regions[r].state = "waiting"
    /\ regions' = [regions EXCEPT ![r].state = state, ![r].list = list]

\* The route answers; company() finds no row to return before a seed.
ReadRegion(r) ==
    /\ Answering
    /\ r # "leadership"
    /\ r = "company" => content.seeded
    /\ Settle(r, "read", List(r, content, wanted))
    /\ UNCHANGED <<world, place, reading, status, contact>>

Rowless(r) == r = "company" /\ Answering /\ ~content.seeded

\* Faulty variant: a read that fails comes back as a list with nothing in it.
FailRegionEmpty(r) ==
    /\ Refusing \/ Rowless(r)
    /\ r = "leadership" => reading.stage = "idle"
    /\ Settle(r, "read", {})
    /\ UNCHANGED <<world, place, reading, status, contact>>

\* The call is refused, or answered with a 500.
FailRegion(r) ==
    /\ Refusing \/ Rowless(r)
    /\ r = "leadership" => reading.stage = "idle"
    /\ Settle(r, "failed", {})
    /\ UNCHANGED <<world, place, reading, status, contact>>

\* Faulty variant: a read waits as long as it takes.
WaitOn(r) ==
    /\ Refusing
    /\ Settle(r, "failed", {})
    /\ reading' = NotReading
    /\ UNCHANGED <<world, place, status, contact>>

\* getJson gives up after ten seconds.
GiveUp(r) ==
    /\ Settle(r, "failed", {})
    /\ reading' = NotReading
    /\ UNCHANGED <<world, place, status, contact>>

\* What the visitor sees of region r: an answer is populated or empty, and
\* anything thrown is an error.
Section(r) ==
    CASE regions[r].state = "waiting" -> "blank"
      [] regions[r].state = "failed" -> "error"
      [] regions[r].state = "read" -> IF regions[r].list = {} THEN "empty" ELSE "items"

Throws(rs) == \E r \in rs : regions[r].state = "failed"
Awaits(rs) == \E r \in rs : regions[r].state = "waiting"

\* The whole list and the filtered one, awaited together.
CareersPage ==
    IF Throws(Paths.careers) THEN "error"
    ELSE IF Awaits(Paths.careers) THEN "blank" ELSE Section("matching")

\* The addresses and the company's domain, awaited together.
Addresses ==
    IF Throws(Paths.addresses) THEN "error"
    ELSE IF Awaits(Paths.addresses) THEN "blank" ELSE Section("offices")

\* One vacancy: what is absent is not found, what fails is thrown.
VacancyPage == IF Section("role") = "empty" THEN "not found" ELSE Section("role")

Screen(r) ==
    CASE r = "matching" -> CareersPage
      [] r = "offices" -> Addresses
      [] r = "role" -> VacancyPage
      [] OTHER -> Section(r)

-----------------------------------------------------------------------------
(* leadership: the join, the count, and if they differ the record of what  *)
(* the join dropped, in one transaction of READ COMMITTED statements.      *)

JoinLeaders ==
    /\ Answering
    /\ reading.stage = "idle"
    /\ regions["leadership"].state = "waiting"
    /\ reading' = [stage |-> "count", rows |-> VisibleLeaders(content),
                   missing |-> content.hidden, hid |-> content.hidden,
                   lost |-> {}, recorded |-> {}]
    /\ UNCHANGED <<world, place, regions, status, contact>>

Answer == Settle("leadership", "read", reading.rows)

Omits == Cardinality(content.profiles) > Cardinality(reading.rows)
Lost == reading.rows \ content.profiles

\* Faulty variant: what the join drops goes without a record.
CountLeadersOnly ==
    /\ Answering
    /\ reading.stage = "count"
    /\ reading' = [reading EXCEPT !.stage = "idle", !.lost = Lost]
    /\ Answer
    /\ UNCHANGED <<world, place, status, contact>>

CountLeaders ==
    /\ Answering
    /\ reading.stage = "count"
    /\ reading' = [reading EXCEPT !.stage = IF Omits THEN "orders" ELSE "idle",
                                  !.lost = Lost]
    /\ IF Omits THEN UNCHANGED regions ELSE Answer
    /\ UNCHANGED <<world, place, status, contact>>

\* The display orders the outer join finds are those of this statement.
RecordOmission ==
    /\ Answering
    /\ reading.stage = "orders"
    /\ reading' = [reading EXCEPT !.stage = "idle", !.recorded = content.hidden]
    /\ Answer
    /\ UNCHANGED <<world, place, status, contact>>

\* The transaction is rolled back, the entry with it.
BreakReading ==
    /\ Refusing
    /\ reading.stage # "idle"
    /\ reading' = NotReading
    /\ Settle("leadership", "failed", {})
    /\ UNCHANGED <<world, place, status, contact>>

-----------------------------------------------------------------------------
(* The status page: readiness and the manifest, every ten seconds, without *)
(* waiting for what is under way.                                          *)

\* By the name of the exception: the client of redis calls a timeout one, while
\* that of the database's driver arrives as an OperationalError.
Classified(d, condition) ==
    CASE condition = "up" -> "up"
      [] condition = "down" -> "down"
      [] condition \in {"cut", "wedged"} -> IF d = "redis" THEN "timeout" ELSE "down"

\* Any worker's reply to a ping over the broker, in time; how kombu names its
\* failure to connect is left open.  A broker that wedges while a reply is
\* awaited is taken for no reply, and one that was wedged before keeps the
\* probe waiting, for connecting is bounded and reading is not.
CheckWorker(h) ==
    CASE h["redis"] = "up" -> {IF h["worker"] = "up" THEN "up" ELSE "down"}
      [] h["redis"] \in {"down", "cut"} -> {"down", "timeout"}
      [] h["redis"] = "wedged" -> {"down"}

\* What the probe of d may report when the stores are as h.
Check(h, d) == IF d = "worker" THEN CheckWorker(h) ELSE {Classified(d, h[d])}

Manifest(c) == IF c.seeded THEN "seeded" ELSE "none"

\* What a refresh may be told, and what it may have been told since it was asked.
Facts(h, c) ==
    {told \in Store \X Statuses : told[2] \in Check(h, told[1])}
        \cup {<<"manifest", Manifest(c)>>}
Witness(h, c) ==
    loads' = [l \in Refresh |->
        IF loads[l].asked THEN [loads[l] EXCEPT !.seen = @ \cup Facts(h, c)] ELSE loads[l]]

\* The mount, the interval, or the button.
Poll(l) ==
    /\ page = "status"
    /\ ~loads[l].asked
    /\ loads' = [loads EXCEPT ![l] =
                    [Idle EXCEPT !.asked = TRUE, !.seen = Facts(health, content)]]
    /\ board' = [board EXCEPT !.state = "loading"]
    /\ UNCHANGED <<world, place, regions, reading, contact>>

\* readiness runs its probes side by side, each in a thread of its own; none
\* has to end.
Probe(l, d) ==
    /\ api
    /\ loads[l].asked /\ loads[l].rows[d] = Nothing
    /\ \E report \in Check(health, d) : loads' = [loads EXCEPT ![l].rows[d] = report]
    /\ UNCHANGED <<world, place, regions, reading, board, contact>>

ReadManifest(l) ==
    /\ Answering
    /\ loads[l].asked /\ loads[l].manifest = "unread"
    /\ loads' = [loads EXCEPT ![l].manifest = Manifest(content)]
    /\ UNCHANGED <<world, place, regions, reading, board, contact>>

Ready(l) == loads[l].asked /\ Nothing \notin Range(loads[l].rows)
Gathered(l) == Ready(l) /\ loads[l].manifest # "unread"

\* Faulty variant: readiness is shown when it is there, and the manifest when it
\* has come with it.
ShowReadinessFirst(l) ==
    /\ Ready(l)
    /\ board' = [state |-> "loaded", rows |-> loads[l].rows,
                 manifest |-> IF loads[l].manifest = "unread" THEN board.manifest
                              ELSE loads[l].manifest]
    /\ loads' = [loads EXCEPT ![l] = Idle]
    /\ UNCHANGED <<world, place, regions, reading, contact>>

\* Both answers are there; what a later refresh has shown is overwritten.
ShowBoard(l) ==
    /\ Gathered(l)
    /\ board' = [state |-> "loaded", rows |-> loads[l].rows, manifest |-> loads[l].manifest]
    /\ loads' = [loads EXCEPT ![l] = Idle]
    /\ UNCHANGED <<world, place, regions, reading, contact>>

\* Either call fails: the proxy's 502, or the manifest's 500.
FailLoad(l) ==
    /\ loads[l].asked /\ ~Gathered(l)
    /\ ~api \/ (Refusing /\ loads[l].manifest = "unread")
    /\ board' = [board EXCEPT !.state = "error"]
    /\ loads' = [loads EXCEPT ![l] = Idle]
    /\ UNCHANGED <<world, place, regions, reading, contact>>

-----------------------------------------------------------------------------
(* The contact form; what the API does with a submission is in Contact.    *)

\* The button is disabled while a submission is under way.
SubmitMessage(c, m) ==
    /\ page = "contact"
    /\ form.status \in {"idle", "failed", "bounded"}
    /\ calls[c].stage = "none"
    /\ form' = [status |-> "submitting", message |-> m]
    /\ calls' = [calls EXCEPT ![c] = [stage |-> "sent", message |-> m, live |-> TRUE]]
    /\ UNCHANGED <<world, place, regions, reading, status, kept>>

Becomes(c, stage) == calls' = [calls EXCEPT ![c].stage = stage]

\* 202: stored now, or there already.
Keep(c) ==
    /\ Answering
    /\ calls[c].stage = "sent"
    /\ kept' = kept \cup {calls[c].message}
    /\ Becomes(c, "kept")
    /\ UNCHANGED <<world, place, regions, reading, status, form>>

\* 429 or 422.
Refuse(c) ==
    /\ api
    /\ calls[c].stage = "sent"
    /\ Becomes(c, "refused") \/ Becomes(c, "invalid")
    /\ UNCHANGED <<world, place, regions, reading, status, form, kept>>

\* A 500, or the proxy's 502, with the row stored or not.
Break(c) ==
    /\ \/ Refusing /\ calls[c].stage = "sent"
       \/ ~api /\ calls[c].stage = "kept"
    /\ Becomes(c, "broken")
    /\ UNCHANGED <<world, place, regions, reading, status, form, kept>>

Outcome(stage) ==
    [kept |-> "sent", refused |-> "bounded", invalid |-> "idle", broken |-> "failed"][stage]

\* Faulty variant: the answer to a call that was given up still counts.
DeliverAny(c) ==
    /\ calls[c].stage \notin {"none", "sent"}
    /\ form' = IF form.status # "idle"
               THEN [form EXCEPT !.status = Outcome(calls[c].stage)] ELSE form
    /\ calls' = [calls EXCEPT ![c] = NoCall]
    /\ UNCHANGED <<world, place, regions, reading, status, kept>>

Deliver(c) ==
    /\ calls[c].stage \notin {"none", "sent"}
    /\ form' = IF calls[c].live
               THEN [form EXCEPT !.status = Outcome(calls[c].stage)] ELSE form
    /\ calls' = [calls EXCEPT ![c] = NoCall]
    /\ UNCHANGED <<world, place, regions, reading, status, kept>>

\* submitContact gives up after ten seconds; proxy and API go on.
Expire(c) ==
    /\ calls[c].live
    /\ form' = [form EXCEPT !.status = "failed"]
    /\ calls' = [calls EXCEPT ![c].live = FALSE]
    /\ UNCHANGED <<world, place, regions, reading, status, kept>>

\* "Send another message".
Again ==
    /\ form.status = "sent"
    /\ form' = NoForm
    /\ UNCHANGED <<world, place, regions, reading, status, calls, kept>>

-----------------------------------------------------------------------------
(* The world: stores fail and recover, the API goes and comes back, the    *)
(* dataset is emptied, seeded and edited by its owner.                     *)

Counted == changes < MaxChanges /\ changes' = changes + 1

Fail ==
    /\ Counted
    /\ \/ /\ \E d \in Store : \E condition \in Failures[d] :
                health[d] = "up" /\ health' = [health EXCEPT ![d] = condition]
          /\ UNCHANGED api
       \/ api /\ api' = FALSE /\ UNCHANGED health
    /\ Witness(health', content)
    /\ UNCHANGED <<content, place, regions, reading, board, contact>>

Recover ==
    /\ \/ /\ \E d \in Store : health[d] # "up" /\ health' = [health EXCEPT ![d] = "up"]
          /\ UNCHANGED api
       \/ ~api /\ api' = TRUE /\ UNCHANGED health
    /\ Witness(health', content)
    /\ UNCHANGED <<content, changes, place, regions, reading, board, contact>>

Reseed ==
    /\ Counted
    /\ content' \in Contents \ {content}
    /\ regions' = [r \in Regions |->
           IF regions[r].state = "waiting"
           THEN [regions[r] EXCEPT !.seen = @ \cup {List(r, content', wanted)}]
           ELSE regions[r]]
    /\ reading' = IF reading.stage = "idle" THEN reading
                  ELSE [reading EXCEPT !.missing = @ \cap content'.hidden,
                                       !.hid = @ \cup content'.hidden]
    /\ Witness(health, content')
    /\ UNCHANGED <<health, api, place, board, contact>>

ReadingStep == JoinLeaders \/ CountLeaders \/ RecordOmission \/ BreakReading
RegionStep(r) == ReadRegion(r) \/ FailRegion(r) \/ GiveUp(r)
RefreshStep(l) == (\E d \in Store : Probe(l, d)) \/ ReadManifest(l) \/ ShowBoard(l) \/ FailLoad(l)
ServeStep(c) == Keep(c) \/ Refuse(c) \/ Break(c)
CallStep(c) == Deliver(c) \/ Expire(c)

SiteNext ==
    \/ \E p \in DOMAIN Paths, some \in SUBSET Vacancy : Visit(p, some)
    \/ \E r \in Regions : RegionStep(r)
    \/ ReadingStep
    \/ \E l \in Refresh : Poll(l) \/ RefreshStep(l)
    \/ \E c \in Call : (\E m \in Message : SubmitMessage(c, m)) \/ ServeStep(c) \/ CallStep(c)
    \/ Again
    \/ Fail \/ Recover \/ Reseed

SiteSpec == SiteInit /\ [][SiteNext]_siteVars

\* The timeouts of getJson and submitContact run out.  A refresh has none, in the
\* page, in the proxy or in all of its probes: nothing is assumed of it.
SiteFairSpec ==
    /\ SiteSpec
    /\ WF_siteVars(\E r \in Regions : GiveUp(r))
    /\ WF_siteVars(\E c \in Call : Expire(c))

-----------------------------------------------------------------------------
\* A page says "nothing here" or "not found" only if that was so at some
\* moment since it was opened, never for a failure, and a list it shows was
\* the whole list at one such moment (getJson of lib/api.ts, the pages that catch
\* what it throws, the routes of public/queries.py).
PagesTellTruth ==
    \A r \in Paths[page] :
        /\ Screen(r) \in {"empty", "not found"} => {} \in regions[r].seen
        /\ Screen(r) = "items" => regions[r].list \in regions[r].seen

\* Whatever failed or was reseeded while a page was read, what it shows is so.
SiteSound == SiteTypeOK /\ PagesTellTruth

\* A profile that would not resolve for the whole of a reading is named by the
\* entry committed with it before the page is answered without it, and the
\* entry names none that resolved all along (leadership, FR-013a).  The count
\* is compared with the rows of an earlier snapshot: such profiles go
\* unrecorded only if as many that the join had found were gone when it was
\* taken, so that the numbers agree.
OmissionRecorded ==
    /\ regions["leadership"].state = "read" =>
        \/ reading.missing \subseteq reading.recorded
        \/ Cardinality(reading.missing) <= Cardinality(reading.lost)
    /\ reading.recorded \subseteq reading.hid

\* The form says a message was received only when that message is stored, even
\* if answers come late and the visitor has written another one meanwhile
\* (onSubmit and submitContact, US4/AC5).
FormTellsTruth == form.status = "sent" => form.message \in kept

\* A visitor who stays on a page is answered, each time: what was asked for
\* is shown or given up, and the form takes submissions again (SC-014).
Pending == form.status = "submitting" \/ \E r \in Regions : regions[r].state = "waiting"
NothingHangs == <>[][page' = page]_page => []<>~Pending

\* However refreshes overlap, fail or never end, and whatever changes meanwhile,
\* what the status page comes to show are the two answers of one refresh, each
\* of them so at some moment since that refresh was asked (load of StatusPage,
\* FR-003): never the stores of one beside the dataset of another, or of none.
ToldBy(l, rows, manifest) ==
    /\ \A d \in Store : <<d, rows[d]>> \in loads[l].seen
    /\ <<"manifest", manifest>> \in loads[l].seen
OnScreen == <<page, board.rows, board.manifest>>
BoardTellsTruth ==
    [][page' = page => \E l \in Refresh : ToldBy(l, board'.rows, board'.manifest)]_OnScreen
=============================================================================
