# Enterprise AI OS: verification project

TLA+ models of the portal, its stores and its tooling, the TLC runs that check
them on small instances, and TLAPS proofs of what matters most for every
instance. The reference is the code under `src/`; every definition that models
code is listed with its lines in `PROJECT.json` under `map`.

Paths below are shortened: `api/` is `src/apps/api/src/eaios_api/`, `core/` is
`src/packages/core/src/eaios_core/`, `worker/` is
`src/services/worker/src/eaios_worker/`, `seed/` is
`src/scripts/seed/src/eaios_seed/`, `web/` is `src/apps/web/`.

## 1. The system

A multi-tenant company portal: a FastAPI service over PostgreSQL with row-level
security, Redis, MinIO and Qdrant; a Celery worker with a beat; a command-line
seed that creates, verifies and destroys the demo dataset; a Next.js site that
proxies the browser to the API.

| Component | State | Operations | Hard behaviour | Module |
|---|---|---|---|---|
| Sessions (`api/auth/sessions.py`, `dependencies.py`, `tokens.py`) | the `sessions` row, the signed credential | open, validate and touch, end, expire on a second connection | concurrent requests on one row, overlapping sign-outs, two expiry bounds, expiry written while its own request unwinds | `Sessions` |
| Sign-in bounds (`api/auth/login_bounds.py`, `router.py`) | two Redis counters per attempt | read, raise, clear | check and raise are two steps; Redis outages and lost replies; which attempt reports the lockout | `LoginBounds` |
| Authorization (`core/authz/`) | none: rules, sensitivity, decision | `evaluate` of a caller, an action and a resource | precedence of layers, three-valued conditions, default deny | `Policy`, `Authorization` |
| Enforcement and audit (`api/authz/`, `api/hr/`, `api/me/`) | `audit_logs`, the request's transaction | authorize, record, record out of band, note supplied authority | a decision and its entry in one transaction or in two; a second pooled connection while holding the first | `Enforcement` |
| Tenancy (`core/db.py`, `tenancy.py`) | `app.company_id` of a transaction | `session_scope`, `tenant_scope` | what a transaction sees, commit and rollback, the connection's return | part of `Enforcement`, `Contact`, `Site` |
| Contact form (`api/public/router.py`, `queries.py`) | `contact_submissions`, audit | bound, dedupe, insert, audit | dedupe is a query then an insert | `Contact` |
| Anonymous bounds (`api/public/rate_limit.py`, `refusal_audit.py`) | Redis counters, coalescing claims | consume, claim, audit the refusal | expiry renewed by refused calls; claim made before the entry is written | `RateLimit`, `RefusalAudit` |
| Retention (`worker/tasks/`) | the rows it deletes | purge per tenant | redelivery of an acknowledged-late task, overlapping purges | `Contact` |
| Seed (`seed/cli.py`, `loaders/`, `manifest.py`, `credentials.py`) | relational rows, objects, collections, keys, the completion marker | seed, verify, credentials, reset | a crash between stores; the marker committed before the later stores are filled; two operators at once | `SeedLifecycle` |
| Vector store set-up (`core/clients/stores.py`, seed preflight) | collections and payload indexes | create, index, read back, drop, preflight | a partly created index set | `SeedLifecycle` |
| Chunker (`core/chunking/`) | none | `chunk_document` | termination, coverage, overlap at boundaries | `Chunker` |
| Dataset generators (`seed/generators/`, `docgen.py`) | none | the staff of a company, then rows of HR, sales, documents and public content | a headcount split under floors, an acyclic reporting line, dates moved into windows, totals that must agree, owners that fall back, keys that collide | `Organization`, `Dataset` |
| Retrieval (`core/authz/filters.py`, `retrieval_cache.py`, `corpus_version.py`, `keys.py`) | Redis entries under corpus and permission keys | filter, get, set, publish | the active version changes between the search and the write; the filter states the policy a second time | `Retrieval` |
| Portal (`web/app/portal`, `web/lib`, `web/components/portal`) | the browser's cookies, what its tabs show | login, logout, shell and pages | a lost answer after the session was opened; tabs share the cookies; two pages that redirect to each other | `Portal` |
| Public site (`web/app`, `api/public`) | what a page has read, the form | pages, leadership with its omission entry, contact form with a timeout | failure or emptiness, two statements with two snapshots, late answers | `Site` |
| Health and provenance (`api/health`, `web/app/status`) | what the status page shows | probes side by side, manifest, polling | overlapping refreshes that need not end, probes without a timeout | `Site` |
| Job records, migrations, embedding, benchmarks, generation notebook | | | | none (section 7) |

How they interact: the browser calls the web proxy, which calls the API with
the credential from its cookie. Each API request runs in one database
transaction, opened by `authenticated`, scoped to the caller's tenant, handed
to the handler and committed when the handler returns. Refusals raise, so the
request's transaction is rolled back; whatever a refusal must leave behind (an
expiry, a denial entry) is written on a second connection. Redis holds only
counters and cached answers. The worker and the seed share the database with
the API and use no message of their own beyond Celery's queue. The site's pages
are rendered on the server, by calls of the web server to the API; only the
forms, the buttons and the status page call from the browser, through route
handlers of the site.

What makes each part correct is stated with its module below and, hazard by
hazard, in `PROJECT.json`.


## 2. The modules

| Module | Models | Uses |
|---|---|---|
| `SessionContract` | what sessions promise, with no row, lock or clock | |
| `Sessions` | `auth/sessions.py`, `auth/dependencies.py`, `auth/tokens.py`, sign-out of `auth/router.py` | `SessionContract`, which it implements |
| `LoginBounds` | `auth/login_bounds.py`, the sign-in handler | |
| `Policy` | `core/authz/`: rules, layers, sensitivity, `evaluate` as operators | |
| `Authorization` | the engine over changing inputs | `Policy` |
| `Enforcement` | a protected request: `authz/`, `hr/`, `me/`, `core/db.py` | `Policy` |
| `Retrieval` | `authz/filters.py`, `retrieval_cache.py`, `corpus_version.py`, `keys.py` | `Policy` |
| `RateLimit` | `public/rate_limit.py`: the counter and its expiry | |
| `Contact` | `submit_contact`, `record_contact`, the worker's purge | `RateLimit` |
| `RefusalAudit` | `public/refusal_audit.py`, `mark_coalesced` | `RateLimit` |
| `SeedLifecycle` | the seed's commands, `loaders/stores.py`, the provisioner of indexes, preflight | |
| `Chunker` | `chunk_document` | |
| `Organization` | the staff: `generators/organization.py` | |
| `Dataset` | what is made for the staff: `generators/hr.py`, `sales.py`, `legal.py`, `public.py`, `policies.py` | `Organization` |
| `Portal` | `web/app/portal` with its route handlers, form and navigation | |
| `Site` | the public pages, the status page and the contact form with the routes they read | |

The theorems are in `SignInProofs` (Sessions and LoginBounds), `AccessProofs`
(Authorization and Enforcement), `AnonymousProofs` (Contact and RefusalAudit),
`DatasetProofs` (Organization and Dataset), `SeedProofs` (SeedLifecycle, the
scenarios that can be played in a company, and that generating one ends), `DocumentProofs` (Chunker and
Retrieval) and `WebProofs` (Portal and Site); `Sums` has the lemmas about finite
sums, ranks and quotients that several of them cite.
`MC<Module>` holds the constants of a module's TLC instance, `MC<Module>_<instance>.cfg` the instance. An operator whose
comment begins with "Faulty variant" is no part of the model: it is the mutated
form of the definition that follows it, and `PROJECT.json` lists the property
that catches it.

### How state and actions correspond to the code

**Sessions.** The variables named like columns (`capAt` is
`absolute_expires_at`) are the committed row. A request walks through
`authenticated`: `VerifyToken`, `ReadClock`, then `validate_session` as
`RefuseEnded`, `RefuseAtBound` or `FindLive` (the SELECT) and `Touch` (the
flushed UPDATE, which takes the row lock), the user's row as `AdmitUser` or
`RefuseUser`, the handler, and the commit or `Abort`. The SELECT and the UPDATE
are two actions, since under READ COMMITTED another request commits in between.
`Handle` is the sign-out's `end_session`, which loads the row once more:
`validate_session` hands on a plain record, the identity map refers to rows only
weakly, and by then the touch holds the row lock. A row that was ended in
between is left as it is and answered 204 without an entry (`Commit`). `_expire`
runs on its own connection
while the refused transaction is still open. `barred` is history: what spoke
against the request when it arrived.

**Sign-in bounds.** `failures` and `ttl` are the Redis keys of
`login_bounds.py`; a worker thread walks `current_state` (`PassBounds`,
`RefuseBlocked`, `ReadUnavailable`), `_resolve` and the hash (`Judge`),
`record_failure`, the two out-of-band entries, or the session and
`clear_account`. Each Redis call may fail before or after taking effect.
`noticed`, `reported` and `culprits` are history about the life of a key.

**Authorization.** `Policy` has the code's five layers one operator each,
`POLICIES` as the table of `rules.py`, and conditions with three outcomes.
`EvaluateWith` takes the first layer that denies. `Authorization` is the same
function as a state machine whose steps add a permission code or remove an
attribute: its action properties compare two decisions.

**Enforcement.** `queued` to `checkout` is the wait for a thread, `Checkout`
the connection from the pool of `get_engine`, `ReadReports` and `ReadCodes` the
statements of `build_access_context`. The handlers are `AnswerAbsent`,
`Deny403`, `Permit`, `ReadPayload`; the entry of a permitted read is `pending`
until `Commit`, and the one of a denial needs a second connection
(`RecordDenied`, `LoseDenied`). `codesSeen` and `reportsSeen` are history: all
that was in force since the request arrived.

**Contact.** A counter of `RateLimit` is raised by every attempt. A thread
counts (`CountRecent`), then either `Suppress`es or `Store`s row and entry in
one commit. `Delete` and `Purge` are the statement and the commit of a purge;
rows deleted and not committed are locked. Times are ages, so that the
instance stays finite: a row older than the retention stops ageing. `unseen`,
`twins` and `ledger` are history. `Hash` joins subject and message as
`content_hash` does; the sender's name and address are parts that join the same
way and are left out.

**RefusalAudit.** One refusal at a time, because the middleware awaits nothing
after `call_next` and the API runs in one process: `Count`, then `Claim` or
`Skip`, then a write. Time passes in between, up to `MaxDelay`.

**SeedLifecycle.** `rows` is the profile of the dataset and of its manifest,
which `load_relational` commits together; `object`, `created` with `index` and
`points`, and `extra` are MinIO, Qdrant and Redis with the rows the application
adds. An operator's `pc` walks the calls of `cli.py` one store call at a time:
the four inspections of `seed` (`InspectRows` to `InspectKeys`),
`LoadRelational`, `LoadObject`, `CreateCollection`, `EnsureIndex`,
`CheckIndexes`; the clearing calls of `reset_all` (`Truncate` to
`FlushBounds`), after which `Configure` looks the profile up and the seed
follows; the marker and the fingerprints of `verify`. `Die` ends a run between
any two of them. A dataset is its profile: generation is deterministic, so the
same profile gives the same rows and objects. `disturbed` and `stale` are
history.

**Chunker.** A document is a sequence of words, each with its tokens, what
separates it from the next and whether it leads a heading; offsets are word
numbers. `ChunkInit` does what `chunk_document` does first, sections and sentences;
then one iteration of its loops is one step: `Pack`, or `TakeOversized` with
`CutPiece` and `EmitTail` for `_split_oversized`.

**Organization.** `_allocate` is `Refuse`, or `Divide` and one `Balance` for
every unit its loops move; `_generate_users` is `HireCEO`, `HireHead`, `HireLead`,
`HireMember` in the order of departments; `PairPersonas` and `MoveReports` are
`_ensure_manager_persona_has_reports`.

**Dataset.** One turn of a generator's loop is one action (`AddProfile` to
`PublishAbout`), in the order of `pipeline.py`; `stage` and `item` say which turn
it is, `added` the rows it made. A date is a day number, with months of equal
length, and what the code derives from the month of a date is derived the same
way. Every random draw is a choice, and a value drawn once and read by several
loops, the day of hire, is chosen anew by each, so the model allows more than
the code does. `add_document` ends the seed when a key is taken.

**Retrieval.** `qdrant_filter` is a record with one field per clause, and
`Admits` what the vector store makes of it. A turn takes its caller's
attributes (`Ask`, which looks in the cache), searches with the grants resolved at
that moment, and stores what it found under the key derived again (`Store`).
Meanwhile `Reassign`, `Share`, `Publish` and `Expire` change everything it
relied on. The service that does this is not in the repository; its contract is
what `retrieval_cache.py`, `corpus_version.py` and `filters.py` say of their
caller.

**Portal.** `tabs` holds what each tab of one browser shows and waits for,
`jar` the session in the cookies they share. `RenderShell`, `RenderPage` and
`RenderSignIn` are the server components with the calls of `lib/portal-api.ts`,
each answered, refused or failing; `OpenSession`, `Welcome` and `Logout`,
`Goodbye` are a route handler's call to the API and its answer to the browser,
either of which may be lost. `astray`, `lost` and `revised` are history.

**Site.** `regions` is what a page has read, region by region, and `Screen`
what the page makes of it: `CareersPage` and `Addresses` await two reads
together, `VacancyPage` turns nothing into "not found". `JoinLeaders`,
`CountLeaders` and `RecordOmission` are the statements of `leadership`, each
with its own snapshot of a dataset that has its own profiles. A store refuses
connections (`down`), is out of reach (`cut`) or takes a connection and never
answers on it (`wedged`); `Check` is what its probe then reports: a timeout
is named as one for Redis only, since SQLAlchemy wraps the driver's, and the worker's
probe of a wedged broker does not end. `loads` are the refreshes of the status page that are
under way: `Poll` starts one without waiting, `Probe` and `ReadManifest` answer
its parts, `ShowBoard` and `FailLoad` put it on the screen in any order. `calls` are
submissions of the contact form; `Expire` gives one up and the proxy goes on
with it. `seen`, `missing`, `hid`, `lost` and `kept` are history.

## 3. The runs

Every run explores its instance exhaustively.

| Run | Asks | Instance and why it is enough |
|---|---|---|
| `sessions` | do late requests stay out, do cap and idle chain hold, are sign-outs recorded, is it the contract, is every request answered | one session, two requests, time to 4 with cap 4, idle 3 and a credential cut to whole threes: the credential ends with the row's cap or before it, a use reaches the cap through another use, and of two overlapping sign-outs one finds the row ended before its touch and the other after it |
| `login` | overshoot and free guesses, one notice, what clears, does a lockout end | two threads on one account and one address, bounds 2 and 3, window 2; attempts never run out, and successes in between carry the address to its bound after the account was cleared. Spraying over several accounts is in the theorem `Overshoot` |
| `decide` | precedence, silent reads, monotony in codes and in missing attributes | all kinds and levels, two users, two companies, one role, one department, one grant, one report; every set of codes and every set of missing attributes |
| `requests` | permitted, recorded, true, is every request answered | three requests of which one is any route about a report, a member of the same tenant or a stranger and one is a denial; two connections and one thread, so that every resource is contended and a denial may find no second connection; two changes of the records, any write may fail |
| `contact` | twins, balance, kept messages, is every row deleted | two threads, two purges, two rows, two messages, limit 2, window 2, dedupe 1, retention 4, stall 2: two submissions and two purges overlap in every way, with any failure |
| `refusals` | rows per hour, nothing uncovered | one address, limit 2, window 3, stall 1: counter and claim expire at different times |
| `seed` | is the environment whole, can points be filtered, what do success and `verify` mean | two operators, two profiles of which one is part of the other, two objects, one collection, two fields: a run dies between two objects or two indexes, a second one starts anywhere in the first, and a smaller dataset follows a larger |
| `chunker` | do the loops end with every word, do chunks keep budget, overlap, sentences and sections | all documents of up to four words with tokens 1, 2, 4 or 5 against a budget of 4 and an overlap of 1: words that share a chunk, one that fills it, one too large; every separator and heading |
| `dataset` | does generation end; is the staff one line of command with everybody in place; do dates, totals, owners and keys of every table agree | both companies with their weights and personas, every headcount from fewer than there are departments to twice the floor, and those of the full profile; the tables for the smoke profile's staff, whose draws are cut to their lowest and highest value, with a few rows to a table: enough that every clamp, fallback and numbering happens |
| `retrieval` | filter against engine, what holds of an answer from the cache | five documents of two companies on all sides of the ceiling, a person who moves between departments and roles and one of the other company, two versions, two turns, one entry at a time (an answer may be stored over another turn's) |
| `portal` | does every live session have a holder, are screens true, do the redirects end | two tabs, two sessions, a code that comes and goes, any call lost on either side |
| `site` | are empty pages empty, are omissions recorded, is the form right, does the status page show one refresh, does anything hang | no dataset or two profiles of which one does not resolve and one may be gone, so that the count hides the one that does not resolve; one vacancy, two messages, two refreshes and two submissions at a time, and one change of store, API or dataset, each of which may fall between any two steps and be undone; visits are unbounded |

`Sound` of `Chunker`, `Dataset` and `Portal`, and `SiteSound`, join the module's
type invariant with its safety invariants. The type invariants of the other
modules are theorems (section 5).

Bounds that the code does not have: `MaxTime` (Sessions) stops the clock,
`MaxChanges` (Enforcement, Site) the changes made from outside, `MaxCount`
(RateLimit) the value of a counter, `MaxStall` (Contact) and `MaxDelay`
(RefusalAudit) how long a handler may take, `Slot` (Contact) the rows at a time, with `Room` keeping a
row free for every submission that is admitted, `MaxWords` (Chunker) the length
of a document, `MaxEntries` (Retrieval) the entries that have not expired,
`Refresh` and `Call` (Site) the refreshes and submissions under way, `Contents`
the datasets there may be, `Failures` how a store may fail (a worker, which
nobody connects to, only by not answering), `Few`
(Dataset) the values of a draw, counted from either end, `MaxLines` the lines of
an order and `Month` the days of a month (orders are fewer than months there, so
that the curve of the orders shows in the remainder that is handed out), and the
sets of requests, threads, operators, tabs and people. Windows, retention and
lifetimes are a few ticks long and keep the order the settings have among them.
The counters of one address share nothing with another's, so one address is
enough for the bounds.

Deadlock is checked for `login`, `seed`, `retrieval`, `portal` and `site`. It is
off where the instance may come to rest: all requests of Sessions and
Enforcement answered, the inputs of Authorization exhausted, a counter at
`MaxCount`, a document chunked, a dataset recorded.

## 4. Fairness

- `Sessions`, `Enforcement`: `WF(Proceed(r))`, and `LoginBounds`: `WF(Serve(w))`,
  the server runs what it accepted. `Abort`, `Die` and new arrivals are under no fairness. `Proceed`
  includes the pool's timeout, which SQLAlchemy enforces, and giving a row lock
  to whoever waits for it, which PostgreSQL does when the holder ends.
- `LoginBounds`: `WF(PassTime)`, `Contact`: `WF(Tick)`, time passes.
- `Contact`: `WF(Serve(w))`, an admitted submission is served; `WF(Clean(j))`,
  beat starts the purge every day and celery redelivers one whose worker died
  (`task_acks_late`); `SF(Purge(j))`, a purge that is started again and again
  does not fail every time. Without the last a database that fails each night
  keeps every row, which no code could help.
- `Chunker`, `Dataset`: weak fairness of the next step, a function that was
  called runs.
- `Portal`: `WF(Render(t))`, since `get` of `lib/portal-api.ts` gives up after ten
  seconds. The login and logout handlers call the API without a timeout, so
  nothing is assumed of them, and `Settles` is about rendering alone.
- `Site`: weak fairness of the two timeouts of `lib/api.ts`, ten seconds each:
  `GiveUp` for a region's read (`getJson`) and `Expire` for a submission
  (`submitContact`). Nothing is assumed of the status page: its `fetch`, the
  proxy's, `check_minio` and the worker's probe have no timeout, so a refresh
  may never end, and `BoardTellsTruth` is a safety property.

Nothing assumes that a client sends a request, stops sending them or retries,
or that a store recovers.

## 5. What is proved

TLAPS proves the following for every value of the constants that satisfies the
module's assumptions (positive windows and bounds, finite sets of threads and
slots, `None` outside the data; `Retention > Dedupe + MaxStall` for Contact,
90 days against ten minutes and the time of one request).

**Sessions.** The inductive invariant `IInv` adds to the type: a request has
an opened session behind it (`Begun`); a barred request has not passed the bounds
(`BarsHold`); the row's cap is sign-in plus lifetime and its last use is a real one
(`RowsHold`); a request that passed did so within both bounds and in a chain of
uses (`PassedHold`). Each is needed by another: the chain by the row's last
use, the bar by the token's expiry never lying after the row's cap. `LockHolds`: from
its touch on a request holds the lock of its row. Hence `EndsHold`: what
`end_session` found is still so when the request commits, so that a sign-out writes
an end and an entry exactly when the row has none. From these:
`NeverAdmitted`, `CapHolds` and `ChainHolds` (together `LifetimesHold`),
`SignOutAudited`, `EndsAreFinal`, and `Refinement`, where every step maps to a
step of the contract or to none: a tick of the clock is the abstract `Close` of
all sessions whose cap it reaches.

**LoginBounds.** `Charged` says that a counter plus the attempts past its read
but not yet recorded never exceeds the bound by the number of threads; it is
what makes `Overshoot` inductive. `Progress` ties each answer to what was
hashed and counted. Then `EveryGuessCounts` (with `Overshoot`:
`GuessesAreBounded`), `NoticedOnce`, `Forgotten`.

**Authorization.** No induction: the layers are functions, so lemmas say which
layer can deny for which reason (`LayerByLayer`, `ReachByLayers`) and that more
codes or fewer attributes move a decision one way only (`Monotone`).

**Enforcement.** `Told` relates stage, status and entries; `Covered` says the
context is within what was in force since arrival, from which `Permitted`
follows because the engine is monotone in codes and reports (`MoreAllows`);
`Owed` says what a permitted request has flushed or committed.
`ForbiddenInside` is proved and no longer run: a 403 is never about a person of
another tenant.

**Contact.** `Consistent` joins three facts that need each other: purges hold
disjoint sets of expired rows (`Held`), a submission past its count still has
its duplicate or has seen every twin but those stored since (`SawRight`), and
`TwinsOverlapped`. A row in someone's window is not expired, so no purge takes
it away. Hence `Twins`, `Kept`, and, with the cardinality of the table,
`Balances`.

**RefusalAudit.** `Claimed`: a claim in force has a row, written or lost, that
is at least as young, or its maker is about to write. Hence
`RefusalsRepresented`. `Spread` bounds the rows of an address: since the last
counted refusal there is at most its own; until the limit is reached there are no
more rows than refusals but for one the counter forgot; and since the claim in
force one more than the limit. Hence `HourlyRowsBounded`. The rows younger than
`n` ticks are a sum over ages; the lemmas of `Sums` take such sums apart, with
the induction as an argument about a least counterexample.

**SeedLifecycle.** `Inv` joins four parts. `Typed` places each operator's command
at a stage it has. `Apart`: two runs at work make each other not alone, and
while nothing was disturbed no reset is beside a seed or another reset and at
most one run is past its commit. `StageHolds` says, stage by stage, what an undisturbed run has done so
far: before its commit there is no object, at `upload` exactly the objects off
its list are loaded, at `index` all objects and the collections off its list.
`Whole` is the goal: the last index read back turns `StageHolds` into
`Complete`. `WholeOtherwise` follows, and `VerifyVouchesAlways` from it and the
marker `verify` has read. `SuccessesAreComplete` needs a second invariant,
`AloneHolds`, for a run that had nobody beside it but may follow runs that died:
what it cleared stays cleared. `Filterable` rests on the type alone and on
indexes never being removed from a collection that exists.

**Chunker.** `ChunkInv` has four parts beside the type. `Laid`: the spans of
sections and sentences follow each other and leave nothing out, which comes from
ranking a finite set of starts. `Position`: what the loops hold is a run of
sentences of one section, or a piece of one sentence. `Kept`: the chunks so far are
well cut and reach the word `Reached` names. `Ahead`: the next word lies behind
the last chunk, or the sentences carried over are shared with it and within the
overlap, which is what makes one word more than nothing of every further
chunk. Token sums nest by the lemmas of `Sums`. Hence `ChunksSound` (budget,
overlap, sentences, sections) and `NothingLost`: once the loops end, every word
is in a chunk.
That they end is proved as far as a measure goes (`LoopsEnd`): `Togo` counts two for
each word behind `Reached`, less one while a sentence is cut up, and is
less after every turn, because a turn either takes a sentence to be cut or makes a
chunk that reaches further. It follows that there are never more chunks than
words (`ChunksFew`). The overlap, which is looked for backwards and put in front of
the next chunk, is what could have made the text stand still.

**Portal.** `IInv` is the type with what a tab knows (`TabsOK`): its entries are
those of the account unless the codes changed since, a tab that shows a form holds
no session, one that shows the notice of expiry holds an ended one. Every live
session is in the jar, in an answer under way or lost (`LiveHeld`), and as long as one
tab is alone and nothing was lost the jar changes only with what that tab does
(`AloneOK`). Hence `PortalSound` and `SessionsAccounted`.

**Site.** What a page shows is read from regions that were each true when read:
`PagesSound` for what a page may say, `FormTrue` for what the form says of the
message. `OmissionsRecorded` for a leader left out: whoever is missing is among the
profiles counted and not among the rows, so if the count is no larger than the
rows, at least as many of the rows are not counted (`Masking`). `BoardTrue` for the
status page: `Told` says that what a refresh was told so far, and what it would be
told now, was so since it was asked (`BoardInv`).

**Retrieval.** `CacheHolds`: every entry, and every turn that holds an answer,
has documents within the attributes of its own key or caller and the version
it was searched in, unless it was overtaken. A `Store` carries it from turn to
entry because the key is derived from the turn's own caller, an `Ask` from
entry to turn because equal keys mean equal tenant, department and country.
Hence `AnswersHoldAlways`. `FilterAgrees` compares the filter's clauses with the
engine's layers, document by document.

**Organization and Dataset.** The theorems are about the conjuncts of `Sound`,
and in the end about all of it (`GenerationSound`), for any companies, weights,
placements of personas, headcounts and volumes that satisfy seven assumptions:
both lists of departments have the same, the Executive and HR among them; a
persona stands where `PERSONA_PLACEMENT` puts it, the leading ones first; it has
one place, and a department one persona at most but for the manager and the
employee of Engineering; the weights are shares of 100, and the floor gives each
department its head by them and Engineering four people; no share exceeds 64
(Engineering's 30 of 200 is 60 at the full profile); hires and customers are
older than the generators make them, and of everything that is made in a loop some
are asked for.

`DataInv` joins five parts, `LedgerInv` three more and `SceneInv` six. `StaffInv` says
what every hire leaves behind: a head answers to the Exec, a team lead to the
head, everybody else to one who leads (`Answers`), the departments before the
one in hand have their heads (`Headed`), and the personas not yet taken can be
led by nobody but a head (`Waiting`, `Carries`). That makes the line of command
four steps long at most, and the last moves of `_ensure_manager_persona_has_reports`
keep it (`OneLineOfCommand`). `CountInv`: who is hired, who is still to come in
the department in hand and the shares of those ahead add up to what was asked
for (`StaffedAsAsked`). `PlaceInv` says where each loop is, `SeenInv` that the
titles so far are as many as the turns (`TitlesDistinct`), and `RowsInv` what a row
says of the staff, which is complete by then (`DecisionsAnswerable`,
`LeaveBalanced`, `DocumentsAttributed`).

`LedgerInv` is about dates and amounts.
`SharesInv`: the shares of the months add up to the orders asked for at each turn
of the remainder, and those dealt with are as far apart as their weights
(`OrdersFollowCurve`). `BooksInv`: each order is filed in `revenue` under its own
month and region, once, and has a date and a customer of the window.
`LedgerRows`: what the rows just added say of these (`RowsInTime`,
`RevenueReconciled`), and that the window opens where a quarter does, which is why
its quarters leave no day out (`QuartersTile`). `RecordsCoherent` joins them all.

`SceneInv` is about the scenarios. `AllocationInv`: while the remainder is given
out, no more people are missing than departments have their turn still to come,
and from the floor on nobody is taken away; since the shares, cut to whole
people, lose less than one each, one round is enough. `CastInv`: the personas of the
department in hand are played or waiting, those of departments done are
played, once each and in their place; and there is a vacancy for the one who
waits behind a head (`ScenariosPlayable`). `TeamInv`: a manager and whom he
manages are of one department, the employee of the scenarios is under their
manager, and he has three reports in the end. `CrewInv`: the leads of a
department are hired in a row and its members come under them in turn, so that
the reports of a lead are evenly spaced, and no more than seven since the members
are at most seven for each lead (`SpanOfControl`). `PaperInv`: which documents there are
at each stage, none of the key that is to come; with the others it says that
nothing fails from the floor on (`FloorIsEnough`).

`GenerationEnds` is a measure of what is left: the stages have numbers (`Chapter`)
that never go down, and within a stage either the members, departments,
orders or turns still to come (`ToDo`) get fewer, or, with as many to come, what
stands before them does (`Within`: the people to hire for the department in hand, or
the departments up to one that has more than one member to give back). The last is the
loop of `_allocate` that has no counter: while too many have been given, somebody has
one to spare, since no fewer are asked for than there are departments (`SomebodyGives`).

So every invariant and every action property of the runs is a theorem. Only
model-checked: the liveness properties, since TLAPS has no ENABLED. Of two of
them what can be stated without it is proved: the loops of the chunker
(`LoopsEnd`) and of the generators (`GenerationEnds`) get nearer their end with every
step, by a measure that cannot fall for ever; what TLC alone says of them
(`EverythingChunked`, `Generates`) is that no step is wanting before the end.

## 6. Where documents and code disagree

Met while modelling; each was read in the code and, where a definition is
named, can be seen in a behaviour of the model.

Sessions and sign-in:

- Through the portal all clients share one address bucket: `login/route.ts:42`
  does not forward the address, which `spec.md:161` of feature 003 bounds per client.
- A session used up to its cap is refused by the credential's `exp`, which is
  cut to whole seconds, so its row is marked `ABSOLUTE` only by a request
  that verifies its credential before the cap and reads its clock after it
  (`quickstart.md` of feature 003 says it is): `VerifyToken` before `ReachedBound`.
- A second sign-out is answered 401 although `router.py` calls it idempotent:
  `RefuseEnded` comes before `Handle`. Only one that overlaps the first, and
  read the row before it was ended, is answered 204.
- `_expire` may mark a row `IDLE` that another request used in between
  (`ExpireSelect` looks at `endedAt` only), and a slow request commits an older
  `last_seen_at` over a newer one (`Commit` takes `now`, read before the SELECT).
- A lockout's audit entry is written once, best effort, so it may be lost
  (`AuditLockout`), although the specification has every lockout audited.

Authorization and audit:

- A burst of denials loses entries: `record_out_of_band` (`audit.py:185`) needs
  a second connection while its request holds the first, against `audit.py:9`,
  "Every denial, always" (`LoseDenied`).
- The entry about a supplied authority is discarded when the request is refused
  (`pending` under `Refuse`); a cross-tenant attempt on a profile is answered
  404 before the decision and leaves no entry (`AnswerAbsent`).
- `GET /me` asks for no decision although `me/router.py` says routes do not
  skip the engine; the kind `SESSION` has rules and no route; the docstring of
  `load_descriptor` says the router supplies its own tenant, which it does not.

Anonymous writes:

- Two overlapping requests store one message twice: `queries.py:433` counts and
  then inserts, against line 76, "one intent, not two", and SC-007 of feature 002
  (`TwinsOverlapped` is what does hold).
- A message that joins to the same text as another is reported as received
  and dropped: `content_hash` (`queries.py:408`) has no separator, against FR-022.
- The counter's expiry is renewed by refused events (`Consume`), so a caller
  who keeps trying stays out longer than an hour.
- The claim of a window outlives a failed write of its entry (`WriteFails`):
  the refusals of the rest of that window leave nothing. A refused request
  with any credential is left alone, also a forged one (`LeaveAlone`).

Seed, documents and retrieval:

- `reset` looks its profile up after it has emptied the four stores
  (`cli.py:150-153`), so a mistyped one exits with the code that lines 7-9 call
  "a precondition was not met ... the tool protected the environment".
- A chunk that adds nothing to the one before it is emitted when the next
  sentence does not fit behind the overlap, which `chunker.py:321-323` means to
  rule out (`ChunksProgress` says when); and the tail of an oversized sentence
  that starts with a word over the budget takes the rest of the sentence along.
- The candidates `_ensure_manager_persona_has_reports` moves are never needed
  with the weights of the two companies (`MoveReports` moves nobody). The
  persona `auditor.readonly` becomes head of Operations and so also holds the
  role of a manager.
- The fingerprint of the cache key leaves out user, roles and grants, although
  the filter reaches documents by ownership, role and grant (`context.py:117-120`,
  `filters.py:186-194`, FR-018 of feature 004): what reached one reader that
  way is served to another of the same attributes. `AttributesHold` leaves
  those documents out.
- The key is derived again when an answer is stored, so an answer that a
  publication overtook is filed under the new version (`retrieval_cache.py:15-17`,
  `corpus_version.py:7-8` say a new version makes old answers unreachable).
  `ServedCurrent` leaves those answers out.
- `_refuse_passage_bodies` looks six levels deep; its docstring (line 119) says
  "however deeply it is nested".

Portal and site:

- `SignOutButton.tsx:20-22` says that signing out "always ends with the browser
  signed out"; a request that does not reach the handler, or that it answers
  403, leaves the cookies (`RefuseLogout`, `LoseLogout`).
- A session that ends before a link below the kept shell is followed shows
  "could not be loaded" rather than the notice of expiry (`RenderPage`), and the
  link to try again never leads to sign-in. An outage of the API at sign-in reads
  "Those sign-in details were not accepted".
- A sign-out that crosses a sign-in of another tab deletes the new cookies
  (`Goodbye`), and the new session has no holder until it expires.
- With PostgreSQL down the manifest answers 500, `Promise.all` rejects
  (`StatusPage.tsx:36`), and the page says "Cannot reach the API" while readiness's
  503 with its detail, which `health.ts:51-53` says "must not be thrown away",
  is (`FailLoad`).
- "Nothing was saved" after the form's timeout may be false: the proxy goes on
  (`Expire`, then `Keep`).
- `queries.py:208-209` says count and join see one snapshot and that a profile
  counted but missing is one the join dropped. Under READ COMMITTED a seed or an
  edit may commit between them. A profile that appears makes `leadership` record an
  omission that names none; one that the join found and that is gone at the count
  makes up for one that does not resolve, which is then left out without a record,
  against FR-013a (`spec.md:260` of feature 002; `CountLeaders`).
  `OmissionRecorded` says that nothing else hides one.
- The status page's fetches have no timeout and overlap: an older answer overwrites
  a newer one and stays until a later refresh ends (`ShowBoard`), and "loading" hides
  the alert over rows that are no longer true (`Poll`). No document orders them.
- FR-003b of feature 001 (`spec.md:305`) gives each probe a timeout of its own, and
  `health/router.py:53` and the docstring of `check_worker` (`stores.py:244`) say
  so. `check_minio` has none, and that of `check_worker` covers connecting to
  the broker and waiting for replies, not a broker that takes the connection and is
  silent: readiness then answers nothing (`CheckWorker`).
- FR-003c has a probe tell *timed out* from *unreachable*, and `_classify` says it
  does. It goes by the name of the exception it is given: a timeout of psycopg
  arrives as SQLAlchemy's `OperationalError`, so PostgreSQL is never reported as
  timed out (`Classified`).
- The empty state of the contact page's addresses is never shown before a
  seed, since `company` raises then (`Rowless`).

`record_job` writes without a tenant scope and derives its identifier from the
pinned date, and no task calls it.

## 7. What is not modelled

- Field validation, response schemas, rendering, wording, logging and payload
  columns: no property is about them.
- The texts, names and numbers of the demo data and `docgen.py`, which prints
  documents: lists with a seeded choice, on which no later step depends.
- News, the pages of services and products: one list or item each, read as those
  of `Site` are. Liveness and the worker's heartbeat file, which depend on nothing.
- `record_job`, which nothing calls; the embedding wrapper, which keeps no
  state; the notebook that serves a language model and the benchmarks that call it,
  which are no part of the running portal; `audit_checks` beyond the checks of `verify`; the
  migrations, which are declarations.
- That `tenant_scope` clears the tenant on exit: the setting is local to the
  transaction, which ends right after, so that nothing of it shows in a
  behaviour.

Row-level security, the append-only trigger, PostgreSQL's locks, Redis, the
vector store, Next's router and celery appear as what the code relies on
(`external` in the map), and so do the retrieval service and ingestion, which
the repository describes and does not hold yet.

## 8. What is left

The plan the project began with is carried out: sign-in and sessions, bounds,
authorization, enforcement and trail, anonymous writes, seed, chunker, dataset,
retrieval, portal and site. When the retrieval service, ingestion or the jobs
are written, their contracts (`Search`, `Leave`, `Publish`, `Ingest`, and the
unused `record_job`) are what to replace first. Worth adding then: a refinement
of `Contact` by an abstract mailbox, and `Portal` over `SessionContract` in one
composed instance.
