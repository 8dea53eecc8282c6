# Formal models of the data asset portal

TLA+ modules that model the stateful core of the portal's backend
(`src/backend/app`), configurations that model-check them with TLC on small
instances, and proofs that TLAPS checks for every instance. Paths below are
relative to `src/backend/app` unless they start with `docs/` or `backend/`.

Definitions keep the source's names where TLA+ allows it; `PROJECT.json` gives the
source lines of every definition that models code, the runs with their properties,
and for each property a faulty variant of one definition that breaks it. The faulty
variants stand in the modules themselves, each above the definition it would
replace, under a comment that starts with `Fault:`. No specification uses them.

Run a model with `tlc -config X.cfg M`, the proofs with `tlapm X.tla` for each module
whose name ends in `Proofs`.

## 1. The system

The portal is a FastAPI application over a relational database (PostgreSQL, DWS /
GaussDB, MySQL, SQLite). Synchronous handlers run on a thread pool and the streaming
AI handlers as coroutines of one event loop; the AI work itself runs in child
processes or worker threads. State lives in three places: the database, objects
private to the server process (admission controller, login table, snapshot store,
caches), and child processes with their queues.

| Component | State | Operations | Hard because |
|---|---|---|---|
| AI ask admission (`services/ai_ask_admission.py`) | active counter, FIFO deque, leases | reserve, acquire, cancel, release with hand-off | leases are cancelled and released in every order |
| AI ask request lifecycle (`fastapi/routers/ai_ask.py`, `services/ai_ask_request_guard.py`, `services/ai_ask_worker.py`) | lease, guard, child process or worker thread, clean-up pool | three endpoints, start, stop, reap, close, deferred release | coroutines cancelled at awaits, thread calls that go on after it, children that crash or cannot be killed |
| AI ask answer protocol (same files) | bounded queue of records, events sent | report, result, end; read, drain, time out, give up | exit races the last records; full queue; deadlines; disconnect |
| AI ask execution (`services/ai_ask_service.py`, `services/ai_ask_execution_service.py`) | stages, rounds of searches, candidates | plan, search, merge, confirm, answer | a timer sets the deadline from its own thread; searches that never answer |
| Model and retrieval clients (`services/ai_llm_provider.py`, `services/rag_search_http_client.py`) | permits, watcher and timer threads | one bounded call | helpers close the response under its reader |
| Login protection (`security/login_protection.py`, `fastapi/routers/auth.py`) | ordered table of failures | check, record failure, record success, count | clock read before the lock; check and record apart; eviction |
| Authentication and authorization (`fastapi/auth.py`, `authorization/`, `fastapi/dependencies.py`) | signed cookies; accounts, roles, permissions | log in, verify, renew, decide, project | subject and permissions are read apart, beside changes |
| Catalog snapshots (`services/catalog_snapshot_service.py`) | store of frozen snapshots, capture lock | issue, read page, confirm manifest, revoke, prune | authorization read without a lock before and after slow work; two clocks |
| Lineage publication and reading (`services/metadata_ingestion_service.py`, `services/lineage_collector.py`, `services/lineage_database_reader.py`) | snapshot rows, nodes, edges | ingest, collect, replay, read the active graph | several statements per transaction under READ COMMITTED |
| Lineage graph (`services/lineage_service.py`, `services/lineage/`) | none of its own | bounded walk, projection, collected graph | bounds that must be announced |
| Asset and field ingestion, assets (`services/metadata_ingestion_service.py`, `services/field_merge.py`, `services/assets_service.py`) | assets, fields, change log | preflight, merge, persist, replay; create, edit, delete | identity, keys by MAX+1, two owners of one row |
| Registers edited by hand (`services/push_service.py` and its siblings) | systems, jobs, mappings, APIs, indicators, reports, roots, code tables | create, change, delete, import | copies and counts kept apart; checks before the transaction |
| Accounts, roles, menus, dictionaries (`services/system_management_service.py`, `services/common_code_service.py`, `services/portal_service.py`) | rows; cached lists with a time to live | create, edit, move, delete; read through, invalidate | read, count and write are separate statements; load and invalidation overlap |
| Database access (`db/`) | engine cache, transaction of the context | begin, call, commit, roll back, close | failures at commit; a profile edited meanwhile |
| Operation log (`services/operation_log_service.py`) | audit rows | required and best-effort records | an audit that fails with the operation |
| Migrations (`migrations/`, `backend/scripts/schema_migrate.py`) | schema, rows, ledger | baseline, thirteen revisions, verification, seeds | a runner stopped between two statements |
| Search, frontend, viewer packages, scripts | none the server depends on | | outside these models |

How they interact:

* The three AI endpoints reserve a lease of the admission controller, wait for it to
  become active, start a worker, and read the worker's queue until an end record, a
  deadline, the worker's exit or the client's disconnect. The guard ties the lease to
  the worker: the slot returns once the worker is stopped. Stopping and closing run in
  threads; closing may move to a shared pool of four.
* The worker runs one of two answer pipelines; each calls the model and the retrieval
  service through a client that limits concurrent calls, and reads the catalogue.
* The login handler calls the limiter before and after it verifies a password. A
  session is a signed cookie; each request reads the account and the permissions anew.
* A snapshot lease is issued for an authorization made of facts (roles, permissions,
  policy settings, database identity) that the same database serves and other
  requests change.
* Ingestion and the collector publish into tables the lineage pages read; their
  only common ground is the database's locks and visibility.
* Every service writes through `database_transaction` and, where it must, an audit
  record in the same transaction. The façade chooses the connection by a profile file.
* The migrations make the tables all of this stands on.

What makes each component correct is stated by the properties of section 3; the
`hazards` of `PROJECT.json` list what tests would hardly reach, at its line.

## 2. Modules

| Module | Models | Uses |
|---|---|---|
| `FairSlots` | what the admission controller promises: fair slots, a bounded line | |
| `AskAdmission` | the controller, and its refinement of `FairSlots` | `FairSlots` (INSTANCE) |
| `BoundedCall` | one HTTP client, its permits and the threads of its calls | |
| `AskRequest`, `MCAskRequest` | requests of all endpoints with guard, worker, child and pool | `AskAdmission` (INSTANCE) |
| `AskPipeline`, `AskExecution` | a search and the plain pipeline; the structured pipeline with rounds and deadline | `AskExecution` EXTENDS `AskPipeline` |
| `AskStream` | one request's records and answer | |
| `AskAnswer` | the three ends of a question, and when its call, pipeline and handler are fair | `AskStream`, `BoundedCall`; `AskExecution` (INSTANCE) |
| `LoginProtection` | the limiter and the handlers around it | |
| `Routes`, `AccessControl` | what each route asks of its caller; a request on its way to its handler | |
| `Access` | both of these side by side | `LoginProtection`, `AccessControl` (INSTANCE) |
| `CatalogSnapshot`, `MCCatalogSnapshot` | the snapshot service and the world it reads | |
| `LineagePublish`, `LineageWalk` | publications and a reader on a shared database; the walk of a page over one graph | |
| `Lineage`, `MCLineage` | both of these side by side | |
| `RegisterStore` | sessions, transactions and rows of the registers; keys by MAX+1 | |
| `SystemRegister`, `MappingImport`, `ApiRegister`, `BusinessRegister` | the registers edited by hand | `RegisterStore` |
| `FieldMerge`, `AssetIngestion`, `AssetRegister` | the merge of fields; ingestion; assets edited by hand and the catalogue they share | `RegisterStore` |
| `PortalRegister`, `CommonCodes`, `AdminUsers`, `Administration` | menus and the statistics cache, dictionaries with their cache, accounts and roles | `RegisterStore` |
| `DatabaseFacade` | one operation on the façade, with all that may fail | |
| `Registers`, `MCRegisters` | all of these on one store, one area at a time | the modules above |
| `RevisionAdapters`, `Migrations`, `MCMigrations` | the thirteen revisions; the runner; the deployments it is tried on | |
| the modules ending in `Proofs` | theorems about the module named before (section 4) | TLAPS |

Parts that share no state are composed as areas of one run: a behaviour chooses an
area at the start and stays in it. `AskAnswer`, `Access`, `Lineage`,
`Registers` are such compositions; they save runs, and claim nothing about an
interaction that is not there. A table that one register writes and another reads is in
an area of both: `Registers` has nine, among them `push` (push systems, and the APIs that
name a system), `upstream` (upstream systems, and the mappings imported for them) and
`assets` (the catalogue, and the indicators and reports that refer to its rows).

### Questions
`AskAdmission`: `active` and `waiting` are `_active` and `_waiting`; `state[l]` is the
lease's `_state`. One action per critical section: `ReserveActive`, `ReserveQueued`,
`Refused`; `ReleaseQueued` (cancel of a waiter), `ReleaseLast` and `ReleaseHandOff`
(an active lease with and without a waiter), `ReleaseAgain`. The hand-off loop is
`NextPlace`: the first place that still holds a queued lease.

`AskRequest`, per request: `pc` of the handler, `guard` (`_worker`, `_closed`,
`_released`), the threads that call `start()` (`starter`), `cancel_and_stop()`
(`reaper`) and `close()` (`cleaner`), the in-process thread (`task`), the child
(`proc`). The controller is the instance `Adm`. A coroutine step runs from one await to
the next; `Cancel` raises at an await while the thread that was awaited goes on.
`start()` is two steps because `_started` is set after `process.start()` returns. A
child may be "stuck": alive and not killable yet. `Renew` reuses an identity of which
nothing is left, so arrivals never end without new identities. `left` marks a request
whose start was cancelled, which leaves a child outside its slot (Disagreements).

`BoundedCall`: a call takes a permit or is turned away, starts its watcher and, for the
model, its timer, reads the body in chunks and takes everything down; each helper is a
thread of its own whose steps fall anywhere. Which of the two clients is meant is chosen
at the start (`client`). `Thread.start` may fail: the thread object exists, the `finally`
block joins it, and that raises before the permit is released (`GiveUpPermit`). The
permit is gone, which `unstarted` counts (Disagreements).

`AskPipeline` and `AskExecution` are the two answer pipelines with the stages they tell
the user of, the timer thread, the pool the searches run on, the time limit of a round,
and the one read of the candidates an answer is bound to. The search both use is the
first part of `AskPipeline`. Questions, prompts, documents and texts are left out: what an answer names,
and what it says of its own completeness, is kept.

`AskStream` has the child's program (`child`), its outcome, the bounded `queue`, the
handler's `pc`, `pending` (records drained after the exit was seen), the deadline and
the grace period as flags the clock sets, and `out`, what the client was sent.
`_queue_put` drops an optional record of a full queue at once and a required one after
a second. `ChildDies` may lose any suffix of what was put. `endpoint` chooses among
`/ask/stream`, `/ask/progress` and `/ask`, which read the same records by three loops.

`AskAnswer` puts the three ends of a question into one run: the endpoint (`AskStream`), the
pipeline (`AskExecution`), and the calls of an HTTP client (`BoundedCall`). What passes between two
of them is an outcome that each leaves open: what the child came to, what a call raised.

### Access
`LoginProtection`: `entry` and `order` are the ordered dictionary. A method is a read of
the clock and, at most `MaxDelay` later, a critical section that does all of its
clean-up, reset, eviction and update. Handlers check, authenticate, record.

`AccessControl` sends one request of any route, with any cookie a log-in or a reissue
has made, through verification, decision and projection, while accounts and roles
change. `Routes` is the table of what each route demands. The decision reads subject
and permissions apart; `touched` notes a change between the two, which the code cannot
see, and rights are claimed against what held at some instant of the request. A legacy
cookie is reissued once and its lifetime starts again; log-out only clears the browser's
cookie; identity is the name.

### Catalog snapshots
Each read of a fact, each critical section of the store lock and each clock test is a
step. `draft` is what an issuer has gathered; `snap` remembers every snapshot ever
frozen, `store` the ids retained, so that a thread can hold a snapshot that has been
removed. `Raise` of an issuer leads to the `finally` (`GiveUp`). `refused`, `leased`
and a call's `fresh` and `built` are history: no action's guard but `Lookup`'s and
`Revoke`'s (a caller presents a lease it was given) depends on them.

### Lineage
`LineagePublish`: `table` is committed; `tx[p]` is the call and open transaction of
publisher `p`, with the status it has given to each snapshot's row (`writes`).
The database is external and modelled as PostgreSQL and DWS are used
here, at READ COMMITTED, their default, which the application never changes: a statement
sees what was committed when it began; an UPDATE waits for each row and tests it again;
an INSERT waits for an uncommitted row with its key; `LOCK TABLE ... EXCLUSIVE` waits
for writers and they for it. SQLite serializes writers and MySQL defaults to
REPEATABLE READ: results about overlapping transactions are not claims about them.

`LineageWalk` is the bounded breadth-first search of the detail view, with its price per
table crossed, and of the table view, which projects the jobs away; every budget that
may cut a page is a constant. A committed snapshot never changes, so the walk is alone
with its graph.

### Registers and administration
`RegisterStore` gives a session its life: checks and reads on committed rows, keys
chosen as MAX+1, and then all statements, the audit row and the commit in one step
(nobody sees them before, and a second writer of a row waits). Each register adds its
tables and its operations as requests a session may carry. `FieldMerge` is the merge as
pure operators. `AssetIngestion` and `AssetRegister` write the same assets: a source owns
the technical columns of what it sent.

`AdminUsers`: each statement that matters is a step; the write and its commit are one.
Identities are MAX+1, so they are reused after a deletion, as in the code. `CommonCodes`
and `PortalRegister` keep a cache beside the rows: a reader that finds no entry asks the
database and stores what it got, in steps of their own.

`DatabaseFacade` is what those transactions stand on: the profile is read anew for each
call, a scope shares one connection per profile, and connecting, a statement, commit,
rollback and close may each fail. A commit that raises may have been done.

### Migrations
`RevisionAdapters` says of each of the thirteen revisions what it makes of a database
(`Inspect`) and which statements it issues (`Statements`). A database is a record of
the objects that exist and the few rows a revision reads or writes. `Migrations` runs
them with the ledger, verification and seeds; the runner may be stopped between two
statements and started again, while a user or an operator changes the database. Whether
DDL commits what came before it is not known of the target release, so both are
explored. What others may do is a set of records (`Changes`), and `Changed` says what each
does. `MCMigrations` lists the deployments: each released baseline under each ledger.

## 3. Runs

Every run explores the whole state space of its instance; the first eight pass.

| Run | Instance | What it shows |
|---|---|---|
| `requests` | 5 requests in threads or 3 in children, of every kind, 2 slots, 2 places, pool of 1 | counter = requests that hold a slot <= limit (`SlotsAccountedFor`); refines `FairSlots`; whatever runs holds a slot (`WorkHoldsSlot`); a request that is over holds nothing (`NothingLeftBehind`) |
| `requests_live` | 1 stream, 2 plain requests, 1 slot, 1 place, fairness | every slot is returned, every waiter admitted |
| `answer` | 3 endpoints, queue of 3, up to 3 steps; 3 searches, one at a time; 2 calls on 1 permit of either client; fairness | the stream is whole and in order; a child that finished is heard; only the caller cancels; nothing outlives a question; what an answer says of its searches is so; every request comes to its outcome, but for a lost result of `/ask/progress` (`EveryAskEnds`); a permit is lost with each helper thread that could not be started, and with nothing else (`PermitsAccounted`); no helper outlives its call (`NothingLeftBehind`); a body cut short is no answer (`NoCutBody`); calls to the model and cancelled calls end |
| `access` | 3 keys, 2 attempts, table of 2; every route, 1 account, 1 custom role | failures are remembered and blocks kept; nobody gets what he had no right to while he asked; sessions end |
| `catalog` | 2 issuers, 2 readers, 2 facts, store for 1 | no orphan; a page leaves only for an authorization that still held, before the deadline, and never after a refusal |
| `lineage` | 3 ingestions (2 of one import), 2 collectors, 1 reader; graphs of 4 nodes, a chain of 11 | pages are whole; success means stored; a collector's snapshot is alone; a replaced snapshot does not return; what a page leaves out is announced |
| `migrations` | every released baseline and ledger, 1 crash, 1 interference, both DDL modes | the ledger never runs ahead; the plan comes true; releases reach the head; rows survive |
| `stores` | 2 sessions on nine areas | children keep parents and are one request's (without foreign keys: unless writes overlapped); copies and counts agree unless writes overlapped, and the ids of an indicator resolve in any case; replays change nothing; ids are for ever; owners keep their columns; one administrator locks himself out by an edit only; a move that nothing overtook swaps neighbours; caches are recent; an operation is stored whole and its outcome is true |
| `degraded_verdict`, `lineage_depth`, `migrations_partial`, `admin_edit` | | disagreements of code and documents, below |

Bounds, and why they are enough:

* `requests`: five requests in threads overfill two slots and two places, so that two wait
  in turn and one is refused. A child multiplies the states of its request, and three
  requests with children (`FewIsolated`) give two served and a waiter, in every mix of
  endpoints; a refusal of a request that would have had a child is in `requests_live`.
  `Renew` makes the sequence of requests unbounded. The pool has one thread instead of
  four so that it can be exhausted.
* `answer`: three steps fill a queue of three before the answer, result and end records
  (`MaxSteps`, `QueueSize`). Three searches, the last of the supplemental round, one at a
  time (`Parallel`), one table to confirm (`MaxTables`), at most two merged candidates
  (`MaxMerged`), one change of the catalogue (`MaxChanges`). Two `Calls` compete for one
  permit (`Capacity`); the theorems of section 4 take any number.
* `access`: four ticks pass a window of 2, a block of 1 or 2 and a time to live of 3; one
  tick of delay lets two handlers be applied in the order opposite to their clock reads;
  three keys overflow a table of two. Sessions live one day of three; two changes of
  accounts, roles or permissions (`MaxChanges`) fall anywhere in a request. Days pass
  only for the router `auth`, whose handlers alone depend on a session's age.
* `catalog`: a lease of one tick expires, once, within `MaxTime` 1; one change of a fact
  or of the wall clock (`Skews` -1, 0) falls at any point; a second snapshot (`MaxIds` 2)
  competes for the only place. The sum of bytes is tested again under the lock that
  inserts and is not stressed here.
* `lineage`: one call is repeated (`MaxRetries`); one reader suffices, since readers take
  no locks. Budgets (`MaxEdgeRows` 9, `EdgeReadsPerNode` 2, `MaxTableViewTasks` 2,
  `MaxProjectionPairs` 3) run out on these graphs; `LineageDepth.cfg` raises two of them.
* `migrations`: `MaxCrashes` 1 and `MaxChanges` 1, at any statement of any deployment.
* `stores`: two sessions and three writes in an area (two in the administrative ones),
  a cache lifetime of one tick, two edits of the profile (`MaxConfigEdits`).
* Symmetry is used in runs with safety properties only: requests, login keys and
  attempts, issuers, readers and values, the ingestions of different imports.

Fairness. `AskRequest!FairSpec`: threads run, a coroutine that can go on does, the
message loop ends by the worker's deadline (`has_timed_out`), an in-process answer by
its own overall deadline. Not assumed: that a client disconnects, that a child exits,
that a stuck child dies. `AskAnswer`: the handler goes on, deadline and grace period pass, the
pipeline and its pool run, a round's time is over at some point; the threads of a call and
its helpers run, and the deadline of an armed timer passes. Nothing is assumed of
the child, of a server, nor of a search but that it answers once it was told to stop. In all, weak
fairness is enough. On the instance of `requests_live` a deferred `close()` never
competes for the pool, since its request holds the only slot; with more slots the
pool's queue, which is first in first out and not modelled, would be needed as well.

Deadlock is checked where the configuration does not switch it off. It does where the
system really stops: an answer is over, or time and changes are bounded.

### Disagreements

Four runs expect a violation:

1. `degraded_verdict`: the structured pipeline, whose searches came back degraded and whose
   hits the catalogue does not show, answers `insufficient_evidence` with a retrieval called
   degraded (`services/ai_ask_execution_service.py:1103-1125`). `docs/ai-ask-mvp.md:125` asks for
   `retrieval_unavailable` there, `:151` puts both streams under the same contract, and the
   plain pipeline keeps to it (`services/ai_ask_service.py:593-601`).
   `AnswersAreHonest` therefore claims of that verdict only that no search failed or went unheard
   and none left a hit, and of a retrieval called available that all searches were whole.
2. `lineage_depth`: in the detail view a table within the depth asked for is missing and
   `truncated` is false, when a job is first reached by the dearer of two paths.
3. `migrations_partial`: where DDL commits, a revision applied in part is stamped.
4. `admin_edit`: an edit that switches off the only administrator is accepted.

Further ones follow from the models, or were met while modelling, and have no run:

* A disconnect inside the await of `worker.start` makes `close()` see a worker that is
  not started yet; it stops nothing and frees the slot while the child is spawned outside
  it (`services/ai_ask_worker.py:236`; `services/ai_ask_admission.py:3` speaks of a limit on
  active work). `left` exempts such a request from `WorkHoldsSlot`.
* A call whose watcher or timer thread cannot be started never returns its permit: `join()` of
  a thread that was not started raises in the `finally` block, and what follows it, the
  `release()`, is skipped (`services/ai_llm_provider.py:226-233`,
  `services/rag_search_http_client.py:182-186`). After `AI_LLM_MAX_CONCURRENCY` such failures
  (`docs/ai-ask-mvp.md:174`; 2 unless configured) every call is refused as busy until a restart.
  No document promises the contrary in so many words, the intent of a `finally` block does
  (and the tests of `docs/ai-ask-mvp.md:190` ask it of timeouts). `PermitsAccounted` pins the loss down
  to exactly one permit per helper that could not be started, and allows no other.
* `/ask/progress` can close with no result at all, where `docs/ai-ask-mvp.md:13` and `:134`
  promise one: when the child's result record could not be queued, or making it failed and
  `worker_error` is all that is sent, the loop ignores that record, and `__end__` ends it
  (`fastapi/routers/ai_ask.py:327-341`; `services/ai_ask_worker.py:30-38`, `:107-130`). `/ask/stream`
  and `/ask` answer with a failure there. `EveryAskEnds` asks for the result on every other path.
* `/ask/progress` can send a second result event (`fastapi/routers/ai_ask.py:304`, `:316`)
  where `docs/ai-ask-mvp.md:13` promises one. `StreamIsWhole` counts answers and ends, not these.
* Two ingestions that overlap both stay ACTIVE (`metadata_ingestion_service.py:941`;
  `docs/metadata-ingestion.md:314` says one is). Readers take the newest.
* Two overlapping imports of one identity leave two field mappings
  (`field_mapping_service.py:860`), two overlapping edits of one asset a field twice
  (`metadata_ingestion_service.py:646`). The properties name the overlap they exempt.
* With two sessions, each of two requests removes the administrator the other counted,
  and a role is deleted between the look-up and the write of an assignment.
  `OnlyEditLocksOut` is checked for one administrator's session.
* A move of a menu reads the order and exchanges two orders in a later transaction
  (`services/system_management_service.py:1644`). Overtaken by another move, a creation or a
  deletion it exchanges menus that are no neighbours any more. `MovesSwapNeighbours` claims
  nothing of such a move.
* Without foreign keys a job created while its system is being deleted is left without it
  (`services/push_service.py:1013`), and copies and counts written by overlapping requests may
  disagree (`services/upstream_service.py:756`). `raced` marks that a write was committed over one
  it had not seen; `ChildrenHaveParents` (without foreign keys) and `CopiesAgree` (but for
  the ids of indicators) claim nothing after it.
* An indicator keeps the table and field names of the day it was written. A rename or a deletion
  of the asset (`services/assets_service.py:1636`, `:1798`; `services/metadata_ingestion_service.py:443`,
  `:497`) does not write `indicator_item`; readers resolve the names through the ids instead
  (`services/indicator_service.py:412`, `:450-455`). So `CopiesAgree` claims the ids, not the names.
* An import repeated while its first call is going on ends in the unique key's error
  (`InsertIsDuplicate`) instead of `already_applied`.
* `plan_revisions` fails before revision 0003 exists; two runners at once write two
  ledger rows for one revision; drift after the head is found by verification only.
* Over JDBC a commit that raised is tried again (`db/facade.py:289`), and a close that
  raises after the commit turns a stored write into an error (`db/core.py:184`). `doubt`
  exempts these from `OperationsAreWhole`'s claim about the outcome, not from wholeness.
* The test in `operation_log_service.py:449` for an operation without a connection is
  dead: `active_transaction_connection` opens one.
* The initial lineage view falls back to the table view and fails when the snapshot holds
  jobs only.
* `profile_for_request` treats a failure to read the caller as an anonymous caller; the
  export of field mappings projects each batch by itself.

## 4. Proofs

Every theorem is proved for all values of the constants that the module's named
assumptions allow, and by an inductive invariant whose parts are named; one lemma
for each group of actions shows that it preserves them, and the theorem about the
specification combines these with PTL. The invariants were checked with TLC on the
instances of section 3 before they were proved.

### `AskRequestProofs`

For every set of requests, every mix of endpoints, a child or a thread, every size of
the controller (`MaxConcurrent >= 1`, `MaxQueued >= 0`: the constructor enforces both) and
of the pool.

Of the controller, under requests that come, are cancelled and go for ever:
`ControllerTypes`, `SlotsAreAccountedFor` (`SlotsAccountedFor`), `QueueStaysExact`,
`SlotsAreNeverIdle`, `FirstComeFirstServed`, and `RequestsAreServedFairly`
(`ImplementsFairSlots`): the requests are served by the slots of `FairSlots`. By itself,
its methods called in any order, it implements them too (`ControllerIsFair`).

`ControllerInv` is `TypeOK`, `SlotsAccountedFor`, `QueueIsExact` and `NoIdleSlot` of
`AskAdmission` (the instance `Adm`, a lease named by its request). No part is
inductive alone. The hand-off keeps the counter only because the deque holds queued
leases, each once: then the loop stops at its first turn, at the oldest waiter
(`HandOffToOldest`), and what one lease gives another takes. `ReserveQueued` keeps
`NoIdleSlot` only because the counter is exact. Removing a waiter from the middle
needs `RemoveAtFacts`, about sequences, and `RemovedFromQueue`. The refinement maps
running clients to active leases, the line to the deque and those gone to released
leases; `StepRefines` maps each call of the controller to an action of `FairSlots` or to a
stutter, `CallsOfController` each step of a request to one call, to none, or to a lease
that is forgotten (`Renew`), which is a client that may come again.

Of the requests themselves: `WorkRunsInSlots` (`WorkHoldsSlot`) and
`RequestsLeaveNothing` (`NothingLeftBehind`).

The two properties speak of `state`, `task` and `proc` only; what makes them hold is who
is responsible for the child at each moment. `InPlace` says it, request by request:
before a request begins it has no thread and an unused guard (`NothingBegun`); a start
runs for a handler that waits for it, or for one that was cancelled (`StarterInPlace`);
a child that runs without a worker in the guard has a `close()` that is about to stop it,
unless the request was cancelled inside its start (`ChildIsOwned`); the guard releases
at its close, once (`GuardInPlace`); a thread that goes on keeps its deferred release
(`TaskInPlace`). A step of one request may hand a slot to another: `KeptInPlace` shows
that this leaves the other in place.

### `BoundedCallProofs`

For every set of calling threads and every number of permits: `PermitsAreAccountedFor`,
`NothingIsLeftBehind`, `CutBodyIsNoAnswer`. The first says exactly what the code does, a loss
included: what is not free and not with a call that will come to its release was lost with a
helper that could not be started, one permit for each. The invariant adds where the helpers of a
call can be for each place the call is at (`HelpersInPlace`), and that a body is cut only
by a helper with a reason that stays (`CutIsExplained`): the last check of the call sees
the reason, so it cannot take the rest for an answer.

### `AskAnswerProofs`

Of the endpoint, under `AskStream`'s own specification, for every queue size, number of
progress records and choice of endpoints among the three: `AnswersAreWhole`
(`StreamIsWhole`), `ChildrenAreHeard` (`CompletedChildIsHeard`).
The two relate the answer to what the child came to, and what lies between them is the
invariant: records are the child's (`Truthful`), `__end__` is the last one queued, those
drained after the child's exit were all there were (`RecordsInPlace`); what a child got
through is with the handler or on its way to it (`OnItsWay`), which fails exactly when a
full queue made the child drop a record (`lost`); the handler has passed on what it read
and nothing else (`PassedOn`); and what it has said when it is done (`Closed`, `Whole`).
`Truthful` is what the drain of `_recover_exited_worker` rests on: it may stop at any
record, since `__end__` in the queue means that the child had answered.

Of the pipeline, for every set of planned searches and one supplemental, any hits, and the stream
and the calls beside them: `CallersCancel` (`CancelledOnlyByCaller`), `NothingGoesOn` (`NothingOutlivesAsk`),
`AnswersAreTrue` (`AnswersAreHonest`), `StreamBesidePipeline`. The invariant says where a
search can be while the pipeline is at each stage (`SearchesAreOver`, `StepsAreClosed`),
that a cancellation on its way is the caller's even where a `finally` still runs
(`CallerCancelled`), that only the stage the pipeline is in is shown as running
(`StagesAreEnded`), and that after a round the thread has heard every search it submitted
(`SearchesAreHeard`): a verdict of "no such asset" reads the states the thread took, not
the searches themselves, and this part says that they agree.

`SearchesAssumption` is used: the planned searches are numbered in order and a
supplemental one follows them, as `ai_ask_executor.py` submits them.

### `CatalogSnapshotProofs`

For every number of issuers, readers, facts, values and snapshots, and any skew of the
wall clock: `NothingIsOrphaned` (`NoOrphan`), `WhatIsServedIsCurrent` (`ServedIsCurrent`),
`RefusedIsNeverServed` (`NeverRevived`), `SnapshotTypes`. Besides the property itself,
the invariant says that one issuer at a time is between the capture lock and its release
(`OneIssuer`), that who reads a page holds a lease that was given out (`ReadersHoldLeases`),
that an id about to be inserted is nobody's yet (`NewIdIsUnused`), that no refused
snapshot is in the store (`RefusedIsGone`), and what a reader in its last check has seen
since it built its page (`LastCheckIsLate`): facts that still hold or held after the page
was built, before the deadline. The property depends on the order of the checks, and
this is the part that a re-ordering would break.

### `LineageProofs`

Of the publication, for every finite set of publishers and any graph contents: `PagesAreWhole`
(`ReadsWhole`), `SuccessIsTrue` (`SuccessMeansStored`), `CollectorsPublishAlone`
(`CollectedIsAlone`), `NothingIsUndone` (`NeverUndone`). The invariant says what a
committed row has (`RowsAreWhole`), that nobody else writes a row or a table that is
locked, and that an open transaction only deactivates rows that are not its own (`Locks`),
that nobody past the start of its UPDATE misses a collector's snapshot and a collector
misses none (`Alone`), and what a reader has read so far (`ReadersInPlace`). Without the
table lock an UPDATE could miss a row inserted meanwhile; there the proof would fail.

`LineageAssumption` is used: a collector and an ingestion never publish under one
snapshot id. The ids of ingestions are hashes with the prefix `metadata-`
(`services/metadata_ingestion_service.py:851`), the collector's are `JOB_TABLE_` and the
time of its start (`services/lineage_collector.py:112`). Generation times are
distinct, as readers order by them.

`LineagePublishes` carries these four over from `Spec` to `LineageSpec`, which the run checks.

Of the walk, for any finite graphs, any requests and any budgets: `WalkShowsTheTruth`
(`PagesAreTrue`), from `WalkStaysInPlace`. The property compares a page with the paths of
the graph; the code knows no paths, only rounds with a frontier, a lowest cost per node and
a set of expanded nodes. The invariant relates the two: in some round r of a branch

* `Sound`: what is in the frontier or expanded is the end of a path of at most r steps, what
  has been reached since of r + 1, at the cost that is noted. Each round but the last expands
  a node not expanded before, so a branch never outruns the paths that `Ends` counts, which
  have as many steps as there are nodes;
* `Complete`, as long as nothing was cut and the course is straight: every end of a path of
  r steps has been reached at no more than its cost, and whoever has left the frontier has
  been `Followed`: each of its neighbours is reached at its cost plus the toll, and the
  edge is on the page. At the end nobody is left in the frontier, and the levels rise
  to all paths (`EndKeeps`);
* `InPlace`: what is selected is reachable, in the table view a table, each edge is a step of
  the graph; the bounds; and what a branch left when it ended (`BranchKept`), which the later
  ones keep, since they only add.

`AllGrown` says what one pass over the neighbours found does, node by node; `AdjacentIs`,
`JobsAdmitted` and `CutIs` that a batch, the jobs or the pairs that were cut are reported,
which is where the proof fails if `truncated` is not set; `ThroughJob` and `JobBetween` that the
pairs of the table view are its steps. `DepthIsEnough` is the reason why no edge between two
nodes of a page is lost at the full depth.

`PagesAreTrue` claims completeness where the fewest steps to a node are also the cheapest
way to it (`IsStraight`). In the detail view this is a real condition: without it the
property is false, which is finding `lineage_depth`. In the table view it always holds, and
`TablePagesLeaveNothingOut` states completeness there without it.

`GraphsAssumption` (finitely many nodes, edges between them), `RequestsAssumption` (what
`_validated_graph_options` lets pass: a direction, a view, a depth, room for one node) and
`BudgetsAssumption` (the budgets are numbers) are used.

### `AccessProofs`

For any usernames, custom roles and grants, threads and browsers, and for each of the 18
routers: `RequestsStayWithinRights` (`WithinRights`), `EverySessionEnds` (`SessionsEnd`).
Both quantify over accounts, roles and permissions that change at any moment of a
request. The invariant follows one request (`InPlace`): what its caller may do now has
been within its rights since it came, and what was decided of it still stands unless its
account has been changed (`CallerIsKnown`); what each place on its way has passed
(`Passed`); and how old its cookie can be (`SessionOK`): a signed one is issued within a
lifetime of the password, since the only later issue is the upgrade of an old-format
one, which was in time. `OnlyMe` reads the whole table of routes: the one handler that
re-reads the caller's permissions is on a route that asks for none. In the behaviours of the
area "limiter" nothing is requested, so both properties hold there of nothing.

`LifetimeAssumption` is used: sessions last at least a day, as `settings.py:98-99` enforces.

Of the limiter, for any policy that its constructor accepts, any keys, any handlers and any
delay of a handler: `NothingIsForgotten` (`FailuresAreRemembered`). `LimiterInv` says what
the table is in every state (`TableOK`: the order lists the keys it has, no more than there
is room for, and the block of a key is what its number of failures makes of the time of
the last one) and that a handler's reading of the clock is `MaxDelay` old at most
(`HandlersOK`). `KeepingRemembers` is the step the first part hangs on: a key whose
failures count survives any clean-up with an older reading of the clock, since it is
compared with a time that has passed. The third part needs that backoffs only grow
(`RoundsGrow`, `BlocksGrow`): then a later failure with an earlier reading takes back no
more than the handler's delay. `RoundsIs` and `OnlyIs` say what the doubling and the
clean-up compute, by induction (`SetInduction`, below). `PolicyAssumption` is used, which is
`LoginProtectionPolicy.__post_init__`.

### `RegistersProofs`

Of the façade every register stands on, for any operation of any number of calls, any
profiles, capacities and edits of the configuration: `EveryOperationIsWhole`
(`OperationsAreWhole`). The invariant `FacadeInv` says which rows the connection has in
hand at each place (`HandOK`: the calls before this one, and of this one the statements
that ran), which are stored (`StoredOK`: nothing of a scope before its COMMIT; outside one,
exactly the calls that ended), where they are (`PlacesOK`), that a statement runs only on
a pinned connection of the profile its call has read (`ConnectionOK`), and what the
caller can have been told (`OutcomeOK`). `RowsBelowNext` and `UnitsApart` are the lemmas
about rows: calls write different ones, so a unit is stored whole or not at all without
regard to what others stored. `HandIsUnit` is the step the property hangs on: a
COMMIT is reached with the whole unit in hand, and not with part of it.

`PlansAssumption` is used: a plan is a sequence of calls, each of at least one statement.

Of the accounts, for any names, roles and number of ids: `OnlyEditsLockOut`
(`OnlyEditLocksOut`), with one administrator at a time (`Administrators = {one}`). That
is a hypothesis and not the whole truth: two administrators who disable each other at once
each see the other still active, and the code does nothing against that (Disagreements);
the property is about which operations forget the rule, and the run has one session too.
`AccountsInv` says that names are unique and that what a session is about to write is what
its checks have seen (`WriteInPlace`); `OneRemains` is the arithmetic of the check: of two
administrators one remains.

Of the portal's caches, for any menus, dictionaries, threads and readers: `CachesStayRecent`
(`CachesAreRecent`). `StatsInv` follows the three attributes of the statistics cache: who
is alone between two of them finds what one request has stored (`StatsAreOfOne`).
`CodesInv` says what each session has planned and whether its plan still fits the rows
(`PlanInPlace`), which of the codes it changes it has announced (`AnnouncedOK`), how old
what a reader holds can be (`ReaderOK`), and that an entry is the stored one or overlaps a
write (`EntryOK`). The heart of it is the commit (`PlanCommitted`): a plan that no other
commit came between changes the codes of the categories it has announced, and no
others. `CodesAssumption` is used (entries live at least a second,
`common_code_service.py:72`), and `SeedAssumption`: the rows at first have keys of their own.

Of the asset catalogue, for any collectors and people, any requests of theirs and any
interleaving, with every other register written meanwhile: `IdsStayForever`
(`IdsAreForever`) and `OwnersKeepColumns` (`OwnersKeepTheirColumns`). Neither property is
inductive: between the checks of a request and its commit others commit. `CatalogueInv`
says what survives that. The tables have their columns, number ids and no id twice
(`CatalogueOK`), and every plan that a session carries still fits them (`PlanFits`), of
whatever database it was made: no statement of it changes an id; a field is renamed only
within its key, and a natural key written only to the asset that has it (`KeepsIds`); an
ingestion changes no column of the portal (`KeepsPortal`); an edit by hand writes what
sources maintain only of assets that have none, or of the one it inserts itself
(`KeepsSource`). A plan goes on fitting since commits keep ids (`PlanFitsStays`): that is
why the ids of the first property are what the second rests on. The proof is in four parts:

* what a list of statements makes of the tables, statement by statement
  (`RunKeepsIds`, `RunKeepsPortal`, `RunKeepsSource`); the last needs that MAX+1 is no
  id in use when the insert succeeds (`IdIsFresh`), although it was chosen earlier;
* that beginning, choosing keys, committing and rolling back keep the invariant, whichever
  plan it is (`BeginKeepsCatalogue` and the three after it);
* that the plans of the five operations fit (`IngestFits`, `CreateFits`, `UpdateTableFits`,
  `UpdateFieldsFits`, `DeleteFits`): `ReconcileFits` and `MergeFits` about the merge of
  fields, from `WithinIs` and `MatchedIs`;
* that all other operations write other tables (`PushElsewhere`, `ApiElsewhere` and the
  others), which is read off every statement of theirs.

The assumptions used say that payloads hold finite lists (`IngestAssumption` and the others
named so) and that the rows at first have their columns and keys of their own
(`SeedAssumption`).

The statements of a transaction run by a fold, and a fold is induction over data. The
library's induction theorems take an operator as a parameter, which the installed provers
cannot instantiate, but induction itself can be used: `SetInduction` says that a set with 0 that is closed under the next number
holds them all, from the theorem that `<` on the naturals has minimal elements; and a set
is no operator. `RunExists` and `RunIs` say with it what `RunAll` leaves after each
statement, `WithinIs` what a filtered list has, `Flattens` what lists joined have.

### `MigrationsProofs`

For every deployment, any number of mappings, indicators, options, keywords and other rows,
any list of changes by others, any number of crashes, and both DDL modes: `LedgerStaysTrue`
(`LedgerIsTrue`), `RowsStay` (`RowsSurvive`), `PlansComeTrue` (`PlanComesTrue`).

The thirteen revisions meet in one database, and the properties hold because they keep out of
each other's way. So the proof first says what each revision writes (`Objects`, `Rows`)
and what its inspection reads (`ReadObjects`, `ReadRows`). `Footprint` shows statement by
statement that nothing else is written and that no row is lost, `InspectionReads` that nothing
else is read, and `RevisionsApart` compares the two for every pair of revisions:
`OtherInspection`, one revision's statements leave another's inspection as it was. Two pairs are
left over, and they are the interesting ones. 0003 creates the tables that 0004, 0006, 0007
and 0011 look into; and 0010 drops the index that 0006 made and puts its own in the place
(`IndexPassedOn`).

* `RunInv`, the runner's invariant: both databases are databases, what is still to be issued
  belongs to the revision under way, nothing committed is lost in what the runner sees.
* `LedgerInv`: every revision the ledger names stands, both in what is committed and in what
  the runner sees, or others have touched it, or the runner is between the two statements of
  0010 (`Between`). There the ledger would be wrong after a crash if DDL commits, and
  `MappingIs` is why it is not passed over: 0010 finds neither index and refuses.
  It needs two more parts: what 0010 has seen of its own index while it runs, and that the
  revision being stamped stands.
* `PlanInv`, while nobody interferes: the plan still says what is found of the revisions ahead
  (`Foretold`), what runs differs from what is committed in what the revision under way
  writes, and the statements left lead to its post-condition (`Toward`). `StatementsLead`,
  `OneNearer` and `Arrived` say that the statements of an adapter lead there when they are
  planned, after each of them, and when none is left: so the second inspection never fails.
  `ForetoldKept` is the step to the next revision: a plan made before 0003 created its tables
  says "pending" of what looks into them; and 0006 makes no index 0010 does not expect
  (`IndexKept`), since then it would have found its post-condition.

The assumptions used are about constants: a database has the parts it has, finitely many rows,
and no rows of tables that are not there (`IsDatabase`); where there is a ledger, the revisions it
names have their post-conditions and the column 0006 is about is there
(`SituationsAssumption`), without which the ledger would be wrong before any runner
started; and what others do is one of the things listed (`ChangesAssumption`). TLC
evaluates them on the deployments of run `migrations`.

### What is only model-checked

Liveness (`SlotIsReturned`, `WaiterIsServed`, `CallEnds`, `EveryAskEnds`) and ENABLED are
beyond TLAPS as installed. These safety properties stay with TLC:

* `ReleasedReachHead` is about the deployments that released versions left: which these
  are is a list (`MCMigrations`), not something a theorem could say for all of them.
* The other properties of run `stores`: `ChildrenHaveParents`, `CopiesAgree` and
  `ReplayChangesNothing` need what each of some thirty operations computes, row by row, and
  `MovesSwapNeighbours` needs `SortSeq`, whose definition no installed prover can expand.

No module here declares a RECURSIVE operator.

## 5. Not modelled

* Contents: questions, answers, documents, names. Success and failure, identity, hash
  equality, ownership and status are what the properties tell apart.
* Search, listings, statistics, exports and options: reads that keep no state.
* In the AI handlers: heartbeats, keep-alive comments and logs, and the in-process
  variant of the reading loops. `shutdown_cleanup_pool` is called by tests only.
* In `CatalogSnapshot`: which rows a capture selects, cursors and proofs of possession.
* In the lineage modules: validation, parsing, redaction, the search for nodes, reading
  the scheduler's database and its schedule.
* In `AdminUsers`: password reset, a write of one column.
* In `db/`: the engine cache, the lexer that classifies SQL, bind value conversion.
* The frontend's stale responses, viewer packages, scripts, demo and deployment files.
* Password hashing and cookie signatures, taken to work.

## 6. Plan

The components that carry the program's logic are modelled. Worth doing next:

1. Proofs about the registers: `ChildrenHaveParents` and `CopiesAgree`, table by table, along
   the lines of `CatalogueInv` (a plan that nobody came between fits what it was made of).
2. A run with two administrator sessions, once the disagreement about the last
   administrator is settled in the code.
