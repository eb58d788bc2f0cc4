# A TLA+ verification of webhook-inspector

webhook-inspector hands out URLs (endpoints), records every HTTP request sent to
them and shows the recorded requests live, in pages and as a JSON export. This
directory holds TLA+ modules translated from its source (`src/src/webhook_inspector`,
abbreviated `wi/` below), TLC configurations that check them on small instances,
and proofs checked by TLAPS.

## 1. The system

Two FastAPI services and a scheduled job share one Postgres database and one blob
store. A deployment upgrades the database and then replaces both services.

| Part | Source | State it keeps | Operations |
|---|---|---|---|
| Endpoint creation (app) | `wi/web/app/routes.py`, `wi/application/use_cases/create_endpoint.py`, `wi/domain/entities/endpoint.py`, `wi/application/services/slug_validator.py` | one transaction per call | validate, INSERT under the unique index on `token`, 201, COMMIT |
| Capture (ingestor) | `wi/web/ingestor/*`, `wi/application/use_cases/capture_request.py`, `wi/infrastructure/repositories/*` | one transaction per call | look up, put blob, INSERT and `pg_notify`, UPDATE of the counter, optional delay, response, COMMIT |
| Connection pool (ingestor) | `wi/web/ingestor/deps.py`, `wi/infrastructure/database/session.py` | connections handed out, calls that wait | check out at the first statement, give back with the session |
| Health check (ingestor) | `wi/web/ingestor/routes.py` | a pooled connection | SELECT 1, upload of a trial object, 200 or 503 |
| Cleaner (daily job) | `wi/jobs/cleaner.py`, `delete_expired` | one transaction | one DELETE over all expired endpoints, COMMIT |
| Database | `wi/infrastructure/database/models.py` | tables `endpoints`, `requests`, channel `new_request` | row locks, unique index, foreign key without ON DELETE |
| Blob storage | `wi/infrastructure/storage/*` | objects by key | put, get |
| Notifier | `wi/infrastructure/notifications/postgres_notifier.py` | LISTEN connection, reader task, lock, a queue for each subscriber | start, stop, subscribe, dispatch, crash and reset |
| Viewer page and live view (SSE) | `viewer`, `sse_stream` in `wi/web/app/routes.py`, `wi/web/app/sse.py`, `viewer.html` | a page in the browser, one generator per stream | list, probe, subscribe, look up and render, close |
| Listing and search | `list_requests`, `list_by_endpoint` | none on the server, a cursor at the client | one page |
| Export | `wi/application/use_cases/export_requests.py` | one transaction and cursor | count, header, rows, end |
| Migrator and deployment | `migrations/`, `wi/jobs/migrator.py`, `.github/workflows/deploy.yml`, `infra/fly/*.toml` | `alembic_version`, the schema, the machines of each service | read the version, DDL, commit, build the index, stamp, roll out |
| Metrics, tracing, gauge loop, landing page, configuration | the rest of `wi/` | none that an operation depends on | |

The services interact only through committed rows, row locks, the NOTIFY channel and the
blob store; inside the app process, SSE streams, the lifespan and the reader task share
the notifier object and interleave at their awaits; inside the ingestor, captures and
probes share the connection pool.

What is hard about it: captures of one endpoint serialise on its row for as long as
their transactions are open, and a configured delay keeps them open; all that time they
hold a pooled connection, and a health probe holds one through an upload; the COMMIT comes
after the response (FastAPI runs the exit code of a `yield` dependency after it has
sent the response); the cleaner locks rows while captures insert children of them; the
blob is stored outside the transaction; a broken LISTEN connection is noticed by one
task and repaired by another; a page is listed before its stream listens; readers see rows
appear behind their cursors; an upgrade commits in two parts, and deployments overlap.
`PROJECT.json` lists these hazards line by line with the properties that cover them.

What makes each part correct, in a sentence:

- creation: one token, one endpoint, whatever races;
- capture: row, counter and announcement appear together or not at all, and a row never
  names an object that was not stored;
- pool: every connection is given back, on every way out, and every call that waits for
  one ends although those who hold one wait for row locks;
- cleaner: removes only expired, empty, unused endpoints, and does remove those;
- notifier and live view: no leaked connection or queue; a registered stream shows exactly
  what a reader has handed over since, in commit order and once; a page misses only what
  falls in the gap before its stream is registered or into a pause of the reader;
- listing: a walk repeats nothing, misses nothing that was there when it began, and ends;
- export: within the cap, never shorter than announced, and what it misses is only the
  oldest rows beyond the cap;
- migration: running code finds its columns and the version stamp is true, however
  deployments overlap and break off.

## 2. The modules

| Module | What it models | State and actions against the code |
|---|---|---|
| `Store` | the shared database, channel, blob store and clock | `live` and `requests` hold committed rows only; columns are functions of the id; uncommitted work lives in the process that does it |
| `EndpointCreation` | `POST /api/endpoints` | `stage[e]` is the await reached by the call that draws id `e`; `SlugUndecided` is the wait in the unique index, for creators, deleters and counter updates of a row with the same token |
| `RequestCapture` | `ANY /h/{token}` | `pc[r]` is the await reached by capture `r`; `new_count[r]` its uncommitted counter; the row locks it holds are functions of `pc` |
| `ExpiryCleaner` | `run_cleanup` | `doomed[k]` the rows the DELETE has yet to lock, `deleter[e]` who has locked row `e` |
| `WebhookInspector` | the composition of the four, fairness, properties | `Next` takes one step of the clock, a creation, a capture or a cleaner |
| `Inbox` | abstract specification | open, deliver, purge as single steps |
| `CoreInvariant` | the inductive invariant `IInv` | |
| `WebhookInspectorProofs` | theorems and proofs about the core | |
| `IngestorPool` | the core with one ingestor process: its connection pool and `GET /health` | `waiting` and `held` are the pool's queue and its checked-out connections; every step of a capture needs its connection (`OnConnection`), 413 is decided without one; `probe[p]` is the await reached by a probe |
| `IngestorPoolProofs` | theorems and proofs about `IngestorPool` | |
| `Notifier` | `PostgresNotifier` | `starting[t]` is where a task is in `start()`, `reader[c]` the task that reads connection `c`, `queues` the registry |
| `LiveView` | viewer pages, their streams and the app lifespan on top of `Notifier` | `Inbox` is the environment: the services outside the process are exactly what the core was shown to implement; `listed[s]` is the page, `shown[s]` what its stream has pushed; `since` and `joined` remember when a connection began to listen and a stream registered |
| `LiveViewInvariant` | the inductive invariants `LiveInv` (lock, connections, registry) and `DeliveryInv` (what is handed over, listed, waiting and shown) | |
| `LiveViewProofs` | theorems and proofs about `LiveView`: connections and registry | |
| `LiveDeliveryProofs` | theorems and proofs about `LiveView`: what streams and pages show | |
| `RequestTable` | the table as readers see it | rows commit in any order, `received_at` fixed beforehand; `selected` is the WHERE, `Younger` the ORDER BY, `Older` the comparison with the cursor |
| `RequestListing`, `RequestExport` | a paging client or a single page; one export | one action per request, respectively per statement and array element |
| `RequestReaders` | one reader of either kind beside captures that commit, and the inductive invariant `ReadersInv` | |
| `RankLemmas` | lemmas on the ranks of a finite set with a strict total order, for `NewestFirst` and for `Heard` | |
| `RequestReadersProofs` | theorems and proofs about `RequestReaders` | |
| `SchemaMigration` | `alembic upgrade head` and the roll-outs that follow it | `deploy[d]` is the step reached by deployment `d`, `applied` and `index` the schema, `version` the row of `alembic_version`, `running[s]` the revisions whose code runs |
| `MigrationProofs` | theorems and proofs about `SchemaMigration` | |
| `MCWebhookInspector`, `MCLiveView` | instances for TLC | symmetry sets |

Five modelling decisions carry most of the weight.

*Transactions.* Everything between the lookup and COMMIT is one READ COMMITTED
transaction: other processes see nothing of it but its locks. FOR KEY SHARE is held from
the INSERT on (`HoldsKeyShare`), FOR NO KEY UPDATE from the UPDATE on
(`HoldsNoKeyUpdate`), and a DELETE needs the row free of both. Statements that meet a
conflicting lock are actions that are not enabled yet. Postgres is not part of the
repository: the definitions of its locks are marked external in the map.

*Failures.* `FailCreate`, `FailCapture`, `FailSweep`, `PutBlobFails`, `StartFails`,
`ReaderCrash`, `RenderFails`, `FirstStatementFails`, `ProbePutFails` and the `BreakOff` of a
deployment each spend one of `MaxFaults`. A failure is a raised exception, a lost connection
or the death of the process: for the database they are all a rollback. A failed `put` may
have stored its object. Aborts the code itself provokes (a foreign-key violation, a duplicate
slug, a deadlock between cleaners, 413, 404, a full pool's timeout) cost no fault.

*Disconnects.* `stream_for_token` iterates over the generator of `subscribe`. A task that is
cancelled while it awaits its queue is inside that generator and leaves it through the
`finally` block at once (`Disconnect` from `waiting`). A task that is cancelled, or whose
session fails, while it looks a request up, and one that is left at a `yield`, are in the
outer generator: the inner one is suspended at its `yield`, and as `async for` does not close
its iterator, the queue stays registered, and is filled, until the event loop's hook for
asynchronous generators closes it. Such a stream is `abandoned` until `Collect`. Any task can
be cancelled inside `start()`.

*Pages.* A stream of `LiveView` begins as a page (`LoadPage`), and its stream is opened at
any later time, when the page's slug may name another endpoint (`Named`). A browser that
reconnects is a page whose stream opens late. The page's limit of 50 is beyond the
instances.

*Upgrades.* Alembic runs all pending revisions in one transaction, but the
`autocommit_block` of the last revision commits what is open: `CommitDdl` commits the
columns with the stamp of the revision before, and only `StampHead` writes the last one.
Upgrades meet in the table locks of their DDL (`RunDdl` waits), not before.

## 3. The runs

| Run | Question | Bounds |
|---|---|---|
| `core_safety` | do the safety properties, `IInv` and the refinement of `Inbox` hold? | 2 endpoints, 2 captures, 2 tokens, 1 cleaner, 1 fault, bodies above the threshold |
| `overlapping_sweeps` | is `IInv` kept when cleaner runs overlap? | 2 endpoints, 1 capture, 2 free tokens and a reserved one, 2 cleaners, small and too large bodies |
| `expiry_liveness` | does every creation end, and do expired endpoints disappear? | 2 creators of 2 tokens, 1 capture, always delayed, 1 cleaner, 1 fault |
| `ingestor_pool` | is every connection given back, and does every call that wants one end? | 1 endpoint, 2 captures, 1 probe, 2 connections, 1 cleaner, always delayed, 1 fault |
| `live_safety` | what streams show, what pages miss, connections, queues; do `LiveInv` and `DeliveryInv` hold? | 2 endpoints, 2 captures, 2 pages, 3 connections, 2 faults |
| `live_progress` | delivery by a running reader, release of the lock | 1 endpoint, 1 capture, 2 streams, 3 connections, 1 fault |
| `readers` | what a walk, a single page and an export contain, does `ReadersInv` hold, and does a walk end? | 4 rows, 2 timestamps, limits 0 to 2, cap 2 |
| `migration` | do running code and the stamp fit the schema, and what does a broken-off upgrade leave? | 3 deployments of any revision on any earlier version, 2 break-offs |
| `doc_acked`, `doc_expired_deleted`, `doc_reader_crash`, `doc_export_count` | statements of documentation and tests the code does not keep | as small as shows it |

Why these bounds are enough to be interesting: two captures are needed to contend for a
counter, two endpoints for a cleaner to hold one lock while it waits for another, two
creators for a slug to be contended, two cleaners for a deadlock. The clock runs to 2 with
a TTL of 1, so an endpoint lives through creation, the instant of expiry (not yet selected
by the strict comparison) and the time after. Two tokens let one endpoint that holds captures
keep another from being deleted, and two creators still meet on one slug. "Always delayed"
means that every endpoint has a `response_delay_ms` (`Delays`): its captures keep transaction,
row locks and connection open for one step longer, which is the case the waits are about; the
safety runs of the core have endpoints of both kinds. With three callers and two connections the
pool is full while one capture waits for the row lock of another, or while a probe uploads,
and a third caller waits or times out. The lifespan and each stream
run `start()` at most once, so with two streams three connections are all that can ever be
opened: `Conns` cuts nothing off; two faults break the reader, and then its restart or the
second reader. Four rows with two timestamps contain every pattern of ties across a page
boundary at limits 1 and 2 and every way to cross a cap of 2; limit 0 stands for every limit
that gets a 500 (`FetchFails`). Three deployments let one break off, one overlap and one come
later. `CHECK_DEADLOCK FALSE` stands where the process, the walk, the export or the
deployments really end. The core deadlocks nowhere: the cron always starts a new sweep.

What the failing runs show (details under `findings`):

- `doc_acked`: a capture is answered before it is committed and can still be lost.
- `doc_expired_deleted`: one expired endpoint with captured requests makes every sweep fail
  on the foreign key, so no expired endpoint is ever deleted. `ExpiredDeletedUnlessBlocked`
  in `expiry_liveness` is the part that does hold.
- `doc_reader_crash`: after the LISTEN connection breaks, open streams stay silent until
  somebody else subscribes, and a stream that subscribes while the crash handler is closing
  the connection believes the reader is running. `RunningReaderDelivers` and
  `StreamMatchesFeed` are what holds.
- `doc_export_count`: the header's count is older than the array. `ExportNotShort`,
  `ExportWithinCap` and `ExportMissesOldestOnly` are what holds.

One finding is shown by a property that holds: `HalfMigratedBlocks` in `migration` says that
an upgrade which dies between the commit of the column and the stamp of its revision leaves
a database on which every later upgrade fails, because the revision adds its column without
IF NOT EXISTS. The same order is what keeps `VersionIsTrue`: with ADD COLUMN IF NOT EXISTS a
later upgrade would take an invalid index for a good one.

Three neighbours of these that have no run of their own: 201 with the hook URL is sent before
the endpoint is committed, so an immediate webhook may get 404, and a failed COMMIT leaves a URL
that never works; `request_captured` is called before COMMIT as well, so the metric "Total webhooks captured" counts rolled-back captures; and
nothing in the capture path reads `expires_at`, so "URLs expire after 7 days"
(`landing.html`) is true only of endpoints the cleaner could delete.

## 4. Fairness

Weak fairness of a task or job step: asyncio and the operating system run what can run.
Strong fairness of the steps that wait for a row lock or for the `asyncio.Lock`: both are
granted from a queue, so a waiter is not overtaken for ever. Weak fairness of `StartSweep`
and of the clock: the cron fires daily and time passes. `Sleep` is fair because
`asyncio.sleep` ends (the delay is at most 30 s).

Under the pool (`PoolFairness`): weak fairness of `Grant`, since a connection that is given
back goes to the first in the queue; strong fairness of the steps of a capture that holds a
connection, and of a sweep, for their row locks; weak fairness of a probe. The pool's own
timeout is possible and not fair: `EveryCallEnds` does not rest on it. The client of a walk
asks for its next page (`RequestReaders!FairSpec`); an export that has begun owes nothing.

Not assumed: that clients send, connect or stay; that anything fails or does not fail; that
a stream is ever disconnected; that a deployment goes on.

## 5. The proofs

`WebhookInspectorProofs` proves, for every value of the constants that meets
`StoreAssumption`, `CreationAssumption` and `CaptureAssumption` (a finite set of request
ids, `None` distinct from ids, naturals where naturals are meant; each is stated where the
constant is declared and evaluated by TLC):

- `CoreInvariance`: `Spec => []IInv`;
- from it `TypeCorrect`, `CountCorrect`, `RowsKeepEndpoint`, `BlobsReadable`,
  `NotifyCorrect`, `TokensUnique`;
- `DeletionSafe`: the action property `DeletionSparesCaptures`;
- `Refinement`: `Spec => Abs!Spec`, the core implements `Inbox`.

None of the safety properties is inductive alone. That the counter equals the number of
rows needs to know that at most one open transaction has updated a given endpoint
(`OneUpdater`) and that the value it will write is the successor of the committed one
(`CountIsNext`). That rows keep their endpoint needs the locks: a capture past its INSERT
protects its endpoint (`KeyShareProtects`), a DELETE that passed the foreign-key check
still finds its rows without children at COMMIT (`SweepIsSafe`), because every row it holds
is locked against new ones (`LockedRows`). `BlobStored` follows a blob key from the upload
to the row. `IInv` is the conjunction, checked by TLC in two runs and proved with one lemma
per process: `TickInv`, `CreateStepInv`, `CleanerStepInv`, `CaptureStepInv`. In the last,
`BeforeCommit` says that no step but COMMIT publishes anything and `CommitEffect` what
COMMIT does, where the library's cardinality facts give the counter its `+ 1`.

The refinement mapping takes `live` for the open inboxes, the committed creations that are
no longer live for the closed ones, committed rows for contents, `request_count` for the
count and the channel for the feed. All steps but the three COMMITs stutter
(`CreateRefines`, `CaptureRefines`, `CleanerRefines`).

`IngestorPoolProofs` proves, for any set of probes apart from the requests and any positive
size of the pool (`PoolAssumption`, with those of the core):

- `PoolInvariance`: `PoolSpec => []PoolInv`;
- from it `ConnectionsReturned`;
- `PoolCoreInvariance` and `PoolTypeCorrect`: `IInv`, and with it every safety property of
  the core, holds under the pool too;
- `PoolDeletionSafe`: so does the action property `DeletionSparesCaptures`;
- `PoolRefinement`: `PoolSpec => Abs!Spec`, the core under the pool still implements `Inbox`.

A connection could be lost or counted twice if a call were granted one that it no longer
waits for, so the invariant says that a call is in the queue once, before its first statement
and before it has failed (`QueueIsFresh`). For the core, a step under the pool is a step of
the core or a fault that leaves no trace in it (`PoolStepCases`, `FaultKeepsIInv`); the step
lemmas of the core (`StepSpares`, `StepRefines`) then carry over.

`LiveViewProofs` proves, for any sets of endpoints, requests, streams and connections
(`NotifierAssumption`):

- `LiveInvariance`: `Spec => []LiveInv`;
- from it `LiveTypeCorrect`, `ConnectionsNeverLeak` and `RegistryFitsStreams`.

That no connection leaks needs to know what the lock protects: only its holder is between
connect and `create_task`, or closing after a crash (`LockHeld`), and it has found no reader
that runs or waits to be reset, and has closed what was open (`HolderIsAlone`). `NotRunning`
is the point where the second look at the reader, under the lock, is used: without it two
starts would follow each other and the first connection would be lost. A task that fails or is
cancelled in between leaves a half-open connection, which `listen_conn` still names
(`LeaveConnInv`), so the next start closes it. For the registry, only a stream that awaits
`start()` is inside it (`StartersAreStreams`), so the end of `start()` registers exactly the
stream that goes on to wait. `QueuesMatchStreams` counts the streams that were left and are not
collected yet (`abandoned`) among those with a queue: that they keep it is what the code does,
and that nobody else does is the claim.

`LiveDeliveryProofs` goes on from there, with no further assumption:

- `DeliveryInvariance`: `Spec => []DeliveryInv`;
- from it `StreamsMatchFeed` and `PagesMissOnlyGap`.

`StreamMatchesFeed` compares what a stream has shown and has waiting with `Heard`, the
requests at those positions of the feed that some reader handed over, of the stream's
endpoint and after it registered. For the next announcement to extend both sides at their end,
readers must take turns: `ReadersInTurn` says that each connection has handed over one stretch
of the feed, that the stretch of the current reader lies behind those of all earlier ones, and
that no stream has registered ahead of it. A new connection begins at the end of the feed, which
is how `Listen` keeps this (`StartTurn`), and `HolderIsAlone` is why no other reader can still
be handing over. `Heard` takes the positions by rank (`Nth`), so that a position behind all
others leaves the ranks of the rest (`NthStays`), comes last itself (`NthLast`) and appends one
request (`ToldExtends`); these rest on `RankLemmas`. The registry (`QueuesMatchStreams`) decides
which streams get the announcement, and exactly those hear it (`DispatchHears`). Of a stream
that was left, with or without a queue still registered, only this is said: what it had shown is
a first part of `Heard`. Leaving keeps that (`LeftDelivery`), and what its queue still receives
nobody reads. Further conjuncts are needed where a step reads other state: `StagesFit` (a stream
that is neither served nor waiting for its collection has an empty queue, so a registration
starts level with `Heard`: `RegisterDelivery`), `FeedIsReadable` (an announced capture is in its
inbox, so `Render` never skips one, and an
inbox with captures is never purged) and `PageFitsTopic` (so a page with rows keeps its
endpoint even if its slug is looked up again: `PageDelivery`).

`RequestReadersProofs` proves, for any set of natural row ids, any bound of the timestamps, any
limits and any cap (`RowAssumption`, `LimitAssumption`, `ExportAssumption`; of a possibly
infinite set of ids, finitely many are committed):

- `ReadersInvariance`: `Spec => []ReadersInv`;
- from it `ReadersTypeCorrect`, `PagesDescend` and `PagesComplete` for listings,
  `ExportCapped`, `ExportComplete` and `ExportKeepsNewest` for exports.

ORDER BY is the element of each rank in the order by timestamp and id, which is total although
timestamps tie (`AgeIsOrder`). Every rank has an element (`RankExists`), because ranks are an
injection from a finite set into as many numbers, so no induction is needed. Hence `NewestFirstSorts`, and with LIMIT
`NewestPage`: what a page leaves out is older than all of it, and then the page is full. A walk
goes on from its last row because its cursor selects exactly the rows that sort behind it
(`OlderIsLater`, `PageIsNext`): `WalkInv` says that the cursor is the end of the list so far and
that what is missing of the rows the walk began with lies behind it, so the next page extends
the descending list (`PageExtends`) and a short page has the rest. For exports the invariant
speaks of the rows sent and still to be sent together (`Sending`): they are fixed when the cursor
opens on a table that has at least the counted rows (`OpenInv`), and what has been sent is the
first part of them at any moment, also when the response breaks off.

`MigrationProofs` proves, for any set of deployments and any number of break-offs
(`MigrationAssumption`):

- `MigrationInvariance`: `Spec => []MigrationInv`;
- from it `MigrationTypeCorrect`, `CodeHasColumns` and `VersionNeverLies`;
- `HalfMigratedIsFinal`: the action property `HalfMigratedBlocks`.

The argument: the DDL of a pending revision fails on what is there, and only one upgrade
at a time has DDL open, so what it commits is new (`DdlIsNew`). Hence at most one upgrade
ever reaches the index (`OneIndexer`): nobody else can stamp the last revision while the
index is missing or invalid. What a deployment has read or committed is never taken back
(`DeployKnowsSchema`), so the code it rolls out finds its columns. In a half-migrated
database `CommitFindsHeadMissing` excludes an open DDL transaction, and every step is one
that reads, fails or rolls out older code.

Every safety property that a passing run checks is thereby proved. Only model-checked is the
liveness (`EveryCreationSettles`, `ExpiredDeletedUnlessBlocked`,
`EveryCallEnds`, `RunningReaderDelivers`, `StartEnds`, `WalkEnds`): it rests on fairness, and
TLAPS does not reason about ENABLED.

## 6. Abstractions and what is not modelled

- Bodies are lengths, compared with the two limits as the code compares them; tokens,
  endpoints, requests, connections are model values. Method, path, headers, rendering and
  logging are left out. A body with a NUL byte, which Postgres text cannot hold, is one of
  the failures of `FailCapture`.
- All validation errors of a creation are one kind of rejected token.
- The order in which a DELETE visits rows is any order, fixed by nothing in the code.
- Postgres' tuple locks, which order the waiters for one row, are left out: who waits and for
  whom follows from the row locks alone, and the fairness assumed stands for the queue.
- A search term is the set of rows it matches; the tsvector expression and the query parser
  are Postgres'. The browser's swap of the whole list by a search result, which drops what
  the stream had pushed, is not modelled: the page is loaded once.
- The app's own connection pool is not modelled (a stream holds a connection only for a
  look-up, an export for as long as its client reads), nor its `/health`, a single SELECT 1.
- The blob backends: each call is one request to a service or a file, and `get` matters
  only by failing in the middle of an export. A blob whose transaction fails stays behind;
  the models reach this, and nothing in the code depends on it.
- Gauge loop, metrics, tracing and logging: output only. Landing page and hook URL: a
  pure rendering.
- Deployment: downgrades, which nothing runs, images, secrets and the smoke test. Code that
  is deployed without the workflow is not modelled.

## 7. Plan

Done, in this order: the core (`Store` to `WebhookInspector`), `Inbox` and the refinement,
the inductive invariant and its proof, `Notifier` and `LiveView`, the readers, the viewer
page with its stream, the ingestor's pool and health check, migrations and deployments with
their proof, the proofs about the pool and about connections and registry of the live view,
those about readers and about what streams and pages show, and the refinement under the pool.

Next, in order of importance:

1. Steps towards liveness that are safety and can be proved: that a task which waits for the
   `asyncio.Lock` always finds a holder with an enabled step, and that among those who wait for
   row locks somebody can always go on.
2. Slug and endpoint validation as operators over bounded inputs, checked against a
   reference definition.
3. The orphaned blobs of failed transactions, as a statement of which objects no row names.

A new module joins an existing run's question where it can rather than adding a run of its
own, as `RequestReaders` does for the readers and `IngestorPool` for the core.
