# Verification of the Udyam MSME extractor

This directory holds TLA+ models of the program in `src/`, the TLC runs that
check them on small instances, and TLAPS proofs of their main properties.
`PROJECT.json` lists components, runs, hazards, findings and theorems, and for
every definition the lines of the source it models.

    tlc -workers 2 -config Extraction_local.cfg MCExtraction.tla
    tlc -workers 2 -config Ingestion_retries.cfg MCIngestion.tla
    tlapm IngestionProofs.tla

## 1. Inventory of the system

The program copies the MSME registrations of India's states from an HTTP API
into a search site, in five stages that talk through files and tables:

    data.gov.in API --(run_udyam)--> batch CSVs + manifest + checkpoints
        --(compact_batches)--> compacted CSVs + compaction manifest
        --(load_to_snowflake)--> RAW.MSME + RAW.INGESTION_BATCH
        --(dbt)--> bronze, silver, gold
        --(webapp backend, front end)--> users

Airflow DAGs and a GitHub workflow start the stages in this order under one
`UDYAM_RUN_ID`.

| Component | State it keeps | Operations | What is hard | What makes it correct |
|---|---|---|---|---|
| `udyam_extractor.py` | per state: checkpoint file, batch artifacts, lines of the run's manifest; per thread: offset, written, total | `extract_state` with `fetch_batch`, `write_batch_file`, `publish_batch`, `write_batch_manifest`, `save_checkpoint`, `mark_state_failed` | threads share one manifest; a kill between any two writes; retries; a total that changes while it is fetched | no record twice or missing, writes in order, COMPLETED means complete, a retried run completes |
| `run_udyam.py` | run summary, exit code, shutdown flag | `main`, `reconcile_run`, signal handlers | signal against requests in flight, exceptions of workers, upload of the summary | exit 0 only for a whole run; the process ends |
| `storage.py` | objects with a checksum in their metadata | `publish_batch` (put-if-absent, then HEAD), `validate_artifact`, `sync_*` | an upload that fails after it was stored, a HEAD that fails for a moment | an object is never replaced, a line names a valid object |
| `config.py` | none | `load_settings` | - | bounds of the numbers it reads |
| `scripts/compact_batches.py` | compacted files, compaction manifest | `compact_run`, reuse of an existing compaction | manifest written before it is uploaded, a compaction older than the extraction | each batch in exactly one chunk, chunk limits kept |
| `scripts/load_to_snowflake.py` | RAW rows, ledger, transaction | `process_run`, `process_compacted_file` | autocommit, kill between rows and ledger, two loaders | each batch loaded once, LOADED only with its rows |
| `dags/`, `.github/workflows/` | active run id (Airflow variable, file in `/tmp`) | choose, keep and clear the run id | retries, overlapping runs | all stages of a run use one id |
| `udyam_dbt/` | bronze and silver tables, their high-water marks | incremental merges; gold rebuilt | rows committed late, empty tables | no RAW row is skipped for ever |
| `webapp/backend/` | TTL cache, pool of four connections | `get_or_set`, `PooledConnection`, endpoints | concurrent computations, a connection that cannot be opened | no value outlives its time, no slot is lost |
| `webapp/frontend/` | filters, page, rendered results | `runSearch`, `loadDistricts` | responses out of order | shown results belong to shown filters |
| set-up scripts, SQL, units | none | run once | - | - |

The stages interact only through what they leave behind: compaction reads the
manifest and the artifacts, the loader reads the compaction manifest (or the
manifest) from the stage, dbt reads RAW. Inside the extractor the interaction is
concurrent: the threads of the pool share the manifest (under `MANIFEST_LOCK`),
the shutdown event and the API.

Inside the search API the threads of the requests share the caches and the pool.

The hazards, each at its line and with the properties that watch it, are in
`PROJECT.json`; the few without a property say why.

## 2. Plan

| Part | Modules | State |
|---|---|---|
| Extraction of a run | `Extraction`, abstract `BatchLog`, `MCExtraction`, `ExtractionProofs`, `CompletionProofs` | done |
| Compaction and loading of a run that grows | `Staging`, `Compaction`, `Loader`, composed in `Ingestion`; `MCIngestion`, `IngestionProofs`, `CompactionProofs` | done |
| Run ids and incremental models over DAG runs | `Pipelines`, `MCPipelines`, `PipelinesProofs` | done |
| Requests, caches and pool of the search API | `SearchApi`, `MCSearchApi`, `SearchApiProofs`, `PagingProofs` | done |
| Search form of the front end | `SearchPage`, `MCSearchPage`, `SearchPageProofs` | done |

Left, in this order:

1. **FetchBatch**: attempts, classification of responses, backoff and shutdown,
   shown to implement the one step `FetchPage`/`FetchFails` of `Extraction`.
2. Two extractor processes of one run id.
3. `silver_msme_activities` with its own clock, and the GitHub workflow
   `run-pipeline.yml` as a third kind of run in `Pipelines`.

All modules write recursion as functions or folds, so that they can be used from
modules with theorems.

## 3. What is modelled

### `Extraction.tla`

One run (one `UDYAM_RUN_ID`): the process of `run_udyam.py`, at most
`MaxWorkers` threads in `extract_state`, the durable files, and an environment
that fails, kills and restarts. The records of a state are the indices
`0 .. total-1` the API serves by offset; a batch is `[state, offset, count]`,
which determines its file name (`get_batch_id`), contents and checksum.

| Variable | In the code |
|---|---|
| `cp` | checkpoint files: `status`, `total_records`, `records_written`, `last_completed_offset` |
| `artifacts` | final batch CSVs (local) or objects (GCS, S3) |
| `manifest`, `tail`, `torn`, `garbled` | `manifest.jsonl`: its readable SUCCESS lines; whether its last line lacks the newline, and which batch that line is when it can still be read; the batches whose lines were spoiled (what is left there is not JSON) |
| `pc`, `local`, `page` | where the worker of a state stands, its `offset`, `written`, `total`, and the response in hand |
| `summary`, `exit`, `up`, `shutdown` | `run_summary.json` (its status and the totals it adds up, `Summarised`), exit code, the process, `SHUTDOWN_EVENT` |
| `apiTotal` | the API (external) |
| `faults` | counts faults; only there to bound them |

A worker's step ends where another thread, a signal, an error or a kill can see
the difference: the load and first save of the checkpoint (`Begin`, `Skip`), the
top of the loop (`StopOnShutdown`, `Recover`, `RejectArtifact`, `Request`), the
request (`FetchPage`, `FetchFails`), publication (`FindOrphan`, `Publish`,
`PublishFails`), the manifest line (`AppendManifest`, `AppendUnsynced`,
`AppendTorn`), the checkpoint (`SaveCheckpoint`), the final status (`Settle`).
`WorkerRaises` is any other exception; `HandleRaised` is `extract_states`'
handler, `Abort` the same exception on the single-state path, which nothing
catches. `Finish`, `FinishUnsynced` and `FinishUnwritten` end `main`. `Crash`,
`RequestShutdown`, `Restart` and `ApiChange` are the environment.

Choices a reader should know:

- `save_checkpoint` and `write_batch_file` replace a file atomically (temporary
  file, fsync, rename), so each is one step; the manifest append is not, so it
  may be cut short.
- A lock-protected append is one step: `MANIFEST_LOCK` is held over write, flush,
  fsync and upload.
- An exception between the rename of a local CSV and its manifest line (for
  instance while the checksum is computed) is `Publish` followed by
  `WorkerRaises`.
- `load_checkpoint` returns the default for a file it cannot read. The model
  allows this for any load, as a fault.
- `fetch_batch` is one step with the outcomes of its loop: a page that is full or
  reaches the total of its own response, an `ExtractionError`, or
  `ShutdownRequested`. A request in flight is not interrupted by a signal.
- The S3 and GCS clients differ in which errors of a HEAD request they swallow;
  the model allows both outcomes (taken for a missing object, or an exception).
- One process at a time runs: the DAG has `max_active_runs=1`.
- `BATCH_SIZE` does not change between the attempts of one run.
- The API's responses carry their total. A response with records and no total
  would complete the state after its first batch.

### `BatchLog.tla`

What readers of a run may rely on, without threads, files or failures: for each
state a log that grows only at its end, a mark that moves over one whole batch
at a time or back to the beginning, and a flag that freezes the log. It is
refined with `log <- artifacts`, `mark <-` the checkpoint's offset, `finished <-`
its status COMPLETED (`Log` in `Extraction`).

### `Staging.tla`, `Compaction.tla`, `Loader.tla`, composed in `Ingestion.tla`

One run after its extraction. `Staging` holds what the two programs share,
`Compaction` one process of `compact_batches.py` at a time, `Loader` any number
of processes of `load_to_snowflake.py`; `Ingestion` interleaves their steps with
the attempts of the extraction that add batches (`Extend`).

| Variable | In the code |
|---|---|
| `extracted` | the batches with a SUCCESS line in `manifest.jsonl` |
| `stage`, `kept` | the records of `compaction_manifest.jsonl` on the stage and here |
| `objects` | the compacted files on the store, named by index and checksum |
| `cpc`, `snapshot`, `open`, `built` | where `compact_run` stands, the batches it read, those of `current_file`, `compact_records` |
| `raw`, `copied`, `ledger`, `detached` | copies of each batch's rows in RAW, files COPY has load metadata for, `LOAD_STATUS`, statements of any kind (COPY, INSERT, the MERGE of either status) the server goes on with although the client is gone |
| `lpc`, `files`, `left`, `unit`, `seen`, `missing` | per loader: where it stands, which kind of manifest it read, units not begun, the unit in hand, what the ledger said of it, `batches_to_load` |
| `overlapped`, `asked`, `vouched` | history: whether two loads met; what a loader that ran alone was asked to load, and for what such loaders exited 0 |

`compact_run` is `StartCompaction` (reuse or rebuild), then `TakeBatch`,
`RejectBatch` (a batch above the limit) and `PublishChunk` for the loop,
`WriteCompactionManifest` and `SyncCompactionManifest`; `BuildFails`,
`SyncFails` and `KillCompaction` are what can go wrong at each.
`StartLoader` is `load_manifest`. The path of single batches (`process_run`) is
`SkipBatch`, `TakeUnit`, `CopyBatch`, `MergeLoaded`; the path of compacted files
(`process_compacted_file`) `TakeUnit`, `ReadCounts`, `InsertMissing`, `Recount`,
`MergeLoaded`. `StatementFails` and `RecordFailure` are the `try` block and its
handler, `ReadFails` an exception outside it, `FinishLoader` exit code 0.
`Statement` is what a loader is about to send and `Executed` its effect, which comes
when the client sees it (`CopyBatch`, `InsertMissing`, `MergeLoaded`), with an error
reported all the same (`StatementFails`), or later without a client (`Detaches` in
`StatementFails`, `RecordFailure` and `KillLoader`, then `LateStatement`).

Choices a reader should know:

- Each SQL statement is a step of its own and durable when it ends:
  `create_connection` leaves the session's autocommit on, so `commit` and
  `rollback` have nothing to do.
- Snowflake is external. What is assumed of it: COPY loads no file twice that it
  has load metadata for; `INSERT ... SELECT` loads what it is asked for; any
  statement whose client is gone may complete at any later time, once. A late MERGE
  may thus turn a LOADED row back to FAILED, or a FAILED one to LOADED, behind the next
  loader's back; a loader that starts before counts as an overlap, like two loaders.
- A batch determines its rows and checksum, so the ledger never disagrees with
  the manifest; and no code writes `LOADING`. The branches for both are
  unreachable and left out.
- What the attempts of the extraction add is given by the constant `Waves`, under the
  named `TilingAssumption`: batches of one state lie apart, and a later attempt adds
  only behind the earlier ones. `Extraction` does this: `TilesAlways`, `LinesAddedAtEnd`.
- `manifest.jsonl` on the stage is the local one. That it may lag behind is part
  of `Extraction` (`AppendUnsynced`).
- A loader that starts while another runs, and a batch that is larger than a
  compacted file may be (a configuration the program rejects only when it meets
  it), count as faults and are bounded with them.
- A kill between COPY and MERGE makes the single-batch path fail at every retry
  (COPY has metadata and loads nothing). `EventuallyLoaded` holds nevertheless:
  the pipelines compact, and the compacted path finds the rows.

### `Pipelines.tla`

The DAG runs of both pipelines and what they share: the Airflow variable
`udyam_incremental_active_run_id`, the full refresh's id file in `/tmp`, the stage and RAW
as seen from a task, and dbt's incremental tables.

| Variable | In the code |
|---|---|
| `active`, `tmpfile`, `ids`, `creator` | the Airflow variable, the id file, how many ids there are, which run made each |
| `status`, `stage`, `midway`, `retried`, `id` | per DAG run: its state, its task, whether the task is half done or being retried, the XCom with its id |
| `extracted`, `staged` | per id: nothing, a part or all of it |
| `stuck` | the ids that no attempt gets through extraction or compaction any more |
| `loads` | the loads of files in the order of their timestamps, each running, committed, undone or detached |
| `bronze`, `silver` | the loads each table has |
| `overlapped`, `faults` | history: a run met another; the bound on the environment |

Actions: `Trigger`, `Rerun` (a user clears the failed task of an older run); the
tasks `GetRunId`, `WriteRunId`, `Extract`, `Compact`, `BeginLoad`, `CommitLoad`,
`BuildBronze`, `BuildSilver`, `GenerateDocs`, `ClearRunId`; `TaskFails` at any
task with the part of its effect that is left behind, followed by Airflow's one
retry, which may fail as well (`FailedAgain`); `LateCommit` of a detached load. Airflow's tasks are one step each, except
where another run can come between: the id is written and then read, a load takes
its timestamp and then commits, bronze is built and then silver.

A failure leaves what it leaves in the code: a failed extraction a part of the id, or an
artifact without its line (finding 2; every later extraction of the id fails), or a
manifest with a spoiled line or a batch above the file limit (every later compaction
fails); a failed load any number of its files committed, the next one undone or detached;
a failed dbt run the tables as they were, bronze built, or bronze and silver. An id
that is extracted as a whole has two files, a part of one the first of them, and the
loader loads, one statement each, the files whose rows are not there. A file whose
rows are there twice ends the loader with an error, at every retry.

Choices: an extraction in progress is seen by nobody before it fails (it is then
"partial"). A full refresh that is cleared after another one has replaced the id
file counts as overlapping. The free slots of finished runs are used in order
(`FreeSlot`), because slots are interchangeable.

### `SearchApi.tla`

The threads of FastAPI between the TTL caches, the connection pool and the gold
tables. A request looks a value up (`Hit`, `Miss`), borrows a slot (`Borrow`,
`PoolTimeout`), pings or opens its connection (`Check`, `Connect`, `LoginFails`),
queries and puts the slot back (`Query`, `QueryFails`), goes on with the next query of a
value (`NextQuery`) or stores it (`Store`), or cuts the page to the cached total (`Page`). `Begin` is a request,
`Refresh` a dbt run, `Tick` time.

| Variable | In the code |
|---|---|
| `cache` | `TTLCache._store` per cached endpoint: the version of the tables the value is from, the TTL left |
| `idle`, `slot`, `refused` | `_pool` (its connections, or `None`), the slot of each request, history of failed logins |
| `rpc`, `endpoint`, `asked`, `counted`, `todo`, `shown`, `left`, `timer` | per request: its step, endpoint, page and size, the oldest version its cached value is from and the queries still to make for it, the version its rows are from and the plain queries to make, time at a step that is bounded |
| `db`, `age` | the gold tables (external): the version, and how long each older one has been out of date |

An endpoint is a shape: how many queries compute its cached value, and how many plain
ones follow (search: a count of one query and one plain query; lookups and most of
analytics: a cached value of one query; `analytics_summary`: one of four, each with a
slot of its own, so that its parts may be of different versions; detail: plain only;
export is a detail with one query). The page is the one part whose arithmetic matters;
the SQL texts, the export formats and the forecast are one value each. Time is relative, so
that the state space is finite without a clock.

### `SearchPage.tla`

One browser tab: its user and the answers to what `app.js` has sent. JavaScript
runs a handler to its first `await` without interruption and handles an answer in
one go, so these are the steps; no request is cancelled, and answers come in any
order.

| Variable | In the code |
|---|---|
| `name`, `chosen`, `district` | the filters: the trimmed name (none, too short or long enough), the selected state, the state the selected district belongs to |
| `options`, `loading`, `mixed` | the lists appended to the district select, the requests for lists on their way, history: whether the last one was sent while another was |
| `page`, `hasPrev`, `hasNext`, `hasSearched` | the fields of `state` |
| `searches` | the search requests on their way: their page, and whether they are the newest search's |
| `status`, `bar`, `table`, `rows` | what is shown: the message, the bar, table and pagination, and what the table was rendered from |
| `overlapped`, `drifted` | history: whether the newest search was sent while an older one was on its way; whether a page was turned without a search since the last answer |

`TypeName`, `SelectState` and `SelectDistrict` are the user at the filters,
`DistrictsArrive` and `DistrictsFail` the rest of `loadDistricts`. `Submit`,
`PrevPage`, `NextPage`, `PickPage` and `ChangeSize` set the page and call
`runSearch`, which is `Hint` (no filter), `TooShort` (both return without a request)
or `Send`; `Answer` and `SearchFails` are the rest of it. Choices: the NIC code is a
filter like a state without districts, the page size only a reason to search again.
The flags `overlapped` and `mixed` speak of the newest request only: a user who waits
for the answers before searching again is back to a page that is always right.

### The MC modules and the configurations

`MCExtraction`, `MCIngestion`, `MCPipelines`, `MCSearchApi` and `MCSearchPage` give names to the
sets the configurations use. The two states of `Extraction` are interchangeable in run
`local` (`SYMMETRY`), which checks safety only; the other runs use none.

## 4. Properties

`Extraction`:

- `ArtifactsTile`: the artifacts of a state lie end to end from 0, whatever was
  killed, replayed or grew.
- `PersistenceOrder`: manifest lines name artifacts that are there; the
  checkpoint counts only records whose line was written (`Lines`). A line that was
  written and is spoiled by a later append counts as written: the code cannot see
  it, and compaction then refuses the whole manifest.
- `ExitZeroIsWhole`: exit 0 means an artifact and a line for every record below
  each state's total; and so does a summary that says COMPLETED, for the totals it
  was made from, also when the process died over it or another attempt has begun since.
- `CompletedCountsAll`: unless records are withdrawn, a completed state has no
  artifact beyond what it counts.
- `CompletedIsExact`: unless records are withdrawn, a completed state has written at
  least the total it captured and nothing the API does not have; while totals do not
  move these are equal. (How far it may go beyond the captured total depends on how
  often it was interrupted: every attempt fetches a page before it compares.)
- `NeverFailsUnprovoked`: without a fault no state fails, also with growing
  totals: the short-page rule and the end of the loop fit together.
- `LinesAreKept`, `ProgressIsKept` (action properties): an append that is cut short
  spoils at most the line before it, only one without a newline, and never without
  leaving a line that is not JSON; a checkpoint goes back only to the very
  beginning, and only when it could not be read.
- `ImplementsBatchLog`: refinement.
- `ProcessEnds`, `ResumesUnlessOrphaned` (liveness): every process ends by
  itself; a run that is started again completes every state for good unless an
  artifact is ever left without its line.
- `TypeOK`, and `Inductive`, the invariant the proofs use.

`Compaction`, `Loader` and `Ingestion`:

- `ManifestsAreWhole`: a compaction manifest, here or on the stage, names existing
  files that hold each batch of some reading of `manifest.jsonl` exactly once, cut
  by the limit, whatever died between file, manifest and stage copy.
- `OkIsStaged`: a compaction that exits 0 has staged exactly the batches it read,
  also when it only reused what an earlier, failed process had built.
- `RebuildAddsNothing` (action property): building again what is there stores no
  new object.
- `TwiceOnlyByOverlap`: rows are doubled only if two loads of the run met.
- `LoadedHasRows`: a LOADED row of the ledger is never ahead of the rows.
- `OkAloneIsFinal`: what a loader that ran alone and exited 0 was asked to load is
  in RAW once and LOADED, for good, whatever runs or dies later.
- `EventuallyLoaded` (liveness): retried compactions and loads end with every
  batch LOADED; the two ways not to are named in it.

`Pipelines`:

- `NeverAbandoned`: an id of the incremental DAG that is no longer active has been
  extracted, compacted and loaded as a whole, and is in silver unless runs met.
  (An overlap really leaves ids out of silver: the load that committed late is below
  the high-water mark, and no later run takes it. That part has no exception to state
  but the overlap itself.)
- `FullRefreshIsOwn`: a full refresh that succeeds and met no other run has put its
  own extraction into silver, although the id passes through a shared file.
- `NothingStranded`: no committed load is behind the high-water mark of a table that
  does not have it, unless runs met.
- `EveryIdCompletes` (liveness): again and again there is no active id, or one that
  needs a repair by hand (`NeedsRepair`): an artifact without its line, for which the
  source's Readme documents a hard stop and finding 2 shows the same on the object store;
  a manifest with a line that is not JSON or a batch above the file limit, which
  compaction refuses; rows that are there twice, which the loader refuses. Retries
  change none of these, and the incremental DAG goes on with the same id for ever.

While runs overlap, the code really does what the hazards describe: a second full
refresh replaces the id in the file of the first, and a load that begins before
another one and commits after it is skipped by dbt. No property can exclude that; `overlapped` says
precisely which behaviours are let off, and the properties say that nothing less
than a meeting of runs (or of a run and a detached load of another id) does it:
no failed, partial or retried task, and no late commit of the run's own loads.

`SearchApi`:

- `FreshEnough`: every part of a value a cache serves was true less than the TTL and
  the time of its queries ago, although a slow thread may overwrite a newer value with an
  older one, and the first part of a summary ages while its other queries wait for a slot.
- `SlotsAccounted`: every slot is in the pool, with one request, or was lost to a
  failed login (`PoolStaysWhole`, without the last case, is finding 4).
- `PagesAgree`: a cached total and rows of the same version fit together. Of different
  versions they need not, and in the code they do not: a total of five minutes ago may
  promise a page the tables no longer have. `FreshEnough` bounds for how long.
- `EveryRequestAnswered` (liveness): also when all slots are lost.

`SearchPage`:

- `LatestUnlessOverlapped`: the table shows the newest search or nothing, whatever
  failed before, unless that search was sent while an older one was on its way (the
  page then really shows whichever answer came last: nothing in `runSearch` compares
  them, so this is as much as holds).
- `DistrictsOfState`: the districts offered, once each, and the one selected are of
  the state selected, unless two lists were on their way (`loadDistricts` then appends
  both: `mixed`).
- `ButtonsFitTable`: page number and buttons are those of the table even when answers
  overlap, unless a page was turned with a name too short to search
  (`PagesStartAtOne`, without the last case, is finding 5).
- `SearchSettles` (liveness): "Searching..." gives way to rows or a message.

Every module that is checked by itself has its `TypeOK`.

## 5. Runs

| Run | Instance | Shows | States |
|---|---|---|---|
| `local` | local, 2 states, 1 thread, totals up to 3 that grow, 3 faults | all safety properties and the inductive invariant | 1.5 M |
| `cloud` | object store, 2 states, 2 threads, totals up to 3 that grow, 1 fault, restarts | order with uploads that fail half-way; refinement; termination and resumption | 0.1 M |
| `single` | object store, 1 state, totals up to 4 that grow and shrink, 3 faults | the path without a handler; refinement | 0.19 M |
| `growth` | 1 state, totals up to 5 that grow, no fault | finding 1 | violation |
| `resume` | object store, 1 state, 1 fault, restarts | finding 2 | violation |
| `ingestion` | a batch of two rows, then one of one, then one of four; files of three rows; 2 loaders, 2 faults | compaction and loading: safety and liveness | 0.52 M |
| `together` | 1 batch, 1 loader, 1 fault | finding 3 | violation |
| `pipelines` | 2 runs of each DAG, 3 ids of two files, 2 faults | run ids and high-water marks: safety and liveness | 0.69 M |
| `search` | 2 requests, 1 slot, 3 shapes of endpoint, 2 versions of the tables | cache, pool and pages: safety and liveness | 0.57 M |
| `slots` | the same with 1 request | finding 4 | violation |
| `overlap` | 2 states, 3 pages, 2 searches and 2 lists on their way | filters, answers and pages: safety and liveness | 0.63 M |
| `pages` | 1 state, 2 pages, 1 request on its way | finding 5 | violation |

**Bounds.** *Extraction.* `BatchSize = 2` with totals up to 3 (up to 5 in `growth`) gives
empty states, one partial batch, a full batch that is the last, a full batch
followed by a partial one and, when totals grow, a batch that starts as partial
and is overtaken. Two states are enough for what states share: the manifest's
last line, the thread pool, the shutdown flag, the run's outcome. `MaxFaults`
bounds the faults in a whole behaviour: with three of them an attempt can lose
its artifact's line, the next its checkpoint, and a third be killed. `MaxTotal`
bounds the API. `MaxWorkers = 1` with two states makes one wait in the queue, 2 lets the
threads interleave. Run `cloud`, which checks liveness, has one fault: one is what it
takes to stop a run, and the safety properties that need more are those of `local`
and `single`, all of them proved for any number.

*Ingestion.* The second batch joins the first in a file that is then exactly full;
the third is of another state and larger than a file may be, so all ways out of
the loop occur, and a compaction can lie before, between or after the attempts
of the extraction. Two faults are enough for a kill that is followed by an overlap
or by another kill, for a failed statement whose failure cannot be recorded, and
for a detached statement of each kind that meets a second loader. The limit lets no state
have two files of one manifest: an instance that does takes TLC longer than the others
together, and `ManifestsAlwaysWhole` and `RebuildAlwaysAddsNothing` are proved for any
number of files.

*Pipelines.* Two slots of each DAG are a run and an older one that is cleared
meanwhile. Three ids are an active one, one of a full refresh and the next; with
the ids used up no new run starts, so this run does not check for deadlock (the
real program never runs out). Failing tasks, a failing retry and runs that meet
count as faults. One fault is enough for an id that needs a repair, or for a load of which only
the first file is visible; the second fault then hits the retry, or a run of another id.

*SearchApi.* All times are 1. A value of two queries then takes up to `Lag` = 6 ticks,
several TTLs: an entry can expire, be computed again by another thread and be overwritten by
the slower one, and the bound of `FreshEnough` is met exactly (with one tick less it is
violated). A longer TTL adds states and no new order of events; the theorem covers all. One slot for two
requests makes them wait and time out; a login can fail at most once per slot,
so faults need no bound. Totals 2 and 3 with a page size of 2 are a page that is
just full and one row more.

*SearchPage.* Two requests of a kind are enough for answers in the wrong order; two
states make two lists that can mix. Three pages have a first, a middle and a last one.
`MaxDrift` lets the page run two beyond either end.

**Fairness.** *Extraction.* `FairSpec` assumes weak fairness of each worker's steps, of `main`'s
last step and of `Abort`: threads are scheduled, `curl` has a `--max-time`, the
number of attempts is bounded. No fault is fair. `RetriedSpec` adds weak fairness of
`Restart`, which stands for Airflow's retry and for the operator the program
asks to "Re-run with UDYAM_RUN_ID"; only liveness depends on it.

*Ingestion.* A process that runs goes on; a compaction is started again while the
stage does not cover the run, a load while a batch is not LOADED, which is what the
DAG's retries and its next run under the same id do; the server ends a detached statement.
Faults are never fair.

*Pipelines.* Weak fairness of the tasks: Airflow goes on with some running DAG run.
Strong fairness of starting the incremental DAG while an id is active: it is
scheduled twice a month, and waits for the one slot `max_active_runs` leaves,
which users who clear older tasks do not keep from it for ever.

*SearchApi.* Threads run and time passes. No request and no dbt run is assumed.

*SearchPage.* A fetch settles. Nothing is assumed of the user.

**Deadlock** is checked everywhere except in `pipelines`: what has ended can be
started again.

### Findings

1. `GrowthIsFetched` (run `growth`): the total of the first response is kept.
   With a total of 3 that grows to 5 after the first page, the second page brings
   the count to 4 and the state is COMPLETED with growth, one record short,
   where the comment says that all available records were fetched.
2. `ResumesAlways` (run `resume`): a kill between the upload of a batch and its
   manifest line leaves an object that put-if-absent protects from every later
   attempt; the run can never complete. For a local CSV the README documents a
   hard stop; for objects it says that a failed state is restarted and its
   remaining batches fetched. `ResumesUnlessOrphaned` shows that this is the only
   way a retried run gets stuck.
3. `CommittedTogether` (run `together`): the comment says that COPY and ledger update
   are committed together. The connection is opened without `autocommit=False`, so a
   loader killed between the two leaves rows without a LOADED ledger row, and the
   single-batch path fails at every retry. `TwiceOnlyByOverlap` and `LoadedHasRows`
   hold all the same.
4. `PoolStaysWhole` (run `slots`): `__enter__` takes a slot and then opens the
   connection; if the login fails the slot is gone, for `__exit__` is not called.
   After `POOL_SIZE` failed logins every request waits for the pool's timeout and
   fails until the service is restarted. `SlotsAccounted` shows that nothing else
   loses a slot.
5. `PagesStartAtOne` (run `pages`): the pagination's listeners change the page before
   `runSearch`, which sends nothing while the name has one character and leaves the
   buttons as they are. Each further click on Prev takes the page down again; the
   next search asks for page 0, which the API refuses. `ButtonsFitTable` shows that the
   page is right as long as no page is turned without a search.

## 6. Proofs

Premises are the named assumptions on the constants only; everything else is
proved for every value of them. Together the theorems state every invariant, every
action property and the refinement that the passing runs check.

### `ExtractionProofs.tla`

For every number of states, threads and faults, every batch size and total, and
both kinds of backend:

| Theorem | Statement |
|---|---|
| `TypeCorrect` | `Spec => []TypeOK` |
| `DurableAlways` | `Spec => []Durable`, the part of `Inductive` about durable things |
| `TilesAlways` | `Spec => []ArtifactsTile` |
| `OrderAlways` | `Spec => []PersistenceOrder` |
| `ExitZeroAlways` | `Spec => []ExitZeroIsWhole` |
| `LinesAlwaysKept` | `Spec => LinesAreKept` |
| `Implements` | `Spec => ImplementsBatchLog` |

The argument goes in layers, each using the ones before:

1. *Types and workers in step.* A worker's offset equals the saved one except
   between publication and checkpoint, where it is one page ahead
   (`WorkersInStep`, `PagesInHand`). `Fits` states this for one worker as a
   relation; `OneWorker` shows that a step of one worker need only be looked at
   there, because every step changes one worker or, with `Ends`, resets all.
2. *Manifest.* `KeepsLines` is all a step may do to the manifest; `LinesInHand`
   says that a worker about to save has its line.
3. *Footprint.* Every step leaves checkpoints and artifacts alone, or replaces
   one checkpoint in one of four ways (`Marks`, `Resets`, `Counts`, `Completes`),
   or adds one artifact where the checkpoint stands (`Grows`).
4. *Tiling.* `ArtifactsTile` is not inductive: an artifact is added at the
   checkpoint's offset, which may lie far behind after a checkpoint was lost.
   `Frontier` (where a batch may start and none does, every batch lies before) and
   `CheckpointsAtBoundary` make it so: a free name at a boundary is the end of
   the log.
5. *Persistence* and 6. *reconciliation*: `PersistenceOrder` and
   `CompletedIsReconciled` follow from the footprint.
7. *Refinement.* `Grows` is `Append`, `Counts` is `Acknowledge`, `Completes` is
   `FinishState`, `Resets` is `Forget`, everything else stutters.

### `CompletionProofs.tla`

The second half of the invariant: what COMPLETED means and when it is reached.

| Theorem | Statement |
|---|---|
| `InductiveAlways` | `Spec => []Inductive` |
| `ProgressAlwaysKept` | `Spec => ProgressIsKept` |
| `CountsAllAlways` | `Spec => []CompletedCountsAll` |
| `ExactAlways` | `Spec => []CompletedIsExact` |
| `UnprovokedAlways` | `Spec => []NeverFailsUnprovoked` |
| `LinesAddedAtEnd` | `Spec => [][LinesAtEnd]_vars` |

1. *Effects.* Each step of a worker is reduced to what it does to its own numbers
   (`StaysEffect`, `FailsEffect`, `PublishEffect`, ...), so that the later layers do
   not look at 17 actions again.
2. *Totals.* `TotalsInStep`: a worker that is on works with the total of its checkpoint
   once that has one. Hence `ProgressIsKept`.
3. *Bounds.* `WithinApi`: while the API withdraws nothing, no number exceeds what it has.
   With it a completed state has at most the API's records (`ExactAlways`).
4. *Reach.* `NothingBeyond`: no artifact begins beyond a checkpoint that knows its
   total, so at most one batch is ahead of it, and none when the state completes
   (`CountsAllAlways`). This needs the tiling: the name a worker finds free at a
   boundary is the end of the log (`FreeIsFrontier`).
5. *Without faults* (`Unprovoked`): an artifact without a line is in the hands of the
   worker about to write it, and the name a worker needs is free; so no worker meets
   an orphan, and what it returns is complete.

`LinesAddedAtEnd` says that a new manifest line is of a batch behind all of its state's
with a line, because a worker that waits for its line holds the last batch
(`AllAppendLast`). The proofs about compaction assume it of `Waves`.

### `IngestionProofs.tla`

For every number of loaders and faults, every sequence of attempts and every limit:

| Theorem | Statement |
|---|---|
| `OkAlwaysStaged` | `Spec => []OkIsStaged` |
| `LoadedAlwaysHasRows` | `Spec => []LoadedHasRows` |
| `TwiceOnlyByOverlapAlways` | `Spec => []TwiceOnlyByOverlap` |
| `OkAloneAlwaysFinal` | `Spec => []OkAloneIsFinal` |

1. *Memory and compaction.* `Memory` types what the invariants read; `Going` and
   `Ending` say what a step of a loader does to it. `Compacting`: a staged
   manifest stays, and what is kept was built. `ReadIsBuilt` gives `OkIsStaged`.
2. *Rows.* Neither property is inductive. `Good` says for one loader which rows must
   be there at its step (a loader about to merge has a row for every batch of its
   unit); `OneAtATime`, that until something overlapped there is one loader or one
   statement adrift (`Adrift`: a late COPY is of one batch, a late MERGE has its rows), next
   to which only the MERGE of its failure may run; `CopiedCovers`, that before compacted
   files exist COPY's metadata covers every row (hence a retried COPY doubles nothing); `Once`, that until
   something overlapped no batch has two copies and none in an INSERT has one.
3. *Footprints.* A step of a loader is a `QuietStep`, adds the rows of some batches
   (`RowsStep`), detaches a statement (`DetachStep`, `EndDetachStep`) or ends the loader
   (`EndStep`); each of these keeps the invariant, and every action is shown to be one of
   them. `ExecutedStatement` and `ExecutedRows` say once what a statement does, whether
   its client is there or not (`LateStep`).
4. *Vouching.* `OkAloneIsFinal` needs what a loader that is still alone has done so
   far: `Rests` (a batch it is done with has one copy and is LOADED), `Spares` (no
   loader that could disturb a vouched batch has it in its unit with rows to add),
   `Alone`, `BeforeFiles` and `Final`, with `Untouched` (of the statements adrift only a
   MERGE to LOADED may be about a vouched batch, see `DetachedSpares`). `Planned` keeps all batches within `Plan`.

### `CompactionProofs.tla`

For the same, on top of `IngestionProofs`:

| Theorem | Statement |
|---|---|
| `ManifestsAlwaysWhole` | `Spec => []ManifestsAreWhole` |
| `RebuildAlwaysAddsNothing` | `Spec => RebuildAddsNothing` |
| `IngestionTypeCorrect` | `Spec => []TypeOK` |

1. *Rows.* The rows of a set of batches are a fold of the community modules. That they
   are a number, grow with the set and are those of a part plus the rest is proved
   by induction on the size of the set, itself derived from the well-foundedness
   of the naturals (`ByCounting`, `SumExists`, `SumUnique`, `RowsAdded`, `RowsMonotone`).
2. *Order.* `TilingAssumption` makes `Before`, by which the loop goes, a strict total order
   on the batches (two of a state never start at one offset), and what a later attempt
   adds comes after all of its state.
3. *Chunks.* `ManifestsAreWhole` is not inductive: it says nothing of a build under way.
   `Building` adds for the loop that what it took lies before what it did not, and what it
   closed before what is open (`Sorted`), that the open file fits (`OpenFits`) and
   that the closed ones are disjoint, full and on the store (`Built`). `Whole`
   carries this from the loop to the local manifest and to the stage.
   `Closed` says that a reading has with each batch those before it, so that files that
   were full stay so when a later attempt adds batches.
4. *Building again.* `RebuildAddsNothing` also needs the numbers in the file names.
   `Numbered` says that a file's index counts the files of its state before it;
   then two files of one reading that share a batch are the same file
   (`SameFileTaken`, `SameFileClosed`), and `Again` holds: what is built is in the manifest.

### `SearchApiProofs.tla`

For every number of threads, endpoints, queries behind a value, versions and slots, every
TTL and time bound:

| Theorem | Statement |
|---|---|
| `FreshAlways` | `Spec => []FreshEnough` |
| `SlotsAlways` | `Spec => []SlotsAccounted` |

1. *Types* (`TypedRequests`, `TypedTables`, `TypedPool`), and `Holding`: a request has
   a slot exactly at the steps that need one.
2. *Slots.* A step takes a slot from the pool, returns it, loses it to a failed
   login, or leaves both sides alone; the equation follows from how the
   cardinality of the requests that hold one changes.
3. *Freshness.* `FreshEnough` is strengthened to `Fresh`: an entry's age plus what is
   left of its TTL is at most TTL plus `Lag`. `Storing` bounds the age of a value on its
   way into the cache: `Late` for the queries it has made, `Spent` for the steps
   since the last of them, and the time at the present one (`Recent`). `Sound` ties the
   step of a request to what is still to be computed; `Current` says that the present
   version has no age.

### `PagingProofs.tla`

For the same, and every total, page and page size:

| Theorem | Statement |
|---|---|
| `PagesAlwaysAgree` | `Spec => []PagesAgree` |
| `SearchTypeCorrect` | `Spec => []TypeOK` |

The arithmetic of pages is a few lemmas (`Divided`, `LastPage`). The invariant `Paging` says
per request what it knows at each step: a request that still has rows to query has
no total or one its page was cut to (`RowCut`); `RowSteps` ties its step to what is
left for it to do. `KnownVersions` says that caches hold only versions there have been.

### `SearchPageProofs.tla`

For every set of states, every number of pages and of requests on their way:

| Theorem | Statement |
|---|---|
| `TableIsLatest` | `Spec => []LatestUnlessOverlapped` |
| `ButtonsOfTable` | `Spec => []ButtonsFitTable` |
| `DistrictsFitState` | `Spec => []DistrictsOfState` |
| `PageTypeCorrect` | `Spec => []TypeOK` |

`Latest` adds that without an overlap every request on its way is the newest
search's: a sequence of such requests stays one when an answer is removed
(`Removed`), and a request sent alone is one (`SentTyped`). `Fits` adds that there is
at least one page, so that every button leads to page 1 or beyond. `OneList` adds
that the only list on its way is the selected state's and finds an empty select.

### `PipelinesProofs.tla`

For every number of runs of either DAG, of ids and of faults:

| Theorem | Statement |
|---|---|
| `NeverAbandonedAlways` | `Spec => []NeverAbandoned` |
| `NothingStrandedAlways` | `Spec => []NothingStranded` |
| `OwnRefreshAlways` | `Spec => []FullRefreshIsOwn` |
| `PipelinesTypeCorrect` | `Spec => []TypeOK` |

None of them is inductive. `PipelinesInv` adds, in the order in which its parts are proved:

1. `Typed`, and `Tables`: silver has only what bronze has, bronze only what is committed.
   Each action has an effect lemma (`TriggerEffect`, ..., `TaskFailsEffect`); `Kept` is
   what every step keeps of the tables.
2. `Underway` (a running load is that of a task that has begun it) and `Newest` (the id
   file holds the newest id of the full refreshes).
3. `Progress`: the stage a run has come to tells how far its id is extracted, staged and
   loaded. It is claimed of the runs whose id is theirs (`Own`): of every incremental
   one, and of a full refresh only while the file is its own.
4. `InOrder`, always: a later file of an id is not visible before an earlier one.
5. `Alone`, while no runs met: one run at a time; what is running is the newest, of that
   run and its files in order (`NewestRuns`); a detached load is of the id of the run that
   is on (`DetachedFits`); an earlier file is begun after a later one only if that left
   nothing (`NoReturn`); and between a load and a repetition of it are loads of the same
   id only (`Together`). This is what makes a late commit harmless.
6. `NoneBehind`: a load that a table lacks is newer than all it has, or another of its file
   is there; and a table that has a file has those before it (`FilesBefore`), without which
   a high-water mark could pass the first file of an id over. `RebuiltIsFresh` shows that
   taking what is above the high-water mark keeps both.
7. `Built`, `AllFinished` and `Owned`: what a run has built has its id; an incremental id
   that is not active is finished; a full refresh that succeeded has its own in silver.

### Only model-checked

Liveness under fairness, and `ENABLED` with it, is beyond the proof system:
`ProcessEnds`, `ResumesUnlessOrphaned`, `EventuallyLoaded`, `EveryIdCompletes`,
`EveryRequestAnswered` and `SearchSettles` stay with TLC, as do the five findings, whose
runs show a counterexample.

## 7. Not modelled

- The gold models (rebuilt as a whole from silver, no state of their own), set-up
  scripts, SQL and units; of the front end the enterprise's details, the lists loaded
  once at the start, export and the charts.
- `silver_msme_activities`, which takes its mark from its own clock, and cleaning and
  deduplication of rows in bronze and silver; the case of an existing but empty
  table, whose high-water mark is NULL.
- The GitHub workflow, a second way to start the same scripts by hand.
- Two extractors of one run at the same time; `fetch_batch`'s attempts one by one.
- Contents of CSV and JSON files, checksums as computations, logging, wording of
  failure reasons, the timing of backoff, the parsing of the configuration.
- Validation of query parameters (400) and the texts of the queries in the search
  API, its exports and forecasts.
