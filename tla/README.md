# Palace of Truth: TLA+ models and proofs

Palace of Truth keeps the memory of agents and people: entries, web pages,
documents and media become *items* with embeddings, and a "palace" of rooms,
snapshots and tunnels is derived from them.  A FastAPI process takes requests,
three ARQ workers (default, media, palace) do the work behind a Redis queue,
and PostgreSQL (pgvector) holds what must survive.

The hard part of this system is not any single function.  It is that a request,
a worker, a cron and an operator all write the same few rows in short separate
transactions, that the queue and the database are two stores without a common
commit, and that every process may die between the two.  That is what is
modelled here.

Contents

1. The system: parts, state, operations, interactions, hazards
2. The models, and how they correspond to the code
3. What the runs check; bounds; fairness
4. What is proved, and how
5. What the models found
6. What is not modelled, and the plan

All paths below are relative to `backend/app/` unless they start with `docs/`
or `third_party_plugins/`.

## 1. The system

### 1.1 How the parts interact

    client / plugin / extension / MCP
          | HTTP                                   crons (worker.py:105-115, 169-178)
          v                                              |
    API process (one uvicorn event loop) --rows--> PostgreSQL <--rows-- default worker
          |                                              ^               media worker
          +--- enqueue_tenant_job ---> Redis / ARQ ------+-------------- palace worker
                 (barrier per tenant)     (job keys, results, in-progress keys)

* *Calls.* API -> service -> database session.  Sessions are created with
  `expire_on_commit=False`, so objects keep after a commit what they held
  before it, and SQLAlchemy writes a column only if the assigned value differs
  from the loaded one.  Most stale-state hazards below come from this pair.
* *Messages.* ARQ jobs.  `enqueue_job` with an id does nothing and returns
  None if the job key or a retained result of that id exists.  An exception
  ends a job and leaves a result; a cancellation by shutdown and a killed
  worker lead to a second execution; `job_timeout` ends the job.
* *Shared state.* The rows; the closed marker and lock of a tenant's queue in
  Redis; the artifact directories on a shared volume.
* *Callbacks.* Crons visit rows that look abandoned: `requeue_stale_jobs`,
  `recover_stale_memory_jobs`, `recover_palace_backlog`, and the dispatchers.

### 1.2 Inventory

| Part | State | Operations | Hard behaviour | What makes it correct |
|---|---|---|---|---|
| Memory jobs (`services/memory.py`, `api/memory.py`, `workers/tasks.py`, `services/item_processing.py`) | jobs, items, embeddings, payload (generation of the ARQ id) | accept, replay, revive, retry, enqueue, `memory_artifact`, `recover_stale_memory_jobs` | replays and recovery of the same key, workers of two generations, two entries with one body, a cron that writes after its lock is gone | ready items have vectors; one searchable copy per body; every accepted job settles |
| Attempt ledger (`services/job_attempts.py`) | job_attempts | create, start, finish | check-then-insert by requests and crons | one active attempt; terminal attempts immutable; an attempt in progress has a task that will close it |
| Ingest jobs (`api/ingest.py`, `api/jobs.py`, `pipelines/base.py`, `workers/feed_tasks.py`) | jobs, items, embeddings | ingest, cancel, retry, `BasePipeline.process`, `requeue_stale_jobs` | several tasks of one job at once, two commits per outcome, snapshots written back | what a job says it stored is there; one ready item per content; jobs and items settle |
| Queue barrier (`workers/queues.py`) | Redis lock with token and TTL, closed marker | enqueue, close, reopen | lock outlived by its holder, errors that may have taken effect | nothing enters a closed queue |
| Erasure and hard deletion (`services/data_lifecycle.py`, `services/bundle.py`) | erasure state, rows, artifacts, quarantine, audit events | `erase_tenant_data`, `hard_delete_item` | a commit whose outcome is unknown, restore after rollback, running jobs | an erased tenant keeps no work; an aborted erasure loses nothing; the queue opens again |
| Palace runs (`services/palace.py`, `workers/palace_tasks.py`) | dirty and indexed generation, dirty rows, runs | mark dirty, create or join a run, build, follow-on, backlog recovery | overlapping runs, deadlocks of marks and builds, coalescing into a run that died | a mark goes only with a routed item; the lease is never left behind; a backlog drains |
| Palace contents and curation (`services/palace.py`, `services/curation_artifacts.py`) | rooms, memberships, closets, snapshots, tunnels, proposals | route, rebuild, merge, split, approve | two reviewers of one proposal | artifacts agree with memberships of their generation |
| Source resources (`services/source_resources.py`, `workers/source_resource_tasks.py`) | lease, due time, freshness, content | claim, refresh, pause, resume, retire, cancel | fetch outlives lease; operator acts during a fetch | one activation per lease; only an operator revives a paused or gone resource; content catches up |
| Media fairness (`workers/media_fairness.py`) | pending media jobs, media queue | dispatch | overlapping dispatches, retained results, rows that move while a dispatch reads | the choice is a fair round robin; a tenant's tasks in flight are bounded; nobody starves |
| LLM admission (`services/llm_admission.py`) | gates per tenant, advisory-lock slots, daily usage | admit, consume | cancellation while waiting, eviction of gates | at most n requests per tenant; budget not exceeded |
| Item edits (`api/items.py`, `embed_item`) | items, embeddings | update, re-embed, soft delete, restore | edit during embedding | vectors belong to the stored body |
| Supersession, promotion (`services/memory.py`, `services/memory_promotion.py`) | memory_entries chain | supersede, promote | two writers supersede one entry | the chain is a list |
| Subscriptions, feeds (`services/source_subscriptions.py`, `workers/feed_tasks.py`) | subscriptions, discovered items | poll, discover, queue | overlapping polls | an entry is queued once |
| Canon (`services/canon_*.py`, `api/canon.py`) | pages, rows of a binding's files, sync runs, conflict artifacts | create, update, publish, archive; sync, accept the repository's version | a run that commits several times beside people who edit the same pages; runs whose job is lost | the binding knows its own pages; a stranger's page is asked about; the canon catches up with the repository |
| OAuth for MCP (`api/mcp_oauth.py`) | codes, token families, grants | authorize, exchange, rotate, revoke | two rotations of one token | a code or token is used once; reuse revokes the family |
| Sessions and isolation (`auth.py`, `browser_session.py`, `database.py`) | keys, sessions, RLS context | check, create, revoke | revoked key with open session | a row is visible to its tenant only |
| Webhooks (`workers/webhook_tasks.py`) | none (payload travels) | deliver, retry | crash after delivery | at least once, with the terminal payload |
| Derived data (`fact_registry`, `conversation_facts`, `wakeup_briefs`, `memory_dreams`, `diary_rollups`, `retention`) | facts, briefs, dreams, rollups | rebuild by cron | overlap of two rebuilds | one active artifact per key |
| Hermes plugin (`third_party_plugins/hermes`) | write lane in memory, outbox in SQLite | queue, drain, flush, shut down, admit, recover | a callback racing a shutdown, a lost notification, a crash between delivery and acknowledgement, a full quota | a drained lane stays drained; delivery in order; everything admitted is delivered |
| Pipelines, embedder, LLM, search, chat, telemetry, MCP server, importers, extension, frontend | none, or external | | I/O | |

`PROJECT.json` lists every part with its files, and every hazard with the line
where it bites and the property that would catch it.

## 2. The models

Every action is one database transaction or one Redis call: those are the
points where the processes of this system can interleave.  Loops over rows are
parameterised by the row.  What a session loaded is kept in the process'
own record (`rec`, `run`, `api`, `cron`) whenever the code uses it after a commit.

### 2.1 MemoryJobs

`POST /memory/entries` and what follows.  Per idempotency key there is one job.

| Variable | Code |
|---|---|
| `job` | `jobs` row: status, generation in its payload (-1: none), "dependency unavailable" flag, `duplicate_of` |
| `item` | `items` row: status, whether there is a body (`src`), whether `content_hash` is set, whether its embeddings are stored |
| `attempts` | the `job_attempts` rows of the job by `attempt_number` |
| `age` | how old `created_at` is for `is_stale_memory_job` (20 and 30 minutes) |
| `arq` | ARQ state of the id `memory-artifact:<job>:<generation>` |
| `run` | `memory_artifact` / `process_prebuilt_item` for that id, with the hash and status its session holds |
| `api` | a request between its commits: `Stamp`, `Publish`, `MarkUnavailable` |
| `rec` | `recover_stale_memory_jobs`, with the row it loaded under the lock |

`AcceptNew`, `ReviveStale`, `ReviveUnavailable`, `Retry` are the ways into
`_enqueue_memory_job_or_raise`; `Start`, `Dedupe`, `Embed`, `StoreHash`, `Final`
are the commits of the worker and `FailOnError`, `FailOnClash` its handler;
`Scan`, `LockSkip`, `LockDeadLetter`, `LockRecord`, `RecPublish`, `RecWrite` are
the cron.  `Abandon`, `WorkerCrash`, `ApiCrash`, `RecCrash`, `QueueLoss`,
`PublishError`, `RecPublishError` are the faults.

The unique index on (tenant, content hash), which leaves out failed items, is
`Indexed` and `Clash`.  A body of an item may be cleared by an edit (`ClearContent`).

Abstractions.  Some pairs of statements of one function are one action here, although
another transaction may come between them:

* `Dedupe` merges the look-up (`services/item_processing.py:127`) with the commit of its
  outcome (138-153).  A rival that stores the hash in between is met by the index, which refuses
  this item in `StoreHash` (`FailOnClash`), as it does when the rival comes just after `Dedupe`.  Or
  the holder that was found fails in between: then `HolderKeepsBody`, for which a look-up
  and its outcome are one, says nothing about an item that another generation makes the holder
  before the duplicate is committed.
* `Start` merges the load of the job with the commit of `processing`.  A session that has loaded
  `processing` does not write it again, so the row keeps what another generation has made of it until
  the worker's next commit of the job.
* `Retry` (`services/memory.py:690-726`, 3304-3319), `ReviveStale` and `ReviveUnavailable` (744-811)
  merge the test of a row that was loaded without a lock with the write.  What keeps
  attempts apart is tested by the commit itself (the lock of `create_job_attempt`, the index on
  active attempts), and so is what keeps two copies of a body apart (`Clash`), so these
  invariants do not rest on the merged test.

### 2.2 IngestJobs

`POST /ingest/...`, cancel, retry, `BasePipeline.process`, `requeue_stale_jobs`.
The API enqueues under a random ARQ id (tasks `1 .. Others`), the cron under the
job's own id (task `0`): ARQ lets them run at once, so `run` has an entry for
each.

A task loads the row (`Load`, `pipelines/base.py:275`), looks for an open attempt, and
commits `processing` together with the attempt (`Join`, `FindNone`, `Create`: 288, 522-556,
`services/job_attempts.py:41-117`).  Its session keeps the row as it was loaded, so a status
that was `processing` then is not written again (`same`).  Hence a task that loads
the row while another runs, and goes on when that one has completed the job and closed the attempt,
opens an attempt beside a job that stays completed.  An attempt that somebody else opens between
the look-up and the insert makes `create_job_attempt` raise (`Outrun`).

The exception handler is two commits (`Fail` then `FailItem`), success is
two (`Store` then `Complete`), cancellation is two (`Abandon` then
`CancelItem`), and a request looks (`CancelRead`, `RetryRead`) before it writes.
`RestoreRetryState` writes a request's snapshot back after an enqueue that
raised, which may have reached Redis (`PublishError`).  `Reset`/`Requeue` are
the cron's two steps for a row; `ResetFails` is the branch for a row without a retry payload whose
source is gone (`workers/feed_tasks.py:164-175`, 195-257), which marks only the job and counts as a
fault, since the source is lost from outside.  Attempts are reduced to the last one
with the request that opened it; the full ledger is in MemoryJobs.

What is still one action: in the closing steps (`Complete`, `Fail`, `Duplicate`) the look-up of the
open attempt and the commit.  An attempt that was found is locked until the commit, and one
that is opened after a look-up that found none belongs to a task that closes it itself.

### 2.3 TenantQueue

`workers/queues.py` and its two users, for one tenant.  `lock` is the Redis key
that `SET NX PX` takes and a compare-and-delete script releases; `overran`
records that some holder outlasted it.  An enqueuer commits a row (refused by
row-level security once the tenant is erased, blocked while an eraser has the
table locks), takes the lock, looks at `closed`, enqueues.  An eraser goes
through close, find, lock, stage, commit, purge, with a rollback before the
commit and a verification when the commit's outcome is unknown; a deleter takes
the item's `flock` first, which does not await and so stops every coroutine of
its process (`Runs`): a second deleter of the item in the same process then waits for a
coroutine that cannot go on (`Deadlock`).

### 2.4 PalaceRuns

How the palace of one tenant catches up with its items.  A pipeline commits a
change (`Change`) and a mark job raises `dirty`, gives the item's `row` that
generation, and creates a run unless one is active (`MarkRead`, `MarkCommit`).
`palace_run_build` is `BuildOpen` to `BuildFinish`, one action per transaction and
one per read that is used after another process may have committed; then it asks
for a follow-on run (`SeeBacklog`, `Check`, `CreateRun`, `Enqueue`), as the cron
does.  `Start` and `Retry` are the requests of an operator.

| Variable | Code |
|---|---|
| `version`, `routed`, `born` | an item's changes; history variables: what a build has routed, what a row was inserted for |
| `dirty`, `indexed`, `lease` | `palace_tenant_state`: `dirty_generation`, `indexed_generation`, `active_palace_run_id` |
| `row` | `palace_dirty_items`, one row per item by its unique constraint |
| `run` | `palace_runs`: status and requested generation |
| `build` | the session and the locals of `run_palace_run` |
| `task` | where each mark job, build, request and the cron stands, and the generation it has read |

What follows from PostgreSQL and SQLAlchemy, not from the text of the functions:

* `state.dirty_generation += 1` reads in one step and writes in another; two markers
  may write one generation, and a follow-on run may request an older generation than
  the tenant has by then.
* A marker locks the tenant's row before the dirty rows, a build the dirty rows
  before the tenant's row.  They can deadlock (`Locked`), and either may be the victim
  (`MarkRaises`, `BuildFail`).
* A column is written only when the value assigned differs from the one the session
  has loaded: `BuildFinish` may leave `indexed` alone, or set it back, and
  `BuildStart` may leave the lease alone.
* A build deletes rows by id, whatever generation they have got since it read them.

`BuildRead` makes one step of two queries (the dirty rows and their items), and the creation of the
tenant's state row is left out: it is taken to be there.

`palace_runs` grows without bound in the code.  In the model a run that is over and
that no process holds stands for a row that does not exist yet (`Fresh`, `NewRun`).

### 2.5 SourceResources and FencedLease

`services/source_resources.py` and `workers/source_resource_tasks.py`: web pages that
are fetched again when they are due.  The dispatcher leases due rows in one
transaction (`Claim`) and then enqueues one job for each lease (`DispatchEnqueue`);
`refresh_source_resource` reads the row under its lease (`Start`), fetches without a
transaction (`Fetch`, `FetchFails`), and applies the answer in another transaction that
checks the lease again (`Apply`) or drops it (`Discard`).  An operator changes the
policy, pauses, resumes, restores, or asks for a refresh, which is a lease and an
enqueue with a cancellation of its own (`Refresh` to `RefreshCancel`).

| Variable | Code |
|---|---|
| `row` | `source_resources`: status, policy, due time and lease expiry against the clock, token, the last failure, the version stored |
| `page` | the version that the origin serves |
| `job` | `refresh_source_resource` by token: where it is, what it sends and what it got; the policy of its lease is a history variable |
| `ask` | a refresh request between its commit and its answer |

`FencedLease` is what such a lease promises, in four actions and without a clock, a
queue or a process: at most one owner per resource, only the owner changes the value,
once per grant; whoever lost the lease can only give up.  `Lease` instantiates it with
the tokens of the rows as owners, the tokens that some job holds as holders and the stored
versions as values, and `ImplementsLease` says that SourceResources implements it.
`LeaseOutrun` (a lease that runs out under its job) is counted as a fault: a lease is
longer than a job that meets no difficulty.

### 2.6 HermesLane and HermesOutbox

The provider of `third_party_plugins/hermes`.  HermesLane is its write lane in memory:
callbacks append under the lifecycle lock (`Enter`, `Queue`), one drain thread takes
what is queued (`Take`, `Stop`, `Finish`), and `flush_pending` and `shutdown` wait for
events that every change publishes (`FlushCheck`, `FlushWake`, `FlushLast`,
`ShutdownCall`, `ShutdownClose`).  A section under the lock is one action, except that
the gate is closed without the lock, so a callback may have passed it.

HermesOutbox EXTENDS it with what executing a write means: the drain thread looks the key
up, charges a session (`LookUp`), and commits a record to SQLite under caps of its own
(`Admit`); `RecoveryWorker.run` reads a batch under a `flock`, posts each record, asks for
a receipt and marks it delivered (`ReadRows` to `Mark`).  `Accept` is the server's side
(`services/memory.py`), where a replay of a key answers with the entry that is there.
The states are those of the document docs/SAR-1402-plugin-outbox-alternative.md: queued or
active, locally committed, remotely accepted, remotely proven, and then delivered; "the first
unproven predecessor stops the FIFO batch", recovery is at least once, and the quota of a session
is a count of its rows in the file, so that a restart does not reset it.

Abstractions: the server answers a post with an asynchronous memory job; here an accepted entry is
durable at once and its receipt can be had (`Accept`), so a job that fails or is lost at the
server, for which no receipt would come, is not in the model, and `EventuallyDelivered` covers that hazard
only for the deleted item.  (What becomes of such a job is in MemoryJobs.)  `LookUp` leaves out
the cap of a turn (`_max_writes_per_turn`) and the switch `_write_quotas_enabled`, which only turn
more writes away.  `Queue` leaves out the second `_assert_open` (`__init__.py:3401`), so the model lets
more in than the code does, and what `DrainedIsFinal` says holds for that too.

A batch is kept as the set of the positions that are left of it (`todo`): its query orders the
rows by their position and it takes the least first.  The rows that an earlier process has left
are the initial `rows`; the server may have accepted any of them, and has accepted those that
are marked delivered.

### 2.7 MediaFairness

`workers/media_fairness.py`: media jobs wait as rows, and a dispatcher moves a few of them
into ARQ.  It runs each minute and after many requests, so runs overlap (`disp`); a run is
two queries (`ReadPending`, `CountActive`), one look at ARQ for each candidate
(`Inspect`), the choice (`Choose`), and one enqueue for each job chosen (`Put`).  The rows
(`row`, and `made`, the place of each by `created_at`) and the queue (`arq`) change between any
two of these.  What a run has read is a set of rows with the places they had (`order`).  `Choose` is the loop of `_choose_fair_jobs`, turn by turn; `FairChoice` defines
the same choice without a loop.

* ARQ keeps the result of every job for an hour, that of a deferred one too, and refuses
  its id meanwhile.  A dispatch ends within half an hour (`job_timeout`), so a result
  outlives the dispatches it has met: `old`.
* A task has its row's last commit (`End`: `pipelines/base.py:412`, 458, 493) before it returns
  (`Return`).  In between it reflects the subscription, wakes the dispatcher and sends the
  webhook (`workers/tasks.py:264-279`); ARQ has it in progress meanwhile (`ending`) although its row is
  finished, so a dispatch may put the tenant's next task into the queue beside it.
  `InFlightIsBounded` is therefore about the tasks that wait for a worker or work on
  their row.
* A row that is chosen again while its id is refused takes a slot of its tenant and a
  place of the batch for nothing.
* `requeue_stale_jobs` sets `created_at` again, a retry does not: only the former sends a
  job to the end of the line.
* What the task and the requests do beyond their status (storage, attempts, a failed
  enqueue) is in IngestJobs.
* `Put` leaves out a row from which `_build_media_task` makes no task
  (`workers/media_fairness.py:233-235`, a row without a URL or with another task's payload).  No request
  creates one; it would take a slot of each dispatch and never be put.
* The enqueue raises when the tenant's queue is closed, and what was chosen behind it is not put.  The
  model lets that happen once (`DispatchDies`).  A queue that stays closed stops every dispatch that
  reaches its tenant's job, for all tenants: `EveryJobSettles` does not cover that.

### 2.8 CanonPages and CanonSync

A git repository bound to a tenant's canon.  CanonPages is the editorial part
(`services/canon_authoring.py`): a request loads a page (`LoadPage`) and later saves
(`SavePage`), and since no row is locked in between and SQLAlchemy writes only the columns
that differ from what was loaded (`Put`), two edits of one page merge column by column.
CanonSync EXTENDS it with `services/canon_sync.py`.

| Variable | Code |
|---|---|
| `page` | `canon_pages` with the text of its item: status, body, and whether a person or the sync created it |
| `edit` | an update, a publication or an archival between its load and its commit |
| `repo` | the head commit: per path no file, a file that does not parse, or a text |
| `row` | `sync_source_files`: whether the path has a row (`known`) and whether its `page_slug` is set (`claim`) |
| `asked` | the conflict artifacts, by page and text (their `dedupe_key`) |
| `accept` | `accept_repo_version` between its reads and its two commits |
| `run` | the `sync_runs` row, its ARQ job, and the locals of `run_canon_sync`: the checkout, the plan, the rows as loaded |
| `pend` | what the run has written and not committed |

A run begins whatever its row says (`Begin`: a job that ARQ repeats finds it running), reads the
checkout and plans every file (`Plan`), applies the plan file by file (`ApplyCreate` to
`AfterUpdate`), archives the pages of files that are gone (`RemovePage`, `RemoveRow`) and
commits (`Finish`).  It means to commit once.  But `update_canon_page(commit=False)` embeds,
and `process_prebuilt_item` commits before it does so (`SaveUpdate`), and
`archive_canon_page` has no such parameter and commits always (`RemovePage`); either brings
everything in `pend` into the tables (`CommitWith`).  What a run has flushed and not
committed locks those rows (`PageHeld`, `RowHeld`), and an insert that lost a race is
refused (`InsertClashes`).

Abstractions: the plan is applied in any order, which covers the order of the files; the
look-up and the commit of `archive_canon_page` in a run are one step; an update to the text that
the page has by then commits nothing (`SameText`); there is one binding.  `Plan` merges the
checkout with the queries of `plan_import` and of the rows (`services/canon_sync.py:450`).  `RemovePage`
leaves out `CanonNotFoundError` (606), since pages are never deleted here.  `SaveUpdate`
always commits what the run has written; when the item's `content_hash` is the new one already
(`services/canon_authoring.py:317-319`, a text that comes back over an edit saved without an embedder) the
code commits it later, with the next page or at the end.  `Finish` ends the job with the
commit; a worker that dies between the commit and ARQ's result has the whole run executed once
more, as if a later run had found the same commit.

### 2.9 Proof modules

`MemoryJobs_proofs`, `IngestJobs_proofs`, `TenantQueue_proofs`, `PalaceRuns_proofs`,
`SourceResources_proofs`, `HermesOutbox_proofs` (which has HermesLane's too),
`MediaFairness_proofs` and `CanonSync_proofs` hold the theorems of each model; the `MC` modules are the
instances for TLC.

## 3. What the runs check

### 3.1 Runs

| Run | Shows | Instance |
|---|---|---|
| memory_job_life | `ReadyHasVectors`, `OneActiveAttempt`, `LedgerImmutable`, `EventuallySettled`, types | one key, two faults |
| memory_job_dedupe | `OneReadyPerBody`, `HolderKeepsBody` | two keys with one body, two faults, two attempts, either item may be edited |
| ingest_job_store | `SettledIsStored`, `OneReadyPerBody`, types | two jobs that find one content, two tasks each, one error, one cancel or retry |
| ingest_job_live | `EventuallySettled`, `ItemSettles`, `AttemptIsAttended` | one job, three concurrent tasks, two requests, one error, one crash, timeout or loss |
| tenant_queue_barrier | `NoEnqueueWhileClosed`, `ErasedTenantHasNoWork`, `AbortRestoresArtifacts`, `BarrierIsLifted`, types | an enqueuer, an erasure, two hard deletions of one item that arrive at one process, two faults |
| palace_run_live | `LeaseIsActive`, `DeletedWasRouted`, `BacklogDrains`, types | one item that changes twice, two mark jobs, two runs, one event |
| source_refresh | the refinement of FencedLease, `ContentGoesForward`, `OnlyOperatorsRevive`, `LeaseHasItsPolicy`, `ContentCatchesUp`, types | one page with two versions, two leases at a time, one request, two operator actions, three faults |
| hermes_outbox | `DrainedIsFinal`, `DeliveredInOrder`, `LaneComesToRest`, `EventuallyDelivered`, types | one process, three writes of two sessions, a record left by an earlier process, two recovery commands, one fault |
| media_fairness | `ChoiceIsFair`, `InFlightIsBounded`, `EveryJobSettles`, types | two tenants with two jobs and one, two dispatches at a time, one kind of odd event |
| canon_sync | `OwnPagesAreKnown`, `StrangersAreAsked`, `SyncCatchesUp` | three files, two of one name, two texts, one editor with two edits, two pushes, one fault |
| palace_run_stranded | violated: `BacklogRecovered` | one change, one mark job, one event |
| canon_overwrites | violated: `PersonsPagesAreKept` | two files, one edit, one push, no fault |

The properties in words are in the modules, each before its definition.
`CHECK_DEADLOCK FALSE`: every one of these systems may stop when all requests
are answered and all jobs settled; in CanonSync also when a run is left active without a
job, since nothing ends it.  The type invariant of CanonSync is proved (`TypeCorrect`) and not
among the run's properties.

### 3.2 Bounds, and why they are enough

* *Keys, jobs: 1 or 2.*  Every rule relates at most two jobs: the one processed
  and a rival with its content.  Keys and jobs are symmetric (`SYMMETRY` only in
  runs without a liveness property).
* *One body.*  The hard case is that contents are equal; different bodies do not
  interact.
* *Two generations, three concurrent tasks.*  Two executions of one job are what
  snapshots and shared attempts can get wrong; a third gives one to start after
  both wrote.
* *MaxAttempts.*  `create_job_attempt` has no limit; the bound disables the
  next attempt when it is reached.  In memory_job_life it is high enough (14) never
  to be reached, since a bound that disables recovery would make liveness fail
  for a reason that is not in the code.
* *MaxFaults, MaxErrors, MaxAsks.*  How many failures, and how many cancellations
  and retries.  Two faults let a second one hit the recovery from the first.
* *Two deletions of one item in one process, one erasure* (TenantQueue): two deleters are
  what the `flock`, the event loop and the reopening at the end can bring into each other's way; the
  erasure is the other closer of the same queue.
* *Two mark jobs, two runs, two changes* (PalaceRuns).  The races are between two
  markers, a marker and a build, and two builds; a third generation adds nothing
  that the second does not, since only the order of generations is compared.
  `MaxEvents` counts manual runs, retries, exceptions, crashes, timeouts and failed
  enqueues together.  With one event a retry is still reached, since a build can fail
  in a deadlock, which is not counted.
* *Two tokens* (SourceResources).  A token is a random number and is taken again when
  nothing holds it, so two of them let the result of an old lease meet a new one, any number
  of times.  Two versions tell new content from old.
* *One process, two sessions* (HermesOutbox).  Processes of one profile meet only in SQLite,
  where admission is one transaction.  Two processes with the same three writes pass the
  invariants too (8.2 million states, five minutes, not among the runs).  The initial record
  stands for what an earlier process has left.
* *MaxOdd* (MediaFairness): how many kinds of odd events a behaviour has: overlapping dispatches,
  a cancellation, a failure, a deferral, a row that is stale although it only waits, a fault.
  Each kind happens once.  `ChoiceIsFair` compares for every state that a dispatch can read,
  and for every limit up to those of the instance and one more.
* *Three files, two of one name* (CanonSync): two paths with one slug let a file move, be
  refused for the clash, and own a page through another path's row; the third gives a run
  pending work when an update or an archival commits.  Two pushes give a file that goes and
  comes back, one fault cuts one run short anywhere.
* *age has three values*: younger than 20 minutes, than 30, older: the only
  thresholds.

The theorems of section 4 hold for every value of all of these.

### 3.3 Fairness

* *Requests that were let in go on* (`RequestStep`): coroutines are scheduled
  fairly by asyncio.  New requests, edits, cancellations and faults are never
  forced.
* *Workers take and run what is queued* (`WorkerStep`, `JobEnd`): ARQ polls its
  sorted set in order of time; a job that does not end is ended by `job_timeout`.
* *Crons come back* (`Scan`, `Check`, `RecoveryStep`, `CronStep`): four times an
  hour.  `Check` is strongly fair since the id of a job may be occupied from time
  to time and the cron sees each row on every visit.  The code's round stops at
  the first row that the index refuses (`workers/feed_tasks.py:277`), and then rows
  after it are not visited; the run has one job, so that does not arise there.
* *Builds, mark jobs and the palace cron go on* (`Fairness` of PalaceRuns): once in the
  queue they are executed, and the cron comes every quarter of an hour.  Weak fairness
  is enough.  Manual requests, exceptions and faults are never forced.
* *Time passes* (`FallsDue`, `LeaseExpires`) and the dispatcher claims what is due (`Claim`,
  three times an hour); jobs and requests that were let in go on.  Operators, new pages and
  faults are never forced.
* *Threads of the provider go on* (`Queue`, `Drain`, `CallStep`), and somebody runs the
  recovery command again and again (`Recover`): nothing in the plugin does so by itself, and
  without it nothing is delivered.  `FlushTimeout` has no fairness: the flushes have to return
  without it.
* *The media dispatcher comes every minute, the media worker takes what is queued, the cron
  comes every quarter of an hour* (`Fairness` of MediaFairness), weakly fair for each kind of
  step and not for each job, which is less than the code gives.
* *The poller comes back and the worker goes on* (CanonSync): one weak fairness condition on
  `Start \/ RunStep`.  A run whose last worker died has its job again (`RunDies`) and so is
  taken up; a run left without a job (`Stranded`) is not, and `SyncCatchesUp` excepts it.
  Pushes, people and faults are never forced, nor is an edit that was begun ever completed.
* *Results expire* (`ForgetResult`): `keep_result`.
* *The lock's time to live ends* (`LockExpire`).

`BarrierIsLifted` and `ItemSettles` are stated for behaviours without faults
(errors are allowed in the latter): section 5 says what happens otherwise.  `BarrierIsLifted`
also excepts two deletions of one item that deadlock in one process (`Deadlocked`); that needs no fault,
the run reaches it, and without the exception the property fails.  `EveryJobSettles` is for the odd
events of the run, each of which happens once.
`BacklogDrains` has no such condition, and ends with a backlog only if a run was
left active without a job, the case of palace_run_stranded.  `EventuallyDelivered` excepts
a record behind one whose item was deleted at the server: the queue is first in, first out,
and the receipt of a deleted item is refused for ever.

## 4. What is proved

TLAPS proves these for every set of keys, jobs, bodies and requests, and for
every bound; the only assumptions are the named `ASSUME`s of the modules (the
bounds are natural numbers, names are distinct), which TLC evaluates in
every run.

| Theorem | Property | Argument |
|---|---|---|
| MemoryJobs_proofs!TypeCorrect | TypeOK | one lemma per action; needs `RecKeyed` (an active recovery has a key) |
| MemoryJobs_proofs!AtMostOneActiveAttempt | OneActiveAttempt | `OneActive` of one ledger is preserved by `Finish` and `Create`, stated as lemmas about the operators |
| MemoryJobs_proofs!TerminalAttemptsImmutable | LedgerImmutable | every change of a ledger is `LedgerOK` |
| MemoryJobs_proofs!ReadyItemsHaveVectors | ReadyHasVectors | the only step that makes an item ready stores its vectors |
| MemoryJobs_proofs!OneReadyItemPerBody | OneReadyPerBody | `HashInv` |
| MemoryJobs_proofs!HoldersKeepTheirBodies | HolderKeepsBody | `HashInv`; one lemma (`BodyNext`) sorts the steps by what they do to the index |
| MemoryJobs_proofs!DuplicatesPointAtHolders | | until a fault: what a duplicate points to stays in the index (`HeldByRival`), and by `UniqueHash` it is no duplicate |
| IngestJobs_proofs!TypeCorrect | TypeOK | one lemma per action |
| IngestJobs_proofs!SettledStored | SettledIsStored | `Stored` |
| IngestJobs_proofs!AttemptsAreAttended | AttemptIsAttended | action property, from `RunsInArq` and the lemma `CellsNext` about what a step does to a task |
| IngestJobs_proofs!OneReadyItemPerBody | OneReadyPerBody | `Indexed` |
| TenantQueue_proofs!TypeCorrect | TypeOK | one lemma per action |
| TenantQueue_proofs!EnqueueExclusion | NoEnqueueWhileClosed | `Barrier` |
| TenantQueue_proofs!ErasureLeavesNoWork | ErasedTenantHasNoWork | `ErasureInv`, on top of `Barrier` |
| TenantQueue_proofs!AbortedErasureRestores | AbortRestoresArtifacts | `Quarantine` |
| PalaceRuns_proofs!TypeCorrect | TypeOK | one lemma per action and helper |
| PalaceRuns_proofs!LeaseHolderIsActive | LeaseIsActive | inductive: every step that ends a run clears the lease |
| PalaceRuns_proofs!DeletedRowsWereRouted | DeletedWasRouted | `RowsInv` |
| SourceResources_proofs!TypeCorrect | TypeOK | one lemma per class of steps |
| SourceResources_proofs!LeasesKeepTheirPolicy | LeaseHasItsPolicy | `Leases` |
| SourceResources_proofs!RevivedByOperators | OnlyOperatorsRevive | a resource at rest has no lease (`NoLeaseAtRest`), so no answer is applied to it |
| SourceResources_proofs!ContentIsMonotone | ContentGoesForward | `Served`, on top of `Leases` |
| HermesOutbox_proofs!OutboxTypes | HermesOutbox!TypeOK | `OutboxInv` |
| HermesOutbox_proofs!DrainIsFinal | DrainedIsFinal | `CallsFit` of `OutboxInv` |
| HermesOutbox_proofs!DeliveryIsInOrder | DeliveredInOrder | `StoreFits` of `OutboxInv` |
| HermesOutbox_proofs!AcceptedWritesAreHeld | | `Places` of `OutboxInv`: a write that was accepted and is not decided is in one place of one lane |
| HermesOutbox_proofs!NoWakeUpIsLost | | `WaitersHaveReason` and `PendingIsServed` of `OutboxInv`: what the flushes rest on, without fairness |
| HermesOutbox_proofs!OnlyAcceptedIsDelivered | | `SeenByServer` of `OutboxInv` |
| HermesOutbox_proofs!EachWriteIsDecidedOnce | | action property, from `Places` |
| HermesOutbox_proofs!OutboxKeepsRecords | | action property: a record keeps its position, key and session, and stays delivered |
| MediaFairness_proofs!MediaTypes | MediaFairness!TypeOK | `TypeInv` |
| MediaFairness_proofs!ChoiceKeepsLimits | | for every input of `Choose`; `Within`, an invariant of the loop |
| MediaFairness_proofs!RoundRobinIsFair | | for every input of `Choose` without ties; `Served`, an invariant of the loop |
| MediaFairness_proofs!TheChoiceIsFair | ChoiceIsFair | `RoundRobinIsFair`; what a run has read has no ties (`ReadsAreTieFree`) |
| MediaFairness_proofs!TasksInFlightAreBounded | InFlightIsBounded | `FlightInv`, on top of `TypeInv` and `ChoiceKeepsLimits` |
| CanonSync_proofs!TypeCorrect | CanonSync!TypeOK | with `TodoParsed`: what a run has to apply has parsed |
| CanonSync_proofs!BindingKnowsItsPages | OwnPagesAreKnown | `SyncInv` |
| CanonSync_proofs!RunsAskStrangers | StrangersAreAsked | `RowsKnown` of `SyncInv` |
| SourceResources_proofs!LeaseIsFenced | ImplementsLease | refinement: each step is one of FencedLease or a stutter |

Why the strengthenings are needed:

* **HashInv** (MemoryJobs).  That two ready items never share a body is kept by
  the index only if ready items *have* a hash (`ReadyHashed`), if a worker past
  `StoreHash` knows that it has one (`RunHashed`: its session writes the hash
  only when it differs from what it loaded), and if hashed rows that the index
  holds are unique (`UniqueHash`).  `AbsentEmpty` and `RecPresent` exclude rows
  that recovery could otherwise bring to life.
* **Stored** (IngestJobs).  `completed` is written after the item's commit by a
  process that knows only its own step, and `RestoreRetryState` writes whatever
  status a request once saw.  So the invariant says that a worker past `Store`
  implies vectors, that a hash implies vectors (a duplicate points to a
  hashed row), and that a snapshot is never a finished status.
* **Indexed** (IngestJobs).  A failed row leaves the index with its hash and may
  come back, by a retry, a requeue or a restored snapshot.  Each of those is
  guarded by the index only while the row is failed, so the invariant has to say
  that a row which is or may come back ready has a hash (`ReadyHashed`,
  `SnapshotHashed`) and that hashes in the index are unique (`UniqueHash`).
* **RunsInArq** (IngestJobs).  An attempt in progress is abandoned when its last task is gone.
  `CellMoves` says what a step may do to one task: leave it, queue it, take it, move it on, or end it, and
  whoever ends inside the try statement closes the attempt (`Closed`) or is queued again.  So
  only a task that was queued or whose step closed the attempt stops attending it, except by
  a loss of the queue.  A step that opens an attempt is a task's own (`AttemptOpens`).  That no task is taken
  from the queue while it runs rests on an execution being in progress for ARQ (`RunsInArq`).
* **Barrier** (TenantQueue).  A process at a point where it works under the lock
  holds it (`HolderOnly`), and an enqueuer between check and enqueue has an open
  queue (`PutOpen`); both under the condition that no holder has outlasted its
  lock, which is what the thirty-second limits against a sixty-second time to
  live are for.
* **ErasureInv** (TenantQueue).  From its close to its return an erasure that is
  the only closer keeps the queue closed (`KeptClosed`); after the second scan
  everything in the queue is running and known to it (`OnlyStopping`).
* **Quarantine** (TenantQueue).  The tenant's directory is moved aside and a tombstone takes its
  place in several file operations, any of which may fail.  The invariant says for each point of
  an erasure that is the only one where the directory is: in its place before staging and
  after a rollback, aside from the last move to the end of the verification, and in
  either place where a restore may begin, which is what the restore has to cope with.

* **RowsInv** (PalaceRuns).  A build deletes the rows it read, two transactions later.
  So the invariant follows each row that a build holds: it still exists, since a row
  that another build deletes leaves every build's set at once; while the build routes,
  what it has read is not older than the row (`HoldsRows`); afterwards the item's
  routing is not.  That needs a row never to be younger than its item (`BornBefore`),
  and a mark never to write the generation 0 that stands for no row (`MarksCount`).
  The lemmas `BuilderSteps`, `MarkerSteps`, `RowSteps` and `BuildSteps` say what a step
  of any process does to a build, a mark, a row and a set.
* **Leases** (SourceResources).  That an answer is applied only under the policy of its
  lease needs more than the comparison of tokens: a resource at rest has no lease
  (`NoLeaseAtRest`), two resources never have one token (`LeasesDiffer`), and the token that an
  operator's request has claimed and not yet enqueued is its own (`AskOwns`).  The lemma
  `StepCases` sorts every step into four classes, by what it does to the row and to the jobs
  (a change that moves no job, a job that moves, a grant, an applied answer), and the
  invariants are proved over the classes.
* **Served** (SourceResources).  The stored version is never newer than the page, nor than
  what the holder of the lease is about to store; a new lease
  starts with no answer.

* **OutboxInv** (HermesOutbox).  The lane and the store need different things.  *Lane*: a
  closed gate has nobody inside (`GateShut`; the gate is closed without the lock, but the
  shutdown waits for the callback that has passed it), a shutdown beyond its
  closing has closed the lane (`ClosedFits`), every write is in one place (`Places`), a
  waiting caller that nobody has told has something to wait for (`WaitersHaveReason`), and what is
  pending has a thread (`PendingIsServed`).  From these follows that a drained lane stays
  drained.  *Store* (`StoreFits`): one command is at work at a time (`OneAtWork`, the `flock`), and
  its batch is a prefix of the pending rows (`BatchesFit`: with a row every pending one before it);
  rows are only appended meanwhile, so the least of the batch is the
  least that is pending.  A row is marked only after a receipt (`SeenByServer`).
* **TypeInv** (MediaFairness).  That `created_at` numbers the rows without ties must survive
  `Reset`, which sends a row to the end and moves the others up (`RowsInv`).  A run, the cron or ARQ
  holds rows that exist (`KnownRows`), or a task would bring an absent row to life.
* **Served** (MediaFairness).  The loop takes turns; the reference orders all rows at once.  The
  link is a number: if the tenant of a row has the p-th turn of a round, of m tenants, and the row
  is the r-th of its tenant, then `Slot` is r * m + p.  After n turns exactly the
  entitled rows with a slot below n are selected, in the order of their slots, as long as the
  batch is not full; the tenant whose turn it is takes the row with slot n or has none.  After limit * m turns
  every row that is left has limit rows before it.
* **FlightInv** (MediaFairness).  A run decides on counts that are stale when it enqueues, so
  no count of the state bounds the tasks.  Instead every run *answers for* a set of jobs of each
  tenant (`Answers`), no more of them than the tenant's limit: what it is about to enqueue is in the
  set, and what of the set is in flight is counted, or is a candidate that ARQ has not been asked
  about.  A run that is over still answers for what it has put.  Together the runs cover
  everything in flight (`Cover`); a new run starts with the set of its predecessor and replaces
  it by what it has counted and chosen.  Hence the limit once, or once for each run that overlaps.
  A task whose row is finished is in nobody's set, although ARQ still has it in progress: `AtWork`
  is what has to be covered, and a step of a task only ever ends it.
  That its readings find that set again rests on tasks in flight having
  waiting or processing rows (`FlightFits`), on what a run has read being still waiting,
  running, or ended with a result that outlasts the run (`TodoFits`), on the first query showing all
  that waits (`QueryShowsAll`) and, without overlap, on one run at a time (`Alone`).

* **SyncInv** (CanonSync).  A page of the binding reaches the tables by whichever of a run's
  commits comes first, so the invariant says that a page which is pending goes with a row of
  its name that is pending too (`PendKnown`), and that a row the run has loaded is in the table
  (`RowsKnown`): rows are never deleted, and a claim always belongs to a known row.  From the latter
  follows that a run which updates a page, being allowed to by `Owned`, has a row committed
  earlier.

Only model-checked: all liveness (`EventuallySettled`, `ItemSettles`, `BarrierIsLifted`,
`BacklogDrains`, `ContentCatchesUp`, `LaneComesToRest`, `EventuallyDelivered`,
`EveryJobSettles`, `SyncCatchesUp`), since fairness needs ENABLED, which the prover does not handle.
Every invariant and every action property of the passing runs is proved.

Induction over data.  The library's induction theorems take an operator as a parameter and cannot
be used with these provers.  What the round robin of MediaFairness computes is proved by
induction all the same, over sets of numbers: `LeastNumber` (from the library's theorem that < is
well founded) says that a set of numbers has a least one, `SetInduction` that a set with 0 and
every successor has them all, and the set of the n for which the loop's invariant holds after n turns is
such a set.  That the function of the turns is what its recursive definition says (`TurnsLoop`)
is proved in the same way.

## 5. What the models found

Shown by a run each (`PROJECT.json`, "findings"):

* *A backlog that maintenance does not recover* (palace_run_stranded).  A worker dies
  between the commit of a run and the enqueue of its job; or `job_timeout` cancels a
  build, which `except Exception` (`services/palace.py:5459`) does not see.  The run
  stays active, `create_or_get_palace_run` returns it to every later mark, build and
  cron, and none of them enqueues a job for it.
* *A person's page that a sync run overwrites* (canon_overwrites).  docs/tenant-canon-design.md:446:
  "A page a human wrote by hand with the same slug is a conflict, not an update."  The first
  run that meets such a page files the conflict and adds a row for the path
  (`services/canon_sync.py:566`); a path with a row counts as the binding's
  (`services/canon_sync.py:475`), so the next run that plans an update, the page being a draft,
  replaces the text.  What does hold is `StrangersAreAsked`: the first run does not.

Seen while the properties were stated, reachable in the models, and the reason
for a condition in one of them:

* MemoryJobs: recovery overwrites a completed job.  The comment in `workers/tasks.py:771`
  serialises it "against a worker completing the same durable row", but the lock ends with the
  commit of the recovery attempt (line 835), and the closing write at 871 comes after the enqueue.
* MemoryJobs: a job reported retryable cannot always be retried.  The attempt that a retry or a
  recovery opens is not closed by `memory_artifact`; after the next failure
  `create_job_attempt` raises (`services/memory.py:3316`), although the message at 3308 says
  that failed or cancelled jobs can be retried.
* MemoryJobs: no copy of a body need stay that is not a duplicate of another.  The worker of the
  first copy fails after a second was closed as its duplicate, a third becomes ready, and the retry of
  the first is closed as the third's duplicate: a chain.  With two jobs, two generations
  of each and one error, two jobs can end as duplicates of each other, since
  `process_prebuilt_item` (`services/item_processing.py:142`) looks only for an item that holds the hash
  and the job it points to may be retried (`services/memory.py:3321`).  What holds is
  `HolderKeepsBody`, and `DuplicatesPointAtHolders` until the first fault.
* MemoryJobs: a request whose id is taken marks the job unqueued although the cron
  has just queued it (`api/memory.py:298`).  Two overlapping generations can leave a
  completed job whose item is `processing` (`services/item_processing.py:194`).
* TenantQueue: the "permanent file tombstone" (docs/data-lifecycle.md:16) is unlinked by a second
  erasure of the same tenant that fails before its commit (`services/data_lifecycle.py:525`).
  Two hard deletions of one item in one process hang it: the second blocks in `flock`
  (`services/bundle.py:90`) on the event loop that the first needs to go on.
* TenantQueue: a hard deletion that ends after an erasure opens the queue of the
  erased tenant (`services/data_lifecycle.py:670`, 675), and of two deletions the
  first that ends lifts the barrier of the second; hence `Alone`.  A failure after
  the commit leaves a live tenant's queue closed; hence "without faults" in
  `BarrierIsLifted`.  The deadlock of two deletions leaves it closed without any; hence
  `Deadlocked` there.  Two overlapping erasures that fail can restore each other's
  tombstone and lose the artifacts; hence `Alone` in `AbortRestoresArtifacts`.
* IngestJobs: cancelling does not stop the task, which may complete the job
  (`api/jobs.py:248`).  The API's tasks carry a random id, so
  `_stale_job_is_requeueable` does not see them and a second task runs beside the
  first.  When `Reset` is followed by a crash of the cron while a task completes,
  the job is completed and its item stays `processing`; hence the condition of
  `ItemSettles`.  A retry whose task is lost after a cancellation keeps its
  attempt, and later retries raise; hence `Lost` in `AttemptIsAttended`.  A task that has loaded the row
  before another completed it opens an attempt beside a completed job, which is therefore not
  always closed.  The enqueue that raises after Redis took the
  task leaves a completed job with a failed item.

* PalaceRuns: an item changed and marked again after a build has read it loses the new
  mark with the row that the build deletes by id (`services/palace.py:5441`): the
  change waits for the next mark.  Hence `DeletedWasRouted` speaks of the version the
  row was inserted for.  Of two markers that write one generation, the later one's row
  may stand at a generation that a build has indexed, and waits for the next run.  A
  retried run sets `indexed_generation` back, and the next follow-on run repeats work.

* SourceResources: an enqueue that raises ends the dispatch loop for all resources behind it
  (`workers/source_resource_tasks.py:196`); they wait for their leases to run out.
* SourceResources: an unreachable resource whose policy goes to manual and back has no due time
  and is not tried again: a change of policy gives one to active rows only
  (`services/source_resources.py:328`).  The comment of `is_due_for_refresh` (line 204) says
  that the dispatcher retries unreachable resources; hence `Scheduled` in `ContentCatchesUp`.
* HermesOutbox: a record whose item was deleted at the server blocks every record behind it.
* MediaFairness: `Cancel` leaves the task in ARQ, a reset of a stale row makes a second
  candidate of one that runs, and a lost task leaves its row in processing; each of them lets a
  tenant have more tasks than its limit, and so do overlapping dispatches, each of which counts
  before the other has put: hence the conditions of `InFlightIsBounded`.  So does the limit of the
  first query: with one candidate per tenant, an older row that is retried hides a younger one that is
  already in ARQ, which is then neither asked about nor counted; hence `QueryShowsAll`.
  `pipelines/youtube.py:176` divides the tenant's artifact budget by that limit.
* MediaFairness: a finished task wakes the dispatcher while it is still in progress for ARQ
  (`workers/tasks.py:276`), so two tasks of a tenant with one slot can be in progress, one of them
  in its clean-up; hence what `InFlight` counts.
* CanonSync: the push hook starts a run and enqueues no job for it
  (`api/canon.py:1054`; the manual route does, line 838), and `job_timeout` cancels a run past
  `except Exception` (`services/canon_sync.py:659`).  Either leaves a run active for ever,
  and no later run of that binding starts; hence `Stranded` in `SyncCatchesUp`.
* CanonSync: a page that was archived with its file stays archived when the same text comes
  back, or comes back under another path: the plan says skip-unchanged, which writes no page.
  A test says "A file that comes back must bring its page back"
  (`tests/test_canon_sync_run.py:320`) and brings another text back.  Hence `Mirrored` speaks of
  the text and not of the status.
* CanonSync: the module's comment says a run "commits once at the end"
  (`services/canon_sync.py:24`); with updates or removals it commits several times, and what
  fails afterwards leaves half of it.  After a failed embedding the page has the new text,
  the next run skips it as unchanged, and its vectors are those of the old text.
* CanonPages: an update that loads a draft and saves after its publication changes the text
  of a published page without demoting it; the comment of `update_canon_page`
  (`services/canon_authoring.py:414`) says that the published text cannot change without a fresh
  publish.

## 6. What is not modelled, and the plan

Left out of the modelled parts: progress events, webhooks, deferred media and the
re-submission of a URL whose item failed (ingest); bulk acceptance, supersession
and promotion (memory); an item's own artifact files, bundles and the list of
tables (deletion); `active_generation`, sync runs, `refresh_dirty_palace_rooms` and the
repair of artifacts (palace runs); observations, drift proposals and the dispatcher's batch limit
(source resources); the folder import of the API, revisions, vectors, charters and ratification
(canon); payload and credential checks, prefetch and tools (Hermes plugin).  Read-only parts (search, chat, telemetry, evaluation) and
external I/O (pipelines, embedder, LLM) have no state worth a model.

Plan, most important first.  Every module gets constants with named assumptions,
one action per operation, no RECURSIVE operator, one run, and theorems for its
type invariant and its main safety property.  Done, with every safety property proved: MemoryJobs, TenantQueue, IngestJobs,
PalaceRuns, SourceResources (with its refinement of FencedLease), HermesOutbox,
MediaFairness and CanonSync.

1. **ItemReindex** with **Supersession**: edits, `embed_item`, deletion, the chain of
   entries.
2. Observations and **source drift**: the proposals that SourceResources leaves out.
3. **OAuthTokens**: codes, rotation, families.  Theorem: a token is used once.
4. **LlmAdmission**: gates, slots, eviction.  Theorem: at most n holders of slots.
5. **Subscriptions**, and the folder import of the canon (`commit_import`) on top of CanonPages.
6. Compositions: IngestJobs with TenantQueue (an ingest against an erasure), and
   PalaceRuns with ItemReindex.
7. Refinement: the attempt ledger as an abstract module that MemoryJobs and
   IngestJobs implement; the barrier of TenantQueue as an abstract readers-writer
   exclusion.
8. Proofs for the new modules, and for the invariants of these refinements.
