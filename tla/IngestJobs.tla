------------------------------ MODULE IngestJobs ------------------------------
(***************************************************************************)
(* The life of an ingest job (webpage, pdf, doc, image, note): the API     *)
(* commits an item and a job and enqueues the task, the default worker     *)
(* runs BasePipeline.process, the owner may cancel or retry, and the cron  *)
(* requeue_stale_jobs enqueues again what has been queued or processing    *)
(* for too long.                                                           *)
(*                                                                         *)
(* Every step is one database transaction or one Redis call.  The API      *)
(* enqueues under a random ARQ id and the cron under the id of the job, so *)
(* ARQ itself lets several tasks of one job run at once.                   *)
(***************************************************************************)
EXTENDS Integers

CONSTANTS Jobs,       \* jobs of one tenant, each with its item
          Bodies,     \* contents that an extraction may find
          Clients,    \* API requests in flight
          Others,     \* bound: tasks of one job under random ids at a time
          MaxAsks,    \* bound: cancellations and retries
          MaxErrors,  \* bound: tasks that fail and enqueues that raise
          MaxFaults   \* bound: crashes, restarts, timeouts and lost queues

ASSUME NameAssumption == "none" \notin Bodies \cup Jobs /\ "worker" \notin Clients
ASSUME BoundAssumption == {Others, MaxAsks, MaxErrors, MaxFaults} \subseteq Nat

VARIABLES job,      \* jobs rows
          item,     \* items rows, with their embeddings
          attempt,  \* the last job_attempts row of each job
          arq,      \* ARQ tasks of each job; task 0 is the one whose id is the job's
          run,      \* the execution of each task
          api,      \* API requests
          cron,     \* requeue_stale_jobs
          asks,     \* cancellations and retries so far
          errors,
          faults

vars == <<job, item, attempt, arq, run, api, cron, asks, errors, faults>>

-----------------------------------------------------------------------------
(* Types *)

Tasks == 0 .. Others
JobStatus == {"absent", "queued", "processing", "completed", "duplicate", "failed", "cancelled"}
ItemStatus == {"absent", "processing", "ready", "failed"}
ActiveAttempt == {"queued", "processing"}
AttemptStatus == {"none"} \cup ActiveAttempt \cup {"completed", "failed"}

Job == [status : JobStatus, dup : Jobs \cup {"none"}]       \* duplicate_of
Item == [status : ItemStatus,
         hash   : Bodies \cup {"none"},                         \* content_hash
         vec    : BOOLEAN]                                      \* embeddings are stored
Attempt == [status : AttemptStatus, by : Clients \cup {"worker"}]
Run == [pc   : {"idle", "begin", "create", "extract", "embed", "complete",
                "fail_item", "cancel_item"},
        same : BOOLEAN,                     \* its session loaded the job as "processing"
        body : Bodies \cup {"none"}]
Api == [pc   : {"idle", "publish", "unpublished", "cancel", "retry"},
        key  : Jobs \cup {"none"},
        job  : JobStatus,            \* what the session loaded; "absent" in a first request
        item : ItemStatus]
Cron == [pc : {"idle", "reset", "publish"}, key : Jobs \cup {"none"}]

IdleRun == [pc |-> "idle", same |-> FALSE, body |-> "none"]
IdleCron == [pc |-> "idle", key |-> "none"]
IdleApi == [pc |-> "idle", key |-> "none", job |-> "absent", item |-> "absent"]

Init ==
    /\ job = [j \in Jobs |-> [status |-> "absent", dup |-> "none"]]
    /\ item = [j \in Jobs |-> [status |-> "absent", hash |-> "none", vec |-> FALSE]]
    /\ attempt = [j \in Jobs |-> [status |-> "none", by |-> "worker"]]
    /\ arq = [j \in Jobs |-> [t \in Tasks |-> "none"]]
    /\ run = [j \in Jobs |-> [t \in Tasks |-> IdleRun]]
    /\ api = [c \in Clients |-> IdleApi]
    /\ cron = IdleCron
    /\ asks = 0
    /\ errors = 0
    /\ faults = 0

-----------------------------------------------------------------------------
(* Helpers *)

Ask == asks < MaxAsks /\ asks' = asks + 1
Error == errors < MaxErrors /\ errors' = errors + 1
Fault == faults < MaxFaults /\ faults' = faults + 1

\* Mutant of Rivals: the hash is not compared within the tenant.
RivalsNone(j, b) == {r \in Jobs \ {j} : item[r].hash = b /\ r = j}

\* Rows other than j's that idx_items_content_hash_tenant_unique holds under body b.
Rivals(j, b) == {r \in Jobs \ {j} : item[r].hash = b /\ item[r].status # "failed"}

\* A failed row is outside the index; another status would bring it back in.
Clash(j) == item[j].status = "failed" /\ item[j].hash # "none" /\ Rivals(j, item[j].hash) # {}

Active(j) == attempt[j].status \in ActiveAttempt
Finish(j, status) == attempt' = [attempt EXCEPT ![j].status = IF Active(j) THEN status ELSE @]

\* duplicate_of is kept only for as long as the status is "duplicate".
SetJob(j, status) == job' = [job EXCEPT ![j] = [status |-> status, dup |-> "none"]]
SetItem(j, status) == item' = [item EXCEPT ![j].status = status]
Step(j, t, pc) == run' = [run EXCEPT ![j][t].pc = pc]

\* Where a task is inside the try statement of process.
Began == {"begin", "create", "extract", "embed", "complete"}

\* The result of task 0 is kept for a while; the others are never asked for.
EndTask(j, t) ==
    /\ run' = [run EXCEPT ![j][t] = IdleRun]
    /\ arq' = [arq EXCEPT ![j][t] = IF t = 0 THEN "result" ELSE "none"]

-----------------------------------------------------------------------------
(* The API *)

\* _create_item_and_job
Ingest(c, j) ==
    /\ api[c].pc = "idle" /\ job[j].status = "absent"
    /\ SetJob(j, "queued")
    /\ SetItem(j, "processing")
    /\ api' = [api EXCEPT ![c] = [pc |-> "publish", key |-> j, job |-> "absent", item |-> "absent"]]
    /\ UNCHANGED <<attempt, arq, run, cron, asks, errors, faults>>

\* enqueue_worker_job, of an ingest or of a retry.
Enqueued(j) == \E t \in Tasks \ {0} : arq[j][t] = "none" /\ arq' = [arq EXCEPT ![j][t] = "queued"]

Publish(c) ==
    /\ api[c].pc = "publish"
    /\ Enqueued(api[c].key)
    /\ api' = [api EXCEPT ![c] = IdleApi]
    /\ UNCHANGED <<job, item, attempt, run, cron, asks, errors, faults>>

\* It raises, before or after Redis has the task.
PublishError(c) ==
    /\ api[c].pc = "publish"
    /\ Enqueued(api[c].key) \/ UNCHANGED arq
    /\ api' = [api EXCEPT ![c].pc = "unpublished"]
    /\ Error
    /\ UNCHANGED <<job, item, attempt, run, cron, asks, faults>>

MarkEnqueueFailed(c) ==
    /\ api[c].pc = "unpublished" /\ api[c].job = "absent"
    /\ SetJob(api[c].key, "failed")
    /\ SetItem(api[c].key, "failed")
    /\ api' = [api EXCEPT ![c] = IdleApi]
    /\ UNCHANGED <<attempt, arq, run, cron, asks, errors, faults>>

\* The attempt of the request fails, and what its session loaded is written
\* back; an item that was "processing" then has not changed for the session.
RestoreRetryState(c) ==
    LET j == api[c].key
        refused == api[c].item \notin {"processing", "failed"} /\ Clash(j)   \* by the index
    IN
    /\ api[c].pc = "unpublished" /\ api[c].job # "absent"
    /\ \/ /\ refused
          /\ UNCHANGED <<job, item, attempt>>
       \/ /\ ~refused
          /\ SetJob(j, api[c].job)
          /\ IF api[c].item = "processing" THEN UNCHANGED item ELSE SetItem(j, api[c].item)
          /\ IF attempt[j].by = c THEN Finish(j, "failed") ELSE UNCHANGED attempt
    /\ api' = [api EXCEPT ![c] = IdleApi]
    /\ UNCHANGED <<arq, run, cron, asks, errors, faults>>

\* cancel_job: look at the row, then write.
CancelRead(c, j) ==
    /\ api[c].pc = "idle" /\ job[j].status = "queued"
    /\ api' = [api EXCEPT ![c] =
                 [pc |-> "cancel", key |-> j, job |-> "queued", item |-> item[j].status]]
    /\ Ask
    /\ UNCHANGED <<job, item, attempt, arq, run, cron, errors, faults>>

Cancel(c) ==
    LET j == api[c].key IN
    /\ api[c].pc = "cancel"
    /\ SetJob(j, "cancelled")
    /\ IF api[c].item = "processing" THEN SetItem(j, "failed") ELSE UNCHANGED item
    /\ api' = [api EXCEPT ![c] = IdleApi]
    /\ UNCHANGED <<attempt, arq, run, cron, asks, errors, faults>>

\* retry_job: look at the row, then write; create_job_attempt refuses a second
\* active attempt, the index an item that would come back as a duplicate.
RetryRead(c, j) ==
    /\ api[c].pc = "idle" /\ job[j].status \in {"failed", "cancelled"}
    /\ api' = [api EXCEPT ![c] =
                 [pc |-> "retry", key |-> j, job |-> job[j].status, item |-> item[j].status]]
    /\ Ask
    /\ UNCHANGED <<job, item, attempt, arq, run, cron, errors, faults>>

RetryRefused(j, seen) == Active(j) \/ (seen # "processing" /\ Clash(j))

Retry(c) ==
    LET j == api[c].key IN
    /\ api[c].pc = "retry"
    /\ ~RetryRefused(j, api[c].item)
    /\ SetJob(j, "queued")
    /\ IF api[c].item = "processing" THEN UNCHANGED item ELSE SetItem(j, "processing")
    /\ attempt' = [attempt EXCEPT ![j] = [status |-> "queued", by |-> c]]
    /\ api' = [api EXCEPT ![c].pc = "publish"]
    /\ UNCHANGED <<arq, run, cron, asks, errors, faults>>

RetryRaises(c) ==
    /\ api[c].pc = "retry"
    /\ RetryRefused(api[c].key, api[c].item)
    /\ api' = [api EXCEPT ![c] = IdleApi]
    /\ UNCHANGED <<job, item, attempt, arq, run, cron, asks, errors, faults>>

\* The process dies, or the request is dropped, between two steps.
ApiCrash(c) ==
    /\ api[c].pc # "idle"
    /\ api' = [api EXCEPT ![c] = IdleApi]
    /\ Fault
    /\ UNCHANGED <<job, item, attempt, arq, run, cron, asks, errors>>

-----------------------------------------------------------------------------
(* The worker: BasePipeline.process *)

\* The session keeps what it loads here; the row may change before the first commit.
Load(j, t) ==
    /\ arq[j][t] = "queued"
    /\ arq' = [arq EXCEPT ![j][t] = "running"]
    /\ run' = [run EXCEPT ![j][t] =
                 [pc |-> "begin", same |-> job[j].status = "processing", body |-> "none"]]
    /\ UNCHANGED <<job, item, attempt, api, cron, asks, errors, faults>>

\* The first commit.  A status that was "processing" already has not changed for
\* the session and is not written.
BeginWork(j, t) ==
    /\ IF run[j][t].same THEN UNCHANGED job ELSE SetJob(j, "processing")
    /\ run' = [run EXCEPT ![j][t] = [pc |-> "extract", same |-> FALSE, body |-> "none"]]

\* ensure_active_job_attempt finds the attempt of a retry or of another task, and
\* locks it.
Join(j, t) ==
    /\ run[j][t].pc = "begin"
    /\ Active(j)
    /\ BeginWork(j, t)
    /\ attempt' = [attempt EXCEPT ![j].status = "processing"]
    /\ UNCHANGED <<item, arq, api, cron, asks, errors, faults>>

\* It finds none and creates one (or fails to: Outrun).
FindNone(j, t) ==
    /\ run[j][t].pc = "begin"
    /\ ~Active(j)
    /\ Step(j, t, "create")
    /\ UNCHANGED <<job, item, attempt, arq, api, cron, asks, errors, faults>>

Create(j, t) ==
    /\ run[j][t].pc = "create"
    /\ ~Active(j)
    /\ BeginWork(j, t)
    /\ attempt' = [attempt EXCEPT ![j] = [status |-> "processing", by |-> "worker"]]
    /\ UNCHANGED <<item, arq, api, cron, asks, errors, faults>>

Start(j, t) == Load(j, t) \/ Join(j, t) \/ FindNone(j, t) \/ Create(j, t)

\* The body is extracted and nobody else has it: on to chunking and embedding.
Unique(j, t) ==
    /\ run[j][t].pc = "extract"
    /\ \E b \in Bodies :
          /\ Rivals(j, b) = {}
          /\ run' = [run EXCEPT ![j][t] = [pc |-> "embed", same |-> FALSE, body |-> b]]
    /\ UNCHANGED <<job, item, attempt, arq, api, cron, asks, errors, faults>>

\* Mutant of Duplicate: the item gets the status of its job.
DuplicateItem(j, t) ==
    /\ run[j][t].pc = "extract"
    /\ \E b \in Bodies : \E r \in Rivals(j, b) :
          job' = [job EXCEPT ![j] = [status |-> "duplicate", dup |-> r]]
    /\ SetItem(j, "duplicate")
    /\ Finish(j, "completed")
    /\ EndTask(j, t)
    /\ UNCHANGED <<api, cron, asks, errors, faults>>

Duplicate(j, t) ==
    /\ run[j][t].pc = "extract"
    /\ \E b \in Bodies : \E r \in Rivals(j, b) :
          job' = [job EXCEPT ![j] = [status |-> "duplicate", dup |-> r]]
    /\ SetItem(j, "failed")
    /\ Finish(j, "completed")
    /\ EndTask(j, t)
    /\ UNCHANGED <<api, cron, asks, errors, faults>>

\* The item and its vectors, in one commit; old vectors stay.
Store(j, t) ==
    /\ run[j][t].pc = "embed"
    /\ Rivals(j, run[j][t].body) = {}
    /\ item' = [item EXCEPT ![j] = [status |-> "ready", hash |-> run[j][t].body, vec |-> TRUE]]
    /\ Step(j, t, "complete")
    /\ UNCHANGED <<job, attempt, arq, api, cron, asks, errors, faults>>

\* Mutants of Complete: the job is committed first; the attempt stays open.
CompleteEarly(j, t) ==
    /\ run[j][t].pc \in {"embed", "complete"}
    /\ SetJob(j, "completed")
    /\ Finish(j, "completed")
    /\ EndTask(j, t)
    /\ UNCHANGED <<item, api, cron, asks, errors, faults>>

CompleteOnly(j, t) ==
    /\ run[j][t].pc = "complete"
    /\ SetJob(j, "completed")
    /\ EndTask(j, t)
    /\ UNCHANGED <<item, attempt, api, cron, asks, errors, faults>>

\* ... and the job, in the next one.
Complete(j, t) ==
    /\ run[j][t].pc = "complete"
    /\ SetJob(j, "completed")
    /\ Finish(j, "completed")
    /\ EndTask(j, t)
    /\ UNCHANGED <<item, api, cron, asks, errors, faults>>

\* The handler of every exception: the job in one commit, the item in the next.
HandleException(j, t) ==
    /\ SetJob(j, "failed")
    /\ Finish(j, "failed")
    /\ Step(j, t, "fail_item")
    /\ UNCHANGED <<item, arq, api, cron, asks, faults>>

Fail(j, t) ==
    /\ run[j][t].pc \in Began
    /\ HandleException(j, t)
    /\ Error

\* Another task was faster: the index raises, because a rival was stored since
\* the look-up, or create_job_attempt, because somebody opened an attempt meanwhile.
Outrun(j, t) ==
    /\ \/ run[j][t].pc = "embed" /\ Rivals(j, run[j][t].body) # {}
       \/ run[j][t].pc = "create" /\ Active(j)
    /\ HandleException(j, t)
    /\ UNCHANGED errors

\* Mutant of FailItem: only the job is marked.
FailItemNot(j, t) ==
    /\ run[j][t].pc = "fail_item"
    /\ EndTask(j, t)
    /\ UNCHANGED <<job, item, attempt, api, cron, asks, errors, faults>>

FailItem(j, t) ==
    /\ run[j][t].pc = "fail_item"
    /\ SetItem(j, "failed")
    /\ EndTask(j, t)
    /\ UNCHANGED <<job, attempt, api, cron, asks, errors, faults>>

\* CancelledError: the worker shuts down, or job_timeout.
Abandon(j, t) ==
    /\ run[j][t].pc \in Began
    /\ SetJob(j, "cancelled")
    /\ Finish(j, "failed")
    /\ Step(j, t, "cancel_item")
    /\ Fault
    /\ UNCHANGED <<item, arq, api, cron, asks, errors>>

\* After a shutdown ARQ runs the task again.
CancelItem(j, t) ==
    /\ run[j][t].pc = "cancel_item"
    /\ IF item[j].status = "processing" THEN SetItem(j, "failed") ELSE UNCHANGED item
    /\ \/ EndTask(j, t)
       \/ /\ run' = [run EXCEPT ![j][t] = IdleRun]
          /\ arq' = [arq EXCEPT ![j][t] = "queued"]
    /\ UNCHANGED <<job, attempt, api, cron, asks, errors, faults>>

\* A killed worker: ARQ runs the task again when its in-progress key expires.
WorkerCrash(j, t) ==
    /\ arq[j][t] = "running"
    /\ run' = [run EXCEPT ![j][t] = IdleRun]
    /\ arq' = [arq EXCEPT ![j][t] = "queued"]
    /\ Fault
    /\ UNCHANGED <<job, item, attempt, api, cron, asks, errors>>

QueueLoss(j, t) ==
    /\ arq[j][t] = "queued"
    /\ arq' = [arq EXCEPT ![j][t] = "none"]
    /\ Fault
    /\ UNCHANGED <<job, item, attempt, run, api, cron, asks, errors>>

\* keep_result
ForgetResult(j) ==
    /\ arq[j][0] = "result"
    /\ arq' = [arq EXCEPT ![j][0] = "none"]
    /\ UNCHANGED <<job, item, attempt, run, api, cron, asks, errors, faults>>

-----------------------------------------------------------------------------
(* requeue_stale_jobs *)

\* Mutant of Stale: only what a worker took.
StaleProcessingOnly(j) == job[j].status = "processing"

\* Only a requeue writes created_at, and nothing bounds how long a job waits in
\* the queue: whatever is queued or processing may be old enough.
Stale(j) == job[j].status \in {"queued", "processing"}

\* The row is stale and, by _stale_job_is_requeueable, its id is free in ARQ.
Check(j) ==
    /\ cron.pc = "idle"
    /\ Stale(j) /\ arq[j][0] = "none"
    /\ cron' = [pc |-> "reset", key |-> j]
    /\ UNCHANGED <<job, item, attempt, arq, run, api, asks, errors, faults>>

Reset ==
    LET j == cron.key IN
    /\ cron.pc = "reset"
    /\ ~Clash(j)
    /\ SetJob(j, "queued")
    /\ SetItem(j, "processing")
    /\ cron' = [cron EXCEPT !.pc = "publish"]
    /\ UNCHANGED <<attempt, arq, run, api, asks, errors, faults>>

\* The row has no payload and its file or text is gone: only the job is marked.
ResetFails ==
    /\ cron.pc = "reset"
    /\ SetJob(cron.key, "failed")
    /\ cron' = IdleCron
    /\ Fault
    /\ UNCHANGED <<item, attempt, arq, run, api, asks, errors>>

\* The index refuses the item, and the exception ends the round.
ResetRefused ==
    /\ cron.pc = "reset"
    /\ Clash(cron.key)
    /\ cron' = IdleCron
    /\ UNCHANGED <<job, item, attempt, arq, run, api, asks, errors, faults>>

\* enqueue_job with the id of the job does nothing when the id is in use.
Requeue ==
    LET j == cron.key IN
    /\ cron.pc = "publish"
    /\ arq' = [arq EXCEPT ![j][0] = IF @ = "none" THEN "queued" ELSE @]
    /\ cron' = IdleCron
    /\ UNCHANGED <<job, item, attempt, run, api, asks, errors, faults>>

CronCrash ==
    /\ cron.pc # "idle"
    /\ cron' = IdleCron
    /\ Fault
    /\ UNCHANGED <<job, item, attempt, arq, run, api, asks, errors>>

-----------------------------------------------------------------------------
(* Specification *)

Request(c) == \E j \in Jobs : Ingest(c, j) \/ CancelRead(c, j) \/ RetryRead(c, j)
RequestStep(c) ==
    \/ Publish(c) \/ MarkEnqueueFailed(c) \/ RestoreRetryState(c)
    \/ Cancel(c) \/ Retry(c) \/ RetryRaises(c)
WorkerStep(j, t) ==
    \/ Start(j, t) \/ Unique(j, t) \/ Duplicate(j, t) \/ Store(j, t) \/ Outrun(j, t)
    \/ Complete(j, t) \/ FailItem(j, t) \/ CancelItem(j, t)
WorkerFault(j, t) == Fail(j, t) \/ Abandon(j, t) \/ WorkerCrash(j, t) \/ QueueLoss(j, t)
CronStep == Reset \/ ResetRefused \/ Requeue

Next ==
    \/ \E c \in Clients : Request(c) \/ RequestStep(c) \/ PublishError(c) \/ ApiCrash(c)
    \/ \E j \in Jobs, t \in Tasks : WorkerStep(j, t) \/ WorkerFault(j, t)
    \/ \E j \in Jobs : ForgetResult(j) \/ Check(j)
    \/ CronStep \/ ResetFails \/ CronCrash

Spec == Init /\ [][Next]_vars

\* A request that runs goes on, the worker takes and runs what is queued, results
\* expire, and the cron comes every fifteen minutes.
Fairness ==
    /\ \A c \in Clients : WF_vars(RequestStep(c))
    /\ \A j \in Jobs, t \in Tasks : WF_vars(WorkerStep(j, t))
    /\ \A j \in Jobs : WF_vars(ForgetResult(j))
    /\ \A j \in Jobs : SF_vars(Check(j))
    /\ WF_vars(CronStep)

FairSpec == Spec /\ Fairness

-----------------------------------------------------------------------------
(* Properties *)

TypeOK ==
    /\ job \in [Jobs -> Job]
    /\ item \in [Jobs -> Item]
    /\ attempt \in [Jobs -> Attempt]
    /\ arq \in [Jobs -> [Tasks -> {"none", "queued", "running", "result"}]]
    /\ run \in [Jobs -> [Tasks -> Run]]
    /\ api \in [Clients -> Api]
    /\ cron \in Cron
    /\ asks \in 0 .. MaxAsks
    /\ errors \in 0 .. MaxErrors
    /\ faults \in 0 .. MaxFaults

\* What a job says it stored is there.  A completed job has vectors for its
\* own item, a duplicate has them for the item that it names: whatever
\* concurrent tasks, cancellations, retries, requeues and crashes did to its
\* rows since.  (base.py commits the item before it commits the job.)
SettledIsStored ==
    \A j \in Jobs : /\ job[j].status = "completed" => item[j].vec
                    /\ job[j].status = "duplicate" => item[job[j].dup].vec

\* Two items of a tenant that can be searched never have the same content:
\* the look-up before chunking, the index, and the statuses that cancel, retry
\* and requeue write, together.
OneReadyPerBody ==
    \A j, r \in Jobs : /\ item[j].status = "ready" /\ item[r].status = "ready"
                       /\ item[j].hash = item[r].hash
                       => j = r

\* An attempt in progress has a task that will close it, and never loses the last
\* one: several tasks share it, any of them may close it, open the next one beside a
\* job that is completed already, crash or be aborted, and only with the queue
\* itself is it abandoned.  (What is left open refuses every later retry.)
Attended(j) ==
    \E t \in Tasks : arq[j][t] = "queued" \/ run[j][t].pc \in Began
Abandoned(j) == attempt[j].status = "processing" /\ ~Attended(j)
Lost(j) == \E t \in Tasks : arq[j][t] = "queued" /\ arq'[j][t] = "none"
AttemptIsAttended ==
    [][\A j \in Jobs : Abandoned(j)' => Abandoned(j) \/ Lost(j)]_vars

\* Whatever is queued or processing ends, after any crash, restart or loss of
\* the queue: the worker or requeue_stale_jobs sees to it.
EventuallySettled ==
    \A j \in Jobs : job[j].status \in {"queued", "processing"}
                        ~> job[j].status \notin {"queued", "processing"}

\* An item does not stay "processing": as long as only tasks and the enqueues of
\* the API fail, it comes to be ready or failed, however the steps of its tasks,
\* its owner's requests and the cron interleave.
ItemSettles ==
    \A j \in Jobs : item[j].status = "processing" /\ faults = 0
                        ~> item[j].status # "processing" \/ faults > 0

=============================================================================
