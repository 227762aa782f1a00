----------------------------- MODULE MemoryJobs -----------------------------
(***************************************************************************)
(* The life of a durable memory job: POST /memory/entries accepts it,      *)
(* stamps an ARQ generation and publishes it; the default worker runs      *)
(* memory_artifact; the client may replay the same idempotency key, an     *)
(* operator may retry; a cron recovers jobs whose ARQ state disappeared.   *)
(*                                                                         *)
(* Every step below is one database transaction or one Redis call.  What a *)
(* SQLAlchemy session loaded stays in the session after its commit         *)
(* (database.py: expire_on_commit=False) and an ORM assignment is written  *)
(* only when it differs from the loaded value, so each process keeps what  *)
(* it saw.                                                                 *)
(***************************************************************************)
EXTENDS Integers

CONSTANTS Keys,         \* idempotency keys of one tenant; one job per key
          Contents,     \* bodies of memory entries
          ContentOf,    \* the body submitted under each key
          Clients,      \* API requests in flight
          Editable,     \* bound: the keys whose item an edit may empty
          MaxGen,       \* bound: last ARQ generation of a job
          MaxAttempts,  \* bound: durable attempts of a job
          MaxFaults     \* bound: crashes, timeouts, lost queue entries, errors

ASSUME ContentAssumption == ContentOf \in [Keys -> Contents]
ASSUME BoundAssumption == /\ MaxGen \in Nat
                          /\ MaxAttempts \in Nat
                          /\ MaxFaults \in Nat

VARIABLES job,       \* jobs rows
          item,      \* items rows, with their embeddings
          age,       \* 0: younger than 20 min, 1: than 30 min, 2: older
          attempts,  \* job_attempts rows of each job, by attempt_number
          arq,       \* ARQ state of the deterministic id memory-artifact:k:g
          run,       \* worker execution of that ARQ job
          api,       \* API requests
          rec,       \* the recover_stale_memory_jobs cron
          faults     \* faults so far

vars == <<job, item, age, attempts, arq, run, api, rec, faults>>

-----------------------------------------------------------------------------
(* Types *)

Gens == 0 .. MaxGen
NoKey == "no-key"
JobStatus == {"absent", "queued", "processing", "completed", "duplicate", "failed"}
ItemStatus == {"absent", "processing", "ready", "failed"}
ArqStatus == {"none", "queued", "running", "result"}
ActiveAttempt == {"queued", "processing"}
TerminalAttempt == {"completed", "failed", "dead_lettered"}
AttemptStatus == {"none"} \cup ActiveAttempt \cup TerminalAttempt
Numbers == 1 .. MaxAttempts             \* attempt_number

Job == [status : JobStatus,
        gen    : -1 .. MaxGen,          \* payload.memory_arq_generation
        dep    : BOOLEAN,               \* payload.contract_status = dependency_unavailable
        dup    : Keys \cup {NoKey}]     \* duplicate_of
Item == [status : ItemStatus,
         src    : BOOLEAN,              \* raw_content is not empty
         hash   : BOOLEAN,              \* content_hash is stored
         vec    : BOOLEAN]              \* embeddings are stored
Run == [pc   : {"idle", "dedupe", "embed", "final"},
        seen : ItemStatus,              \* item.status in the worker's session
        hash : BOOLEAN]                 \* content_hash in the worker's session
Api == [pc  : {"idle", "stamp", "publish", "unavail"},
        key : Keys \cup {NoKey},
        gen : -1 .. MaxGen,
        dep : BOOLEAN]
Rec == [pc   : {"idle", "lock", "publish", "write", "abort"},
        key  : Keys \cup {NoKey},
        gen  : -1 .. MaxGen,            \* payload generation seen
        dep  : BOOLEAN,
        job  : JobStatus,               \* job.status under the row lock
        item : ItemStatus,              \* item.status under the row lock
        att  : 0 .. MaxAttempts]        \* the recovery attempt

IdleRun == [pc |-> "idle", seen |-> "absent", hash |-> FALSE]
IdleApi == [pc |-> "idle", key |-> NoKey, gen |-> -1, dep |-> FALSE]
IdleRec == [pc |-> "idle", key |-> NoKey, gen |-> -1, dep |-> FALSE,
            job |-> "absent", item |-> "absent", att |-> 0]

Init ==
    /\ job = [k \in Keys |-> [status |-> "absent", gen |-> -1, dep |-> FALSE, dup |-> NoKey]]
    /\ item = [k \in Keys |-> [status |-> "absent", src |-> FALSE, hash |-> FALSE, vec |-> FALSE]]
    /\ age = [k \in Keys |-> 0]
    /\ attempts = [k \in Keys |-> [n \in Numbers |-> "none"]]
    /\ arq = [k \in Keys |-> [g \in Gens |-> "none"]]
    /\ run = [k \in Keys |-> [g \in Gens |-> IdleRun]]
    /\ api = [c \in Clients |-> IdleApi]
    /\ rec = IdleRec
    /\ faults = 0

-----------------------------------------------------------------------------
(* Helpers *)

\* Mutant of Stale: queued rows are never stale.
StaleProcessingOnly(k) == job[k].status = "processing" /\ age[k] >= 1

Stale(k) == \/ job[k].status = "processing" /\ age[k] >= 1
            \/ job[k].status = "queued" /\ age[k] = 2

\* idx_items_content_hash_tenant_unique holds the rows that have a hash and
\* are not failed: another row of it has the hash of k's content.
Indexed(k) == item[k].hash /\ item[k].status \notin {"absent", "failed"}

\* Mutants of Rivals: a hash namespaced by the item, and a missing Item.id != item.id.
RivalsNamespaced(k) == {r \in Keys : r # r}
RivalsWithSelf(k) == {r \in Keys : ContentOf[r] = ContentOf[k] /\ Indexed(r)}

Rivals(k) == {r \in Keys \ {k} : ContentOf[r] = ContentOf[k] /\ Indexed(r)}
Clash(k) == item[k].hash /\ Rivals(k) # {}

\* An ARQ id is free when neither its job key nor its result exists.
Free(k, g) == arq[k][g] = "none"

HasActive(as) == \E n \in Numbers : as[n] \in ActiveAttempt
ActiveNumber(as) == CHOOSE n \in Numbers : as[n] \in ActiveAttempt

\* _finish_attempt: terminal attempts are immutable.
Finish(as, n, status) ==
    IF as[n] \in ActiveAttempt THEN [as EXCEPT ![n] = status] ELSE as

\* Mutant of FinishActive: closes the latest attempt, active or not.
FinishLatest(as, status) ==
    [n \in Numbers |->
        IF as[n] # "none" /\ (n = MaxAttempts \/ as[n + 1] = "none") THEN status ELSE as[n]]

FinishActive(as, status) ==
    IF HasActive(as) THEN Finish(as, ActiveNumber(as), status) ELSE as

\* The next attempt_number.
Fresh(as, n) == as[n] = "none" /\ \A m \in 1 .. n - 1 : as[m] # "none"
NextNumber(as) == CHOOSE n \in Numbers : Fresh(as, n)
HasNumber(as) == \E n \in Numbers : Fresh(as, n)

\* Mutant of CanCreate: no look-up of the active attempt.
CanCreateUnchecked(as) == HasNumber(as)

\* create_job_attempt, under the lock of the parent job row.
CanCreate(as) == ~HasActive(as) /\ HasNumber(as)
Create(as) == [as EXCEPT ![NextNumber(as)] = "queued"]

\* payload.memory_arq_job_id, or generation 0 when it is missing.
RecGen(g) == IF g = -1 THEN 0 ELSE g

CanFault == faults < MaxFaults
Fault == CanFault /\ faults' = faults + 1

-----------------------------------------------------------------------------
(* Environment: time, ARQ retention, item edits *)

\* created_at recedes; nothing ever refreshes it.
Age(k) ==
    /\ job[k].status # "absent"
    /\ age[k] < 2
    /\ age' = [age EXCEPT ![k] = @ + 1]
    /\ UNCHANGED <<job, item, attempts, arq, run, api, rec, faults>>

\* ARQ drops a result after keep_result (3600 s) and the id is free again.  A
\* cron run lasts at most job_timeout (1800 s), so a result that appeared
\* since the run found the id free outlives the run.
ForgetResult(k, g) ==
    /\ arq[k][g] = "result"
    /\ ~(rec.pc # "idle" /\ rec.key = k /\ RecGen(rec.gen) = g)
    /\ arq' = [arq EXCEPT ![k][g] = "none"]
    /\ UNCHANGED <<job, item, age, attempts, run, api, rec, faults>>

\* Redis loses a job that waits in the queue.
QueueLoss(k, g) ==
    /\ arq[k][g] = "queued"
    /\ arq' = [arq EXCEPT ![k][g] = "none"]
    /\ Fault
    /\ UNCHANGED <<job, item, age, attempts, run, api, rec>>

\* PATCH /items/{id} with an empty raw_content.
ClearContent(k) ==
    /\ k \in Editable
    /\ item[k].src
    /\ item' = [item EXCEPT ![k] = [status |-> "ready", src |-> FALSE, hash |-> FALSE, vec |-> FALSE]]
    /\ Fault
    /\ UNCHANGED <<job, age, attempts, arq, run, api, rec>>

-----------------------------------------------------------------------------
(* API requests *)

\* The request leaves the transaction with a refreshed job row.
ToStamp(c, k, dep) ==
    /\ job[k].gen < MaxGen
    /\ api' = [api EXCEPT ![c] = [pc |-> "stamp", key |-> k, gen |-> job[k].gen, dep |-> dep]]

\* accept_memory_entry on an unused idempotency key.
AcceptNew(c, k) ==
    /\ api[c].pc = "idle"
    /\ job[k].status = "absent"
    /\ job' = [job EXCEPT ![k].status = "queued"]
    /\ item' = [item EXCEPT ![k].status = "processing", ![k].src = TRUE]
    /\ ToStamp(c, k, FALSE)
    /\ UNCHANGED <<age, attempts, arq, run, rec, faults>>

\* A replay of the key revives a stale job ...
ReviveStale(c, k) ==
    /\ api[c].pc = "idle"
    /\ Stale(k) /\ item[k].src
    /\ ~Clash(k)
    /\ job' = [job EXCEPT ![k].status = "queued"]
    /\ item' = [item EXCEPT ![k].status = "processing"]
    /\ ToStamp(c, k, job[k].dep)
    /\ UNCHANGED <<age, attempts, arq, run, rec, faults>>

\* ... or one whose publication failed.  Any other replay changes nothing.
ReviveUnavailable(c, k) ==
    /\ api[c].pc = "idle"
    /\ job[k].status = "failed" /\ job[k].dep /\ item[k].src
    /\ ~Clash(k)
    /\ job' = [job EXCEPT ![k].status = "queued", ![k].dep = FALSE]
    /\ item' = [item EXCEPT ![k].status = "processing"]
    /\ ToStamp(c, k, FALSE)
    /\ UNCHANGED <<age, attempts, arq, run, rec, faults>>

\* POST /memory/jobs/{id}/retry: refused while an attempt is active.
Retry(c, k) ==
    /\ api[c].pc = "idle"
    /\ job[k].status = "failed" /\ item[k].src
    /\ CanCreate(attempts[k])
    /\ ~Clash(k)
    /\ attempts' = [attempts EXCEPT ![k] = Create(@)]
    /\ job' = [job EXCEPT ![k].status = "queued", ![k].dep = FALSE, ![k].dup = NoKey]
    /\ item' = [item EXCEPT ![k].status = "processing"]
    /\ ToStamp(c, k, FALSE)
    /\ UNCHANGED <<age, arq, run, rec, faults>>

\* _enqueue_memory_job_or_raise commits the next generation over the payload
\* the request loaded.
Stamp(c) ==
    /\ api[c].pc = "stamp"
    /\ api[c].gen < MaxGen
    /\ LET k == api[c].key
           g == api[c].gen + 1
       IN /\ job' = [job EXCEPT ![k].gen = g, ![k].dep = api[c].dep]
          /\ api' = [api EXCEPT ![c].pc = "publish", ![c].gen = g]
    /\ UNCHANGED <<item, age, attempts, arq, run, rec, faults>>

\* enqueue_tenant_job returns a job.
Publish(c) ==
    /\ api[c].pc = "publish"
    /\ Free(api[c].key, api[c].gen)
    /\ arq' = [arq EXCEPT ![api[c].key][api[c].gen] = "queued"]
    /\ api' = [api EXCEPT ![c] = IdleApi]
    /\ UNCHANGED <<job, item, age, attempts, run, rec, faults>>

\* enqueue_tenant_job returns None: the id is taken.
PublishTaken(c) ==
    /\ api[c].pc = "publish"
    /\ ~Free(api[c].key, api[c].gen)
    /\ api' = [api EXCEPT ![c].pc = "unavail"]
    /\ UNCHANGED <<job, item, age, attempts, arq, run, rec, faults>>

\* enqueue_tenant_job raises; its Redis write may or may not have happened.
PublishError(c) ==
    /\ api[c].pc = "publish"
    /\ \/ arq' = arq
       \/ /\ Free(api[c].key, api[c].gen)
          /\ arq' = [arq EXCEPT ![api[c].key][api[c].gen] = "queued"]
    /\ api' = [api EXCEPT ![c].pc = "unavail"]
    /\ Fault
    /\ UNCHANGED <<job, item, age, attempts, run, rec>>

\* _mark_memory_enqueue_unavailable
MarkUnavailable(c) ==
    /\ api[c].pc = "unavail"
    /\ LET k == api[c].key
       IN /\ attempts' = [attempts EXCEPT ![k] = FinishActive(@, "failed")]
          /\ job' = [job EXCEPT ![k].status = "failed", ![k].gen = api[c].gen, ![k].dep = TRUE]
    /\ api' = [api EXCEPT ![c] = IdleApi]
    /\ UNCHANGED <<item, age, arq, run, rec, faults>>

\* The API process dies between two commits.
ApiCrash(c) ==
    /\ api[c].pc # "idle"
    /\ api' = [api EXCEPT ![c] = IdleApi]
    /\ Fault
    /\ UNCHANGED <<job, item, age, attempts, arq, run, rec>>

-----------------------------------------------------------------------------
(* Worker: memory_artifact -> process_prebuilt_item *)

EndRun(k, g) ==
    /\ arq' = [arq EXCEPT ![k][g] = "result"]
    /\ run' = [run EXCEPT ![k][g] = IdleRun]

\* Load the rows and commit status=processing.
Start(k, g) ==
    /\ arq[k][g] = "queued"
    /\ item[k].src
    /\ arq' = [arq EXCEPT ![k][g] = "running"]
    /\ run' = [run EXCEPT ![k][g] = [pc |-> "dedupe", seen |-> item[k].status, hash |-> item[k].hash]]
    /\ job' = [job EXCEPT ![k].status = "processing"]
    /\ UNCHANGED <<item, age, attempts, api, rec, faults>>

\* An item without raw_content raises before the try block: nothing is stored.
StartNoSource(k, g) ==
    /\ arq[k][g] = "queued"
    /\ ~item[k].src
    /\ arq' = [arq EXCEPT ![k][g] = "result"]
    /\ UNCHANGED <<job, item, age, attempts, run, api, rec, faults>>

\* Another row holds the content: the item fails, the job is a duplicate.
Dedupe(k, g) ==
    /\ run[k][g].pc = "dedupe"
    /\ \E r \in Rivals(k) :
          job' = [job EXCEPT ![k].status = "duplicate", ![k].dup = r]
    /\ item' = IF run[k][g].seen = "failed" THEN item
               ELSE [item EXCEPT ![k].status = "failed"]
    /\ EndRun(k, g)
    /\ UNCHANGED <<age, attempts, api, rec, faults>>

\* No rival: the worker awaits the embedding provider.
Embed(k, g) ==
    /\ run[k][g].pc = "dedupe"
    /\ Rivals(k) = {}
    /\ run' = [run EXCEPT ![k][g].pc = "embed"]
    /\ UNCHANGED <<job, item, age, attempts, arq, api, rec, faults>>

\* Mutant of StoreHash: the progress commit already publishes the item.
StoreHashAndPublish(k, g) ==
    /\ run[k][g].pc = "embed"
    /\ Rivals(k) = {}
    /\ item' = [item EXCEPT ![k].hash = TRUE, ![k].status = "ready"]
    /\ run' = [run EXCEPT ![k][g].pc = "final", ![k][g].hash = TRUE]
    /\ UNCHANGED <<job, age, attempts, arq, api, rec, faults>>

\* The provider answered: content_hash is stored by the progress commit,
\* which fails when a rival stored the same hash during the await.
StoreHash(k, g) ==
    /\ run[k][g].pc = "embed"
    /\ \/ run[k][g].hash
       \/ Rivals(k) = {}
       \/ item[k].status = "failed"
    /\ item' = IF run[k][g].hash THEN item ELSE [item EXCEPT ![k].hash = TRUE]
    /\ run' = [run EXCEPT ![k][g].pc = "final", ![k][g].hash = TRUE]
    /\ UNCHANGED <<job, age, attempts, arq, api, rec, faults>>

\* item.status = "ready" is written unless the session loaded "ready".
ReadyItem(k, g) == IF run[k][g].seen = "ready" THEN item[k].status ELSE "ready"
FinalClash(k, g) == /\ item[k].hash
                    /\ ReadyItem(k, g) # "failed"
                    /\ Rivals(k) # {}

\* Mutant of Final: the item's status is stored in the job.
FinalStatusMixUp(k, g) ==
    /\ run[k][g].pc = "final"
    /\ ~FinalClash(k, g)
    /\ item' = [item EXCEPT ![k].status = ReadyItem(k, g), ![k].vec = TRUE]
    /\ job' = [job EXCEPT ![k].status = "ready"]
    /\ EndRun(k, g)
    /\ UNCHANGED <<age, attempts, api, rec, faults>>

\* One commit: item ready, embeddings replaced, job completed.
Final(k, g) ==
    /\ run[k][g].pc = "final"
    /\ ~FinalClash(k, g)
    /\ item' = [item EXCEPT ![k].status = ReadyItem(k, g), ![k].vec = TRUE]
    /\ job' = [job EXCEPT ![k].status = "completed"]
    /\ EndRun(k, g)
    /\ UNCHANGED <<age, attempts, api, rec, faults>>

\* The except branch: rollback, reload, item and job failed.
StoreFailure(k, g) ==
    /\ item' = [item EXCEPT ![k].status = "failed"]
    /\ job' = [job EXCEPT ![k].status = "failed"]
    /\ EndRun(k, g)
    /\ UNCHANGED <<age, attempts, api, rec>>

\* The database refuses a commit: the unique index on content_hash.
FailOnClash(k, g) ==
    /\ \/ /\ run[k][g].pc = "embed"
          /\ ~run[k][g].hash /\ Rivals(k) # {} /\ item[k].status # "failed"
       \/ run[k][g].pc = "final" /\ FinalClash(k, g)
    /\ StoreFailure(k, g)
    /\ UNCHANGED faults

\* The provider, or any commit, raises.
FailOnError(k, g) ==
    /\ run[k][g].pc # "idle"
    /\ StoreFailure(k, g)
    /\ Fault

\* job_timeout cancels the task, or the failure itself cannot be stored: ARQ
\* keeps a result and the rows stay as they are.
Abandon(k, g) ==
    /\ run[k][g].pc # "idle"
    /\ EndRun(k, g)
    /\ Fault
    /\ UNCHANGED <<job, item, age, attempts, api, rec>>

\* The worker process dies: ARQ runs the job again.
WorkerCrash(k, g) ==
    /\ run[k][g].pc # "idle"
    /\ arq' = [arq EXCEPT ![k][g] = "queued"]
    /\ run' = [run EXCEPT ![k][g] = IdleRun]
    /\ Fault
    /\ UNCHANGED <<job, item, age, attempts, api, rec>>

-----------------------------------------------------------------------------
(* Cron: recover_stale_memory_jobs, one stale row at a time *)

\* A stale row whose ARQ id is not found.
Scan(k) ==
    /\ rec.pc = "idle"
    /\ Stale(k)
    /\ Free(k, RecGen(job[k].gen))
    /\ rec' = [IdleRec EXCEPT !.pc = "lock", !.key = k, !.gen = job[k].gen]
    /\ UNCHANGED <<job, item, age, attempts, arq, run, api, faults>>

RecValid == Stale(rec.key) /\ RecGen(job[rec.key].gen) = RecGen(rec.gen)

\* Under the row lock the row is no longer stale, or its generation advanced.
LockSkip ==
    /\ rec.pc = "lock"
    /\ ~RecValid
    /\ rec' = IdleRec
    /\ UNCHANGED <<job, item, age, attempts, arq, run, api, faults>>

\* Under the row lock the source is gone.
LockDeadLetter ==
    /\ rec.pc = "lock"
    /\ RecValid
    /\ ~item[rec.key].src
    /\ attempts' = [attempts EXCEPT ![rec.key] = FinishActive(@, "dead_lettered")]
    /\ job' = [job EXCEPT ![rec.key].status = "failed"]
    /\ rec' = IdleRec
    /\ UNCHANGED <<item, age, arq, run, api, faults>>

\* Under the row lock: close the previous attempt, record the recovery
\* attempt, commit.  The commit releases the lock.
LockRecord ==
    /\ rec.pc = "lock"
    /\ RecValid
    /\ item[rec.key].src
    /\ LET k == rec.key
           closed == FinishActive(attempts[k], "failed")
       IN /\ CanCreate(closed)
          /\ attempts' = [attempts EXCEPT ![k] = Create(closed)]
          /\ rec' = [rec EXCEPT !.pc = "publish", !.gen = job[k].gen, !.dep = job[k].dep,
                                !.job = job[k].status, !.item = item[k].status,
                                !.att = NextNumber(closed)]
    /\ UNCHANGED <<job, item, age, arq, run, api, faults>>

RecPublish ==
    /\ rec.pc = "publish"
    /\ Free(rec.key, RecGen(rec.gen))
    /\ arq' = [arq EXCEPT ![rec.key][RecGen(rec.gen)] = "queued"]
    /\ rec' = [rec EXCEPT !.pc = "write"]
    /\ UNCHANGED <<job, item, age, attempts, run, api, faults>>

RecPublishTaken ==
    /\ rec.pc = "publish"
    /\ ~Free(rec.key, RecGen(rec.gen))
    /\ rec' = [rec EXCEPT !.pc = "abort"]
    /\ UNCHANGED <<job, item, age, attempts, arq, run, api, faults>>

RecPublishError ==
    /\ rec.pc = "publish"
    /\ \/ arq' = arq
       \/ /\ Free(rec.key, RecGen(rec.gen))
          /\ arq' = [arq EXCEPT ![rec.key][RecGen(rec.gen)] = "queued"]
    /\ rec' = [rec EXCEPT !.pc = "abort"]
    /\ Fault
    /\ UNCHANGED <<job, item, age, attempts, run, api>>

\* The recovery attempt failed to enqueue.
RecAbort ==
    /\ rec.pc = "abort"
    /\ attempts' = [attempts EXCEPT ![rec.key] = Finish(@, rec.att, "failed")]
    /\ rec' = IdleRec
    /\ UNCHANGED <<job, item, age, arq, run, api, faults>>

\* The closing commit writes what differs from the rows seen under the lock.
RecWriteItem(k) == IF rec.item = "processing" THEN item[k].status ELSE "processing"
RecWriteJob(k) ==
    [status |-> IF rec.job = "queued" THEN job[k].status ELSE "queued",
     gen    |-> IF rec.gen = -1 THEN 0 ELSE job[k].gen,
     dep    |-> IF rec.gen = -1 THEN rec.dep ELSE job[k].dep,
     dup    |-> job[k].dup]
RecWriteClash(k) == /\ item[k].hash
                    /\ RecWriteItem(k) # "failed"
                    /\ Rivals(k) # {}

RecWrite ==
    /\ rec.pc = "write"
    /\ ~RecWriteClash(rec.key)
    /\ item' = [item EXCEPT ![rec.key].status = RecWriteItem(rec.key)]
    /\ job' = [job EXCEPT ![rec.key] = RecWriteJob(rec.key)]
    /\ rec' = IdleRec
    /\ UNCHANGED <<age, attempts, arq, run, api, faults>>

\* The unique index refuses the closing commit.
RecWriteRefused ==
    /\ rec.pc = "write"
    /\ RecWriteClash(rec.key)
    /\ rec' = IdleRec
    /\ UNCHANGED <<job, item, age, attempts, arq, run, api, faults>>

RecCrash ==
    /\ rec.pc # "idle"
    /\ rec' = IdleRec
    /\ Fault
    /\ UNCHANGED <<job, item, age, attempts, arq, run, api>>

-----------------------------------------------------------------------------
(* Specification *)

Environment ==
    \/ \E k \in Keys : Age(k) \/ ClearContent(k)
    \/ \E k \in Keys, g \in Gens : ForgetResult(k, g) \/ QueueLoss(k, g)

Request(c) ==
    \/ \E k \in Keys : \/ AcceptNew(c, k) \/ ReviveStale(c, k)
                       \/ ReviveUnavailable(c, k) \/ Retry(c, k)
    \/ ApiCrash(c)

\* A request that was let in runs to its end.
RequestStep(c) ==
    Stamp(c) \/ Publish(c) \/ PublishTaken(c) \/ PublishError(c) \/ MarkUnavailable(c)

WorkerStep(k, g) ==
    \/ Start(k, g) \/ StartNoSource(k, g)
    \/ Dedupe(k, g) \/ Embed(k, g) \/ StoreHash(k, g) \/ Final(k, g)
    \/ FailOnClash(k, g)

WorkerFault(k, g) == FailOnError(k, g) \/ Abandon(k, g) \/ WorkerCrash(k, g)

RecoveryStep ==
    \/ LockSkip \/ LockDeadLetter \/ LockRecord
    \/ RecPublish \/ RecPublishTaken \/ RecPublishError \/ RecAbort
    \/ RecWrite \/ RecWriteRefused

Next ==
    \/ Environment
    \/ \E c \in Clients : Request(c) \/ RequestStep(c)
    \/ \E k \in Keys, g \in Gens : WorkerStep(k, g) \/ WorkerFault(k, g)
    \/ \E k \in Keys : Scan(k)
    \/ RecoveryStep
    \/ RecCrash

Spec == Init /\ [][Next]_vars

\* Time passes, results expire, a request that was let in finishes, workers
\* take what is queued and the cron keeps visiting every stale row.  Faults,
\* new requests and item edits are never forced.
Fairness ==
    /\ \A k \in Keys : WF_vars(Age(k)) /\ WF_vars(Scan(k))
    /\ \A k \in Keys, g \in Gens : WF_vars(ForgetResult(k, g)) /\ WF_vars(WorkerStep(k, g))
    /\ \A c \in Clients : WF_vars(RequestStep(c))
    /\ WF_vars(RecoveryStep)

FairSpec == Spec /\ Fairness

-----------------------------------------------------------------------------
(* Properties *)

TypeOK ==
    /\ job \in [Keys -> Job]
    /\ item \in [Keys -> Item]
    /\ age \in [Keys -> 0 .. 2]
    /\ attempts \in [Keys -> [Numbers -> AttemptStatus]]
    /\ arq \in [Keys -> [Gens -> ArqStatus]]
    /\ run \in [Keys -> [Gens -> Run]]
    /\ api \in [Clients -> Api]
    /\ rec \in Rec
    /\ faults \in 0 .. MaxFaults

\* An item that search may return (status ready, with a body) has its
\* embeddings, whatever retries, replays and recoveries overlap: ready, the
\* vectors and the completed job are one commit.
ReadyHasVectors ==
    \A k \in Keys : item[k].status = "ready" /\ item[k].src => item[k].vec

\* Two entries with one body are never both searchable: a race of two workers
\* past the duplicate check ends at the unique index.
OneReadyPerBody ==
    \A k, r \in Keys :
        /\ k # r /\ ContentOf[k] = ContentOf[r]
        /\ item[k].src /\ item[r].src
        => ~(item[k].status = "ready" /\ item[r].status = "ready")

\* The item whose row holds a body in the unique index keeps it against every
\* other copy: no duplicate check, retry, replay or recovery, of its own job or
\* of another, takes it out of the index or closes its job as a duplicate.
\* Only an error of its own worker (the job fails in the same commit) or an
\* edit that empties it does.  (A duplicate check and its outcome are one step.)
HolderStep ==
    \A k \in Keys :
        Indexed(k) =>
            /\ \/ Indexed(k)'
               \/ /\ faults' > faults
                  /\ job'[k].status = "failed" \/ ~item'[k].src
            /\ job[k].status # "duplicate" => job'[k].status # "duplicate"
HolderKeepsBody == [][HolderStep]_vars

\* A job has at most one active attempt, although requests and the cron both
\* open attempts: the parent row lock and the check serialise them.
OneActiveAttempt ==
    \A k \in Keys : \A n, m \in Numbers :
        /\ attempts[k][n] \in ActiveAttempt
        /\ attempts[k][m] \in ActiveAttempt
        => n = m

\* The attempt ledger is append-only and a terminal attempt is immutable.
LedgerStep ==
    \A k \in Keys : \A n \in Numbers :
        /\ attempts[k][n] \in TerminalAttempt => attempts'[k][n] = attempts[k][n]
        /\ attempts[k][n] \in ActiveAttempt => attempts'[k][n] # "none"
LedgerImmutable == [][LedgerStep]_vars

\* An accepted job is settled in the end, and stays settled, when faults and
\* requests end: crashes, lost queue entries and timeouts only delay it.
Settled(k) == job[k].status \in {"completed", "duplicate", "failed"}
EventuallySettled ==
    \A k \in Keys : job[k].status = "queued" ~> []Settled(k)

=============================================================================
