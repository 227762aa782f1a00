----------------------------- MODULE TenantQueue -----------------------------
(***************************************************************************)
(* The queue barrier of one tenant, and the two operations that close it:  *)
(* the erasure of the tenant and the hard deletion of one item.            *)
(*                                                                         *)
(* Redis holds a lock with a token and a time to live, and a marker that   *)
(* says the tenant's queue is closed; PostgreSQL holds the rows and the    *)
(* erasure state; the file system holds the tenant's artifact directory.   *)
(***************************************************************************)
EXTENDS Integers

CONSTANTS Enqueuers,   \* requests and crons that commit a row and enqueue its job
          Erasers,     \* POST /admin/tenants/{id}/erase
          Deleters,    \* DELETE /items/{id}/hard
          ItemOf,      \* the row that each deleter deletes
          LoopOf,      \* the event loop, so the operating-system process, of each
          MaxFaults    \* bound: errors, timeouts, crashes and overruns

Procs == Enqueuers \cup Erasers \cup Deleters

ASSUME ProcAssumption ==
    /\ Enqueuers \cap Erasers = {} /\ Enqueuers \cap Deleters = {} /\ Erasers \cap Deleters = {}
    /\ "free" \notin Procs
ASSUME ItemAssumption == ItemOf \in [Deleters -> Enqueuers]
ASSUME BoundAssumption == MaxFaults \in Nat

VARIABLES lock,     \* holder of the Redis lock, or "free"
          overran,  \* some holder outlasted the time to live of the lock
          closed,   \* the closed marker in Redis
          erased,   \* tenant_erasure_states holds the tenant
          dbLock,   \* eraser that holds the table locks, or "free"
          row,      \* the rows of each enqueuer: "none", "live", "deleted"
          queue,    \* its ARQ job: "none", "queued", "running"
          path,     \* the artifact path: "absent", "dir", "file"
          staged,   \* what each eraser has in quarantine: "none", "dir", "file"
          found,    \* the ARQ jobs each eraser or deleter means to purge
          audited,  \* erasers and deleters whose transaction committed, audit event included
          pc,
          faults

vars == <<lock, overran, closed, erased, dbLock, row, queue, path, staged, found, audited, pc, faults>>
db == <<erased, dbLock, row, audited>>
files == <<path, staged>>

-----------------------------------------------------------------------------
(* Types *)

EnqPC == {"idle", "wait", "check", "put", "free", "done"}
ClosePC == {"close:wait", "close:held", "close:free", "close:fail"}
ReopenPC == {"reopen:wait", "reopen:held", "reopen:free"}
EraPC == {"find", "lock", "stage", "commit", "verify", "restore", "purge", "delete"}
DelPC == {"flock", "find", "commit", "verify", "purge", "delete"}
PC == EnqPC \cup ClosePC \cup ReopenPC \cup EraPC \cup DelPC \cup {"ended", "crashed"}

\* Where a process holds the lock and uses it.
Held == {"check", "put", "free", "close:held", "close:free", "close:fail",
         "reopen:held", "reopen:free"}
Waiting == {"wait", "close:wait", "reopen:wait"}

Init ==
    /\ lock = "free"
    /\ overran = FALSE
    /\ closed = FALSE
    /\ erased = FALSE
    /\ dbLock = "free"
    /\ row = [e \in Enqueuers |-> "none"]
    /\ queue = [e \in Enqueuers |-> "none"]
    /\ path = "dir"
    /\ staged = [a \in Erasers |-> "none"]
    /\ found = [p \in Erasers \cup Deleters |-> {}]
    /\ audited = {}
    /\ pc = [p \in Procs |-> "idle"]
    /\ faults = 0

Goto(p, next) == pc' = [pc EXCEPT ![p] = next]
Fault == faults < MaxFaults /\ faults' = faults + 1

-----------------------------------------------------------------------------
(* The lock *)

AfterAcquire(at) == CASE at = "wait"        -> "check"
                      [] at = "close:wait"  -> "close:held"
                      [] at = "reopen:wait" -> "reopen:held"

\* Mutant of Acquire: SET without NX.
AcquireAlways(p) ==
    /\ pc[p] \in Waiting
    /\ lock' = p
    /\ Goto(p, AfterAcquire(pc[p]))
    /\ UNCHANGED <<overran, closed, db, queue, files, found, faults>>

\* SET key token NX PX ttl succeeds.
Acquire(p) ==
    /\ pc[p] \in Waiting
    /\ lock = "free"
    /\ lock' = p
    /\ Goto(p, AfterAcquire(pc[p]))
    /\ UNCHANGED <<overran, closed, db, queue, files, found, faults>>

\* Thirty seconds of polling, or an error of Redis.
AcquireTimeout(p) ==
    /\ pc[p] \in Waiting
    /\ Goto(p, "ended")
    /\ Fault
    /\ UNCHANGED <<lock, overran, closed, db, queue, files, found>>

AfterRelease(p) == CASE pc[p] = "free"        -> "done"
                     [] pc[p] = "close:free"  -> "find"
                     [] pc[p] = "close:fail"  -> "ended"
                     [] pc[p] = "reopen:free" -> "ended"

\* The script deletes the key only when it still holds the caller's token.
Release(p) ==
    /\ pc[p] \in {"free", "close:free", "close:fail", "reopen:free"}
    /\ lock' = IF lock = p THEN "free" ELSE lock
    /\ Goto(p, AfterRelease(p))
    /\ UNCHANGED <<overran, closed, db, queue, files, found, faults>>

ReleaseError(p) ==
    /\ pc[p] \in {"free", "close:free", "close:fail", "reopen:free"}
    /\ Goto(p, "ended")
    /\ Fault
    /\ UNCHANGED <<lock, overran, closed, db, queue, files, found>>

\* The time to live ends after the holder has.
LockExpire ==
    /\ lock # "free"
    /\ pc[lock] \notin Held
    /\ lock' = "free"
    /\ UNCHANGED <<overran, closed, db, queue, files, found, pc, faults>>

\* It ends before the holder has.  It is twice what bounds the work under the
\* lock, so this takes a process that is suspended that long.
Overrun ==
    /\ lock # "free"
    /\ pc[lock] \in Held
    /\ lock' = "free"
    /\ overran' = TRUE
    /\ Fault
    /\ UNCHANGED <<closed, db, queue, files, found, pc>>

-----------------------------------------------------------------------------
(* enqueue_tenant_job, and the commit of the row that the job is about *)

\* Row-level security refuses rows of an erased tenant; the eraser's table
\* locks make writers wait.
EnqCommit(e) ==
    /\ pc[e] = "idle"
    /\ dbLock = "free" /\ ~erased
    /\ row' = [row EXCEPT ![e] = "live"]
    /\ Goto(e, "wait")
    /\ UNCHANGED <<lock, overran, closed, erased, dbLock, audited, queue, files, found, faults>>

\* TenantQueueClosedError when the marker exists.
EnqCheck(e) ==
    /\ pc[e] = "check"
    /\ Goto(e, IF closed THEN "free" ELSE "put")
    /\ UNCHANGED <<lock, overran, closed, db, queue, files, found, faults>>

EnqPut(e) ==
    /\ pc[e] = "put"
    /\ queue' = [queue EXCEPT ![e] = "queued"]
    /\ Goto(e, "free")
    /\ UNCHANGED <<lock, overran, closed, db, files, found, faults>>

\* enqueue_job raises or takes thirty seconds.  (That it queued the job all
\* the same is EnqPut.)
EnqError(e) ==
    /\ pc[e] = "put"
    /\ Goto(e, "free")
    /\ Fault
    /\ UNCHANGED <<lock, overran, closed, db, queue, files, found>>

\* A worker takes the job and ends it; an aborted job ends too.
JobStart(e) ==
    /\ queue[e] = "queued"
    /\ queue' = [queue EXCEPT ![e] = "running"]
    /\ UNCHANGED <<lock, overran, closed, db, files, found, pc, faults>>

JobEnd(e) ==
    /\ queue[e] = "running"
    /\ queue' = [queue EXCEPT ![e] = "none"]
    /\ UNCHANGED <<lock, overran, closed, db, files, found, pc, faults>>

-----------------------------------------------------------------------------
(* close_tenant_queue and reopen_tenant_queue *)

Close(p) ==
    /\ pc[p] = "close:held"
    /\ closed' = TRUE
    /\ Goto(p, "close:free")
    /\ UNCHANGED <<lock, overran, db, queue, files, found, faults>>

\* The SET raises, applied or not; nobody reopens.
CloseError(p) ==
    /\ pc[p] = "close:held"
    /\ closed' \in {closed, TRUE}
    /\ Goto(p, "close:fail")
    /\ Fault
    /\ UNCHANGED <<lock, overran, db, queue, files, found>>

Reopen(p) ==
    /\ pc[p] = "reopen:held"
    /\ closed' = FALSE
    /\ Goto(p, "reopen:free")
    /\ UNCHANGED <<lock, overran, db, queue, files, found, faults>>

ReopenError(p) ==
    /\ pc[p] = "reopen:held"
    /\ closed' \in {closed, FALSE}
    /\ Goto(p, "reopen:free")
    /\ Fault
    /\ UNCHANGED <<lock, overran, db, queue, files, found>>

-----------------------------------------------------------------------------
(* erase_tenant_data *)

EraBegin(a) ==
    /\ pc[a] = "idle"
    /\ Goto(a, "close:wait")
    /\ UNCHANGED <<lock, overran, closed, db, queue, files, found, faults>>

\* Every queued payload can be read ...
EraFind(a) ==
    /\ pc[a] = "find"
    /\ Goto(a, "lock")
    /\ UNCHANGED <<lock, overran, closed, db, queue, files, found, faults>>

\* ... or the erasure ends before its transaction wrote anything.
EraFindError(a) ==
    /\ pc[a] = "find"
    /\ Goto(a, "restore")
    /\ Fault
    /\ UNCHANGED <<lock, overran, closed, db, queue, files, found>>

\* LOCK TABLE ... IN SHARE ROW EXCLUSIVE MODE
EraLock(a) ==
    /\ pc[a] = "lock"
    /\ dbLock = "free"
    /\ dbLock' = a
    /\ Goto(a, "stage")
    /\ UNCHANGED <<lock, overran, closed, erased, row, audited, queue, files, found, faults>>

\* _stage_tenant_artifacts: move what is there aside, leave a file.
EraStage(a) ==
    /\ pc[a] = "stage"
    /\ staged' = [staged EXCEPT ![a] = IF path = "absent" THEN "none" ELSE path]
    /\ path' = "file"
    /\ Goto(a, "commit")
    /\ UNCHANGED <<lock, overran, closed, db, queue, found, faults>>

\* What the transaction of the erasure does: the marker, the rows, the audit event.
EraseRows(a) ==
    /\ erased' = TRUE
    /\ row' = [e \in Enqueuers |-> IF row[e] = "live" THEN "deleted" ELSE row[e]]
    /\ audited' = audited \cup {a}

\* Mutant of EraCommit: nothing purges what was queued before the barrier.
EraCommitOnly(a) ==
    /\ pc[a] = "commit"
    /\ EraseRows(a)
    /\ dbLock' = "free"
    /\ Goto(a, "done")
    /\ UNCHANGED <<lock, overran, closed, queue, files, found, faults>>

EraCommit(a) ==
    /\ pc[a] = "commit"
    /\ EraseRows(a)
    /\ dbLock' = "free"
    /\ Goto(a, "purge")
    /\ UNCHANGED <<lock, overran, closed, queue, files, found, faults>>

\* A statement, or the staging, fails before the commit.
EraRollback(a) ==
    /\ pc[a] \in {"lock", "stage", "commit"}
    /\ dbLock' = IF dbLock = a THEN "free" ELSE dbLock
    /\ Goto(a, "restore")
    /\ Fault
    /\ UNCHANGED <<lock, overran, closed, erased, row, audited, queue, files, found>>

\* The commit raises; it took effect or it did not.
EraCommitError(a) ==
    /\ pc[a] = "commit"
    /\ EraseRows(a) \/ UNCHANGED <<erased, row, audited>>
    /\ dbLock' = "free"
    /\ Goto(a, "verify")
    /\ Fault
    /\ UNCHANGED <<lock, overran, closed, queue, files, found>>

\* _audit_event_was_committed
EraVerify(a) ==
    /\ pc[a] = "verify"
    /\ Goto(a, IF a \in audited THEN "purge" ELSE "restore")
    /\ UNCHANGED <<lock, overran, closed, db, queue, files, found, faults>>

\* The outcome stays unknown: artifacts stay in quarantine, the queue closed.
VerifyError(a) ==
    /\ pc[a] = "verify"
    /\ Goto(a, IF a \in Erasers THEN "ended" ELSE "reopen:wait")
    /\ Fault
    /\ UNCHANGED <<lock, overran, closed, db, queue, files, found>>

\* Mutant of EraRestore: the tombstone is unlinked, the quarantine forgotten.
EraUnlinkOnly(a) ==
    /\ pc[a] = "restore"
    /\ path' = IF path = "file" THEN "absent" ELSE path
    /\ Goto(a, "reopen:wait")
    /\ UNCHANGED <<lock, overran, closed, db, queue, staged, found, faults>>

\* _restore_staged_paths puts back what was moved aside, in place of whatever
\* is there; then the tombstone, a file at the path, is unlinked.
EraRestore(a) ==
    /\ pc[a] = "restore"
    /\ LET back == IF staged[a] = "none" THEN path ELSE staged[a]
       IN  path' = IF back = "file" THEN "absent" ELSE back
    /\ staged' = [staged EXCEPT ![a] = "none"]
    /\ Goto(a, "reopen:wait")
    /\ UNCHANGED <<lock, overran, closed, db, queue, found, faults>>

\* _purge_tenant_arq_jobs scans again, for what was enqueued between its commit
\* and the table locks, and removes what has not started.
EraPurge(a) ==
    /\ pc[a] = "purge"
    /\ found' = [found EXCEPT ![a] = {e \in Enqueuers : queue[e] # "none"}]
    /\ queue' = [e \in Enqueuers |-> IF queue[e] = "queued" THEN "none" ELSE queue[e]]
    /\ Goto(a, "delete")
    /\ UNCHANGED <<lock, overran, closed, db, files, faults>>

Stopped(p) == \A e \in found[p] : queue[e] # "running"

\* Aborted jobs have stopped; every quarantine of the tenant is purged.
EraDelete(a) ==
    /\ pc[a] = "delete"
    /\ Stopped(a)
    /\ staged' = [b \in Erasers |-> "none"]
    /\ Goto(a, "done")
    /\ UNCHANGED <<lock, overran, closed, db, queue, path, found, faults>>

\* Redis fails, or thirty seconds pass: the quarantines go all the same.
EraPurgeError(a) ==
    /\ pc[a] \in {"purge", "delete"}
    /\ staged' = [b \in Erasers |-> "none"]
    /\ Goto(a, "ended")
    /\ Fault
    /\ UNCHANGED <<lock, overran, closed, db, queue, path, found>>

-----------------------------------------------------------------------------
(* hard_delete_item; the artifacts of the item are not modelled *)

\* acquire_item_artifact_lock makes the tenant's directory and opens a lock file
\* in it.  (Where the tombstone is, that raises and the request ends.)
DelBegin(d) ==
    /\ pc[d] = "idle"
    /\ path # "file"
    /\ path' = "dir"
    /\ Goto(d, "flock")
    /\ UNCHANGED <<lock, overran, closed, db, queue, staged, found, faults>>

HasFlock(c) == pc[c] \notin {"idle", "flock", "ended", "crashed"}

\* flock returns when no other request has the lock of the item.  It does not
\* await: the event loop stands still until then.
DelFlock(d) ==
    /\ pc[d] = "flock"
    /\ \A c \in Deleters \ {d} : ItemOf[c] = ItemOf[d] => ~HasFlock(c)
    /\ Goto(d, "close:wait")
    /\ UNCHANGED <<lock, overran, closed, db, queue, files, found, faults>>

\* The item's tombstone is a file in the tenant's directory; then the scan.
DelFind(d) ==
    /\ pc[d] = "find"
    /\ path # "file"
    /\ path' = "dir"
    /\ found' = [found EXCEPT ![d] = {e \in {ItemOf[d]} : queue[e] # "none"}]
    /\ Goto(d, "commit")
    /\ UNCHANGED <<lock, overran, closed, db, queue, staged, faults>>

DelNoDirectory(d) ==
    /\ pc[d] = "find"
    /\ path = "file"
    /\ Goto(d, "reopen:wait")
    /\ UNCHANGED <<lock, overran, closed, db, queue, files, found, faults>>

\* Mutant of DeleteRow: a soft deletion.
DeleteRowSoftly(d) ==
    /\ row' = [row EXCEPT ![ItemOf[d]] = "hidden"]
    /\ audited' = audited \cup {d}

DeleteRow(d) ==
    /\ row' = [row EXCEPT ![ItemOf[d]] = "deleted"]
    /\ audited' = audited \cup {d}

DelCommit(d) ==
    /\ pc[d] = "commit"
    /\ dbLock = "free"
    /\ row[ItemOf[d]] = "live"
    /\ DeleteRow(d)
    /\ Goto(d, "purge")
    /\ UNCHANGED <<lock, overran, closed, erased, dbLock, queue, files, found, faults>>

\* Mutant of DelMissing: an early return that skips the reopening.
DelMissingReturns(d) ==
    /\ pc[d] = "commit"
    /\ dbLock = "free"
    /\ row[ItemOf[d]] # "live"
    /\ Goto(d, "ended")
    /\ UNCHANGED <<lock, overran, closed, db, queue, files, found, faults>>

\* No such item: roll back, answer 404.
DelMissing(d) ==
    /\ pc[d] = "commit"
    /\ dbLock = "free"
    /\ row[ItemOf[d]] # "live"
    /\ Goto(d, "reopen:wait")
    /\ UNCHANGED <<lock, overran, closed, db, queue, files, found, faults>>

DelError(d) ==
    /\ pc[d] \in {"find", "commit"}
    /\ Goto(d, "reopen:wait")
    /\ Fault
    /\ UNCHANGED <<lock, overran, closed, db, queue, files, found>>

DelCommitError(d) ==
    /\ pc[d] = "commit"
    /\ dbLock = "free"
    /\ row[ItemOf[d]] = "live"
    /\ DeleteRow(d) \/ UNCHANGED <<row, audited>>
    /\ Goto(d, "verify")
    /\ Fault
    /\ UNCHANGED <<lock, overran, closed, erased, dbLock, queue, files, found>>

DelVerify(d) ==
    /\ pc[d] = "verify"
    /\ Goto(d, IF d \in audited THEN "purge" ELSE "reopen:wait")
    /\ UNCHANGED <<lock, overran, closed, db, queue, files, found, faults>>

\* _purge_arq_jobs of what the scan before the transaction found
DelPurge(d) ==
    /\ pc[d] = "purge"
    /\ queue' = [e \in Enqueuers |-> IF e \in found[d] /\ queue[e] = "queued"
                                     THEN "none" ELSE queue[e]]
    /\ Goto(d, "delete")
    /\ UNCHANGED <<lock, overran, closed, db, files, found, faults>>

DelDelete(d) ==
    /\ pc[d] = "delete"
    /\ Stopped(d)
    /\ Goto(d, "reopen:wait")
    /\ UNCHANGED <<lock, overran, closed, db, queue, files, found, faults>>

\* After the commit nothing reopens the queue.
DelPurgeError(d) ==
    /\ pc[d] \in {"purge", "delete"}
    /\ Goto(d, "ended")
    /\ Fault
    /\ UNCHANGED <<lock, overran, closed, db, queue, files, found>>

-----------------------------------------------------------------------------
(* Crashes, and the specification *)

\* The process dies: PostgreSQL rolls its transaction back, Redis keeps its lock.
Crash(p) ==
    /\ pc[p] \notin {"idle", "done", "ended", "crashed"}
    /\ dbLock' = IF dbLock = p THEN "free" ELSE dbLock
    /\ Goto(p, "crashed")
    /\ Fault
    /\ UNCHANGED <<lock, overran, closed, erased, row, audited, queue, files, found>>

EnqStep(e) == EnqCommit(e) \/ EnqCheck(e) \/ EnqPut(e)
JobStep(e) == JobStart(e) \/ JobEnd(e)
LockStep(p) == Acquire(p) \/ Release(p)
BarrierStep(p) == Close(p) \/ Reopen(p)
\* A blocking flock in its event loop stops every coroutine of it.
Runs(p) == \A d \in Deleters : pc[d] = "flock" => p = d \/ LoopOf[d] # LoopOf[p]

EraStep(a) == \/ EraFind(a) \/ EraLock(a) \/ EraStage(a) \/ EraCommit(a) \/ EraVerify(a)
              \/ EraRestore(a) \/ EraPurge(a) \/ EraDelete(a)
DelStep(d) == \/ DelFlock(d) \/ DelFind(d) \/ DelNoDirectory(d) \/ DelCommit(d) \/ DelMissing(d) \/ DelVerify(d)
              \/ DelPurge(d) \/ DelDelete(d)
EraFault(a) == \/ EraFindError(a) \/ EraRollback(a) \/ EraCommitError(a) \/ EraPurgeError(a)
DelFault(d) == DelError(d) \/ DelCommitError(d) \/ DelPurgeError(d)
LockFault(p) == AcquireTimeout(p) \/ ReleaseError(p)

Next ==
    \/ \E e \in Enqueuers : JobStep(e) \/ (Runs(e) /\ (EnqStep(e) \/ EnqError(e)))
    \/ \E p \in Procs : Crash(p) \/ (Runs(p) /\ (LockStep(p) \/ LockFault(p)))
    \/ \E p \in Erasers \cup Deleters :
          Runs(p) /\ (BarrierStep(p) \/ CloseError(p) \/ ReopenError(p) \/ VerifyError(p))
    \/ \E a \in Erasers : Runs(a) /\ (EraBegin(a) \/ EraStep(a) \/ EraFault(a))
    \/ \E d \in Deleters : Runs(d) /\ (DelBegin(d) \/ DelStep(d) \/ DelFault(d))
    \/ LockExpire \/ Overrun

Spec == Init /\ [][Next]_vars

\* Running processes go on, keys with a time to live expire, and workers end
\* the jobs they took.  Nobody has to start, or to fail.
Fairness ==
    /\ \A e \in Enqueuers : WF_vars(Runs(e) /\ (EnqCheck(e) \/ EnqPut(e))) /\ WF_vars(JobEnd(e))
    /\ \A p \in Procs : WF_vars(Runs(p) /\ LockStep(p))
    /\ \A p \in Erasers \cup Deleters : WF_vars(Runs(p) /\ BarrierStep(p))
    /\ \A a \in Erasers : WF_vars(Runs(a) /\ EraStep(a))
    /\ \A d \in Deleters : WF_vars(Runs(d) /\ DelStep(d))
    /\ WF_vars(LockExpire)

FairSpec == Spec /\ Fairness

-----------------------------------------------------------------------------
(* Properties *)

\* Every variable has its type.
TypeOK ==
    /\ lock \in Procs \cup {"free"}
    /\ overran \in BOOLEAN
    /\ closed \in BOOLEAN
    /\ erased \in BOOLEAN
    /\ dbLock \in Erasers \cup {"free"}
    /\ row \in [Enqueuers -> {"none", "live", "deleted"}]
    /\ queue \in [Enqueuers -> {"none", "queued", "running"}]
    /\ path \in {"absent", "dir", "file"}
    /\ staged \in [Erasers -> {"none", "dir", "file"}]
    /\ found \in [Erasers \cup Deleters -> SUBSET Enqueuers]
    /\ audited \in SUBSET (Erasers \cup Deleters)
    /\ pc \in [Procs -> PC]
    /\ faults \in 0..MaxFaults

\* While the marker is there nothing enters the queue, although the check and
\* the enqueueing are two calls: enqueue_tenant_job.  The lock is what makes it
\* so, hence the condition that nobody outlasted it.
NoEnqueue ==
    closed /\ ~overran =>
        \A e \in Enqueuers : queue'[e] = "queued" => queue[e] = "queued"
NoEnqueueWhileClosed == [][NoEnqueue]_vars

\* Of all that close the queue, only p has begun.
Alone(p) == \A q \in (Erasers \cup Deleters) \ {p} : pc[q] = "idle"

\* When erase_tenant_data returns, no job of the tenant is queued or running,
\* and none that was waiting for the lock appears afterwards.  (Another closer
\* reopens the queue when it ends: reopen_tenant_queue.)
ErasedTenantHasNoWork ==
    \A a \in Erasers : pc[a] = "done" /\ Alone(a) /\ ~overran =>
        \A e \in Enqueuers : queue[e] = "none"

\* When an erasure has rolled back, the tenant has its artifacts:
\* _restore_staged_paths.  (Two that overlap restore each other's tombstone.)
AbortRestoresArtifacts ==
    \A a \in Erasers : pc[a] \in ReopenPC /\ Alone(a) => path = "dir"

\* Requests for the same item in one process deadlock without any failure: the
\* one that blocks in flock stops the event loop in which the other one would go
\* on and free it.  (Or a ring of processes, each of which holds what the next
\* one waits for.)
Deadlock(S) ==
    \A d \in S : pc[d] = "flock" /\
        \E c \in Deleters \ {d} : /\ ItemOf[c] = ItemOf[d] /\ HasFlock(c)
                                  /\ \E e \in S : LoopOf[e] = LoopOf[c]
Deadlocked == \E S \in SUBSET Deleters \ {{}} : Deadlock(S)

\* A queue that is closed opens again, or its tenant is erased: every way out of
\* erase_tenant_data and hard_delete_item reopens it, as long as nothing fails and
\* no two deletions of one item deadlock in acquire_item_artifact_lock.
BarrierIsLifted ==
    closed /\ faults = 0 ~> ~closed \/ erased \/ faults > 0 \/ Deadlocked

=============================================================================
