-------------------------- MODULE IngestJobs_proofs --------------------------
(***************************************************************************)
(* Theorems about IngestJobs, for all jobs, contents, requests and bounds. *)
(***************************************************************************)
EXTENDS IngestJobs, TLAPS

-----------------------------------------------------------------------------
(* What the helpers assign *)

\* The row of one job changes, and only its status.
LEMMA SetItemKeeps ==
    ASSUME item \in [Jobs -> Item], NEW k, NEW s \in ItemStatus, SetItem(k, s)
    PROVE  /\ item' \in [Jobs -> Item]
           /\ \A i \in Jobs : /\ item'[i].hash = item[i].hash
                             /\ item'[i].vec = item[i].vec
                             /\ item'[i].status = IF i = k THEN s ELSE item[i].status
<1> DEFINE new == [item[k] EXCEPT !.status = s]
<1>1. item' = [item EXCEPT ![k] = new]
  BY DEF SetItem
<1>2. k \in Jobs => /\ new \in Item /\ new.status = s
                    /\ new.hash = item[k].hash /\ new.vec = item[k].vec
  BY DEF Item
<1> HIDE DEF new
<1> QED
  BY <1>1, <1>2

\* One cell of a table of tasks changes.
LEMMA UpdateTask ==
    ASSUME NEW S, NEW f \in [Jobs -> [Tasks -> S]], NEW k \in Jobs, NEW u \in Tasks, NEW x \in S,
           NEW g, g = [f EXCEPT ![k][u] = x]
    PROVE  /\ g \in [Jobs -> [Tasks -> S]]
           /\ \A i \in Jobs, v \in Tasks : g[i][v] = IF i = k /\ v = u THEN x ELSE f[i][v]
<1> DEFINE row == [f[k] EXCEPT ![u] = x]
<1>1. g = [f EXCEPT ![k] = row]
  OBVIOUS
<1>2. row \in [Tasks -> S] /\ \A v \in Tasks : row[v] = IF v = u THEN x ELSE f[k][v]
  OBVIOUS
<1> HIDE DEF row
<1> QED
  BY <1>1, <1>2

\* An execution moves on.
LEMMA StepType ==
    ASSUME run \in [Jobs -> [Tasks -> Run]], NEW k \in Jobs, NEW u \in Tasks,
           NEW p \in {"create", "complete", "fail_item", "cancel_item"}, Step(k, u, p)
    PROVE  run' \in [Jobs -> [Tasks -> Run]]
<1> DEFINE new == [run[k][u] EXCEPT !.pc = p]
<1>1. run' = [run EXCEPT ![k][u] = new]
  BY DEF Step
<1>2. run[k][u] \in Run
  OBVIOUS
<1>3. new \in Run
  BY <1>2 DEF Run
<1> HIDE DEF new
<1> QED
  BY <1>1, <1>3, UpdateTask

LEMMA StepMoves ==
    ASSUME run \in [Jobs -> [Tasks -> Run]], NEW k \in Jobs, NEW u \in Tasks, NEW p, Step(k, u, p),
           NEW i \in Jobs, NEW v \in Tasks
    PROVE  run'[i][v] # run[i][v] => /\ i = k /\ v = u
                                     /\ run'[i][v].pc = p /\ run'[i][v].same = run[i][v].same
<1> DEFINE new == [run[k][u] EXCEPT !.pc = p]
           row == [run[k] EXCEPT ![u] = new]
<1>1. run' = [run EXCEPT ![k] = row]
  BY DEF Step
<1>2. run[k][u] \in Run
  OBVIOUS
<1>3. new.pc = p /\ new.same = run[k][u].same
  BY <1>2 DEF Run
<1> HIDE DEF new
<1>4. row[v] = IF v = u THEN new ELSE run[k][v]
  OBVIOUS
<1> HIDE DEF row
<1>5. run'[i] = IF i = k THEN row ELSE run[i]
  BY <1>1
<1> QED
  BY <1>3, <1>4, <1>5

\* What Start does to the executions and to the job.
StartMoves(k, u, i, v) ==
    /\ i = k /\ v = u
    /\ run'[i][v].pc \in {"begin", "create", "extract"}
    /\ run'[i][v].same => run[i][v].same \/ job[k].status = "processing"
    /\ run'[i][v].pc = "extract" => run[i][v].same \/ SetJob(k, "processing")

LEMMA StartRuns ==
    ASSUME run \in [Jobs -> [Tasks -> Run]], NEW k \in Jobs, NEW u \in Tasks, Start(k, u)
    PROVE  /\ run' \in [Jobs -> [Tasks -> Run]]
           /\ \A i \in Jobs, v \in Tasks : run'[i][v] # run[i][v] => StartMoves(k, u, i, v)
<1>1. CASE Load(k, u)
  <2> DEFINE new == [pc |-> "begin", same |-> job[k].status = "processing", body |-> "none"]
  <2>1. run' = [run EXCEPT ![k][u] = new]
    BY <1>1 DEF Load
  <2>2. new \in Run
    BY DEF Run
  <2>3. new.pc = "begin" /\ (new.same => job[k].status = "processing")
    OBVIOUS
  <2> HIDE DEF new
  <2> QED
    BY <2>1, <2>2, <2>3, UpdateTask DEF StartMoves
<1>2. ASSUME BeginWork(k, u)
      PROVE  /\ run' \in [Jobs -> [Tasks -> Run]]
             /\ \A i \in Jobs, v \in Tasks : run'[i][v] # run[i][v] => StartMoves(k, u, i, v)
  <2> DEFINE new == [pc |-> "extract", same |-> FALSE, body |-> "none"]
  <2>1. run' = [run EXCEPT ![k][u] = new]
    BY <1>2 DEF BeginWork
  <2>2. new \in Run
    BY DEF Run
  <2>3. new.pc = "extract" /\ ~new.same
    OBVIOUS
  <2>4. run[k][u].same \/ SetJob(k, "processing")
    BY <1>2 DEF BeginWork
  <2> HIDE DEF new
  <2> QED
    BY <2>1, <2>2, <2>3, <2>4, UpdateTask DEF StartMoves
<1>3. CASE FindNone(k, u)
  <2>1. Step(k, u, "create")
    BY <1>3 DEF FindNone
  <2> QED
    BY <2>1, StepType, StepMoves DEF StartMoves
<1> QED
  BY <1>1, <1>2, <1>3 DEF Start, Join, Create

LEMMA StartJob ==
    ASSUME NEW k, NEW u, Start(k, u)
    PROVE  UNCHANGED job \/ SetJob(k, "processing")
BY DEF Start, Load, Join, FindNone, Create, BeginWork

-----------------------------------------------------------------------------
(* Types *)

LEMMA JobType ==
    ASSUME api \in [Clients -> Api], job \in [Jobs -> Job], [Next]_vars
    PROVE  job' \in [Jobs -> Job]
<1>0. ASSUME UNCHANGED job
      PROVE  job' \in [Jobs -> Job]
  BY <1>0 DEF Job, JobStatus
<1>1. ASSUME NEW c \in Clients, NEW j \in Jobs, Ingest(c, j) \/ CancelRead(c, j) \/ RetryRead(c, j)
      PROVE  job' \in [Jobs -> Job]
  <2>1. CASE Ingest(c, j)
    BY <1>1, <2>1 DEF Ingest, SetJob, Job, JobStatus, Api
  <2>2. ASSUME CancelRead(c, j) \/ RetryRead(c, j)
        PROVE  UNCHANGED job
    BY <2>2 DEF CancelRead, RetryRead
  <2> QED
    BY <1>0, <1>1, <2>1, <2>2
<1>2. ASSUME NEW c \in Clients, RequestStep(c) \/ PublishError(c) \/ ApiCrash(c)
      PROVE  job' \in [Jobs -> Job]
  <2>1. CASE MarkEnqueueFailed(c)
    BY <1>2, <2>1 DEF MarkEnqueueFailed, SetJob, Job, JobStatus, Api
  <2>2. CASE RestoreRetryState(c)
    BY <1>2, <2>2 DEF RestoreRetryState, SetJob, Job, JobStatus, Api
  <2>3. CASE Cancel(c)
    BY <1>2, <2>3 DEF Cancel, SetJob, Job, JobStatus, Api
  <2>4. CASE Retry(c)
    BY <1>2, <2>4 DEF Retry, SetJob, Job, JobStatus, Api
  <2>5. ASSUME Publish(c) \/ RetryRaises(c) \/ PublishError(c) \/ ApiCrash(c)
        PROVE  UNCHANGED job
    BY <2>5 DEF Publish, RetryRaises, PublishError, ApiCrash
  <2> QED
    BY <1>0, <1>2, <2>1, <2>2, <2>3, <2>4, <2>5 DEF RequestStep
<1>3. ASSUME NEW j \in Jobs, NEW t \in Tasks, WorkerStep(j, t) \/ WorkerFault(j, t)
      PROVE  job' \in [Jobs -> Job]
  <2>1. CASE Start(j, t)
    <3>1. CASE SetJob(j, "processing")
      BY <1>3, <3>1 DEF SetJob, Job, JobStatus
    <3> QED
      BY <1>0, <2>1, <3>1, StartJob
  <2>2. CASE Duplicate(j, t)
    <3>1. PICK r \in Jobs : job' = [job EXCEPT ![j] = [status |-> "duplicate", dup |-> r]]
      BY <2>2 DEF Duplicate, Rivals
    <3> QED
      BY <1>3, <3>1 DEF Job, JobStatus
  <2>3. CASE Outrun(j, t)
    BY <1>3, <2>3 DEF Outrun, HandleException, SetJob, Job, JobStatus, Api
  <2>4. CASE Complete(j, t)
    BY <1>3, <2>4 DEF Complete, SetJob, Job, JobStatus, Api
  <2>5. CASE Fail(j, t)
    BY <1>3, <2>5 DEF Fail, HandleException, SetJob, Job, JobStatus, Api
  <2>6. CASE Abandon(j, t)
    BY <1>3, <2>6 DEF Abandon, SetJob, Job, JobStatus, Api
  <2>7. ASSUME Unique(j, t) \/ Store(j, t) \/ FailItem(j, t) \/ CancelItem(j, t) \/
             WorkerCrash(j, t) \/ QueueLoss(j, t)
        PROVE  UNCHANGED job
    BY <2>7 DEF Unique, Store, FailItem, CancelItem, WorkerCrash, QueueLoss, EndTask
  <2> QED
    BY <1>0, <1>3, <2>1, <2>2, <2>3, <2>4, <2>5, <2>6, <2>7 DEF WorkerStep, WorkerFault
<1>4. ASSUME NEW j \in Jobs, ForgetResult(j) \/ Check(j)
      PROVE  job' \in [Jobs -> Job]
  BY <1>0, <1>4 DEF ForgetResult, Check
<1>5. CASE CronStep \/ ResetFails \/ CronCrash
  <2>1. CASE Reset
    BY <2>1 DEF Reset, SetJob, Job, JobStatus, Api
  <2>2. ASSUME ResetRefused \/ Requeue \/ CronCrash
        PROVE  UNCHANGED job
    BY <2>2 DEF ResetRefused, Requeue, CronCrash
  <2>3. CASE ResetFails
    BY <2>3 DEF ResetFails, SetJob, Job, JobStatus
  <2> QED
    BY <1>0, <1>5, <2>1, <2>2, <2>3 DEF CronStep
<1> QED
  BY <1>0, <1>1, <1>2, <1>3, <1>4, <1>5, Zenon DEF Next, Request, vars

LEMMA ItemType ==
    ASSUME api \in [Clients -> Api], run \in [Jobs -> [Tasks -> Run]], item \in [Jobs -> Item], [Next]_vars
    PROVE  item' \in [Jobs -> Item]
<1>0. ASSUME UNCHANGED item
      PROVE  item' \in [Jobs -> Item]
  BY <1>0 DEF Item, ItemStatus
<1>1. ASSUME NEW c \in Clients, NEW j \in Jobs, Ingest(c, j) \/ CancelRead(c, j) \/ RetryRead(c, j)
      PROVE  item' \in [Jobs -> Item]
  <2>1. CASE Ingest(c, j)
    <3>1. SetItem(j, "processing")
      BY <2>1 DEF Ingest
    <3> QED
      BY <3>1, SetItemKeeps DEF ItemStatus
  <2>2. ASSUME CancelRead(c, j) \/ RetryRead(c, j)
        PROVE  UNCHANGED item
    BY <2>2 DEF CancelRead, RetryRead
  <2> QED
    BY <1>0, <1>1, <2>1, <2>2
<1>2. ASSUME NEW c \in Clients, RequestStep(c) \/ PublishError(c) \/ ApiCrash(c)
      PROVE  item' \in [Jobs -> Item]
  <2>1. CASE MarkEnqueueFailed(c)
    <3>1. SetItem(api[c].key, "failed")
      BY <2>1 DEF MarkEnqueueFailed
    <3> QED
      BY <3>1, SetItemKeeps DEF ItemStatus
  <2>2. CASE RestoreRetryState(c)
    <3>1. api[c].item \in ItemStatus
      BY <1>2 DEF Api
    <3>2. UNCHANGED item \/ SetItem(api[c].key, api[c].item)
      BY <2>2 DEF RestoreRetryState
    <3> QED
      BY <1>0, <3>1, <3>2, SetItemKeeps
  <2>3. CASE Cancel(c)
    <3>1. UNCHANGED item \/ SetItem(api[c].key, "failed")
      BY <2>3 DEF Cancel
    <3> QED
      BY <1>0, <3>1, SetItemKeeps DEF ItemStatus
  <2>4. CASE Retry(c)
    <3>1. UNCHANGED item \/ SetItem(api[c].key, "processing")
      BY <2>4 DEF Retry
    <3> QED
      BY <1>0, <3>1, SetItemKeeps DEF ItemStatus
  <2>5. ASSUME Publish(c) \/ RetryRaises(c) \/ PublishError(c) \/ ApiCrash(c)
        PROVE  UNCHANGED item
    BY <2>5 DEF Publish, RetryRaises, PublishError, ApiCrash
  <2> QED
    BY <1>0, <1>2, <2>1, <2>2, <2>3, <2>4, <2>5 DEF RequestStep
<1>3. ASSUME NEW j \in Jobs, NEW t \in Tasks, WorkerStep(j, t) \/ WorkerFault(j, t)
      PROVE  item' \in [Jobs -> Item]
  <2>1. CASE Duplicate(j, t)
    <3>1. SetItem(j, "failed")
      BY <2>1 DEF Duplicate
    <3> QED
      BY <3>1, SetItemKeeps DEF ItemStatus
  <2>2. CASE Store(j, t)
    <3>1. run[j][t].body \in Bodies \cup {"none"}
      BY <1>3 DEF Run
    <3> QED
      BY <1>3, <2>2, <3>1 DEF Store, Item, ItemStatus
  <2>3. CASE FailItem(j, t)
    <3>1. SetItem(j, "failed")
      BY <2>3 DEF FailItem
    <3> QED
      BY <3>1, SetItemKeeps DEF ItemStatus
  <2>4. CASE CancelItem(j, t)
    <3>1. UNCHANGED item \/ SetItem(j, "failed")
      BY <2>4 DEF CancelItem
    <3> QED
      BY <1>0, <3>1, SetItemKeeps DEF ItemStatus
  <2>5. ASSUME Start(j, t) \/ Unique(j, t) \/ Outrun(j, t) \/ Complete(j, t) \/ Fail(j, t) \/
             Abandon(j, t) \/ WorkerCrash(j, t) \/ QueueLoss(j, t)
        PROVE  UNCHANGED item
    BY <2>5 DEF Start, Load, Join, FindNone, Create, BeginWork, Unique, Outrun, Complete, Fail, Abandon, WorkerCrash,
        QueueLoss, HandleException, EndTask
  <2> QED
    BY <1>0, <1>3, <2>1, <2>2, <2>3, <2>4, <2>5 DEF WorkerStep, WorkerFault
<1>4. ASSUME NEW j \in Jobs, ForgetResult(j) \/ Check(j)
      PROVE  item' \in [Jobs -> Item]
  BY <1>0, <1>4 DEF ForgetResult, Check
<1>5. CASE CronStep \/ ResetFails \/ CronCrash
  <2>1. CASE Reset
    <3>1. SetItem(cron.key, "processing")
      BY <2>1 DEF Reset
    <3> QED
      BY <3>1, SetItemKeeps DEF ItemStatus
  <2>2. ASSUME ResetRefused \/ Requeue \/ ResetFails \/ CronCrash
        PROVE  UNCHANGED item
    BY <2>2 DEF ResetRefused, Requeue, ResetFails, CronCrash
  <2> QED
    BY <1>0, <1>5, <2>1, <2>2 DEF CronStep
<1> QED
  BY <1>0, <1>1, <1>2, <1>3, <1>4, <1>5, Zenon DEF Next, Request, vars

LEMMA AttemptType ==
    ASSUME attempt \in [Jobs -> Attempt], [Next]_vars
    PROVE  attempt' \in [Jobs -> Attempt]
<1>0. ASSUME UNCHANGED attempt
      PROVE  attempt' \in [Jobs -> Attempt]
  BY <1>0 DEF Attempt, AttemptStatus, ActiveAttempt
<1>1. ASSUME NEW c \in Clients, NEW j \in Jobs, Ingest(c, j) \/ CancelRead(c, j) \/ RetryRead(c, j)
      PROVE  attempt' \in [Jobs -> Attempt]
  BY <1>0, <1>1 DEF Ingest, CancelRead, RetryRead
<1>2. ASSUME NEW c \in Clients, RequestStep(c) \/ PublishError(c) \/ ApiCrash(c)
      PROVE  attempt' \in [Jobs -> Attempt]
  <2>1. CASE RestoreRetryState(c)
    BY <1>2, <2>1 DEF RestoreRetryState, Finish, Active, Attempt, AttemptStatus,
        ActiveAttempt
  <2>2. CASE Retry(c)
    BY <1>2, <2>2 DEF Retry, Attempt, AttemptStatus, ActiveAttempt, Active
  <2>3. ASSUME Publish(c) \/ MarkEnqueueFailed(c) \/ Cancel(c) \/ RetryRaises(c) \/
             PublishError(c) \/ ApiCrash(c)
        PROVE  UNCHANGED attempt
    BY <2>3 DEF Publish, MarkEnqueueFailed, Cancel, RetryRaises, PublishError, ApiCrash
  <2> QED
    BY <1>0, <1>2, <2>1, <2>2, <2>3 DEF RequestStep
<1>3. ASSUME NEW j \in Jobs, NEW t \in Tasks, WorkerStep(j, t) \/ WorkerFault(j, t)
      PROVE  attempt' \in [Jobs -> Attempt]
  <2>1. CASE Start(j, t)
    BY <1>3, <2>1 DEF Start, Load, Join, FindNone, Create, BeginWork, Attempt, AttemptStatus, ActiveAttempt, Active
  <2>2. CASE Duplicate(j, t)
    BY <1>3, <2>2 DEF Duplicate, Finish, Active, Attempt, AttemptStatus, ActiveAttempt
  <2>3. CASE Outrun(j, t)
    BY <1>3, <2>3 DEF Outrun, HandleException, Finish, Active, Attempt,
        AttemptStatus, ActiveAttempt
  <2>4. CASE Complete(j, t)
    BY <1>3, <2>4 DEF Complete, Finish, Active, Attempt, AttemptStatus, ActiveAttempt
  <2>5. CASE Fail(j, t)
    BY <1>3, <2>5 DEF Fail, HandleException, Finish, Active, Attempt, AttemptStatus,
        ActiveAttempt
  <2>6. CASE Abandon(j, t)
    BY <1>3, <2>6 DEF Abandon, Finish, Active, Attempt, AttemptStatus, ActiveAttempt
  <2>7. ASSUME Unique(j, t) \/ Store(j, t) \/ FailItem(j, t) \/ CancelItem(j, t) \/
             WorkerCrash(j, t) \/ QueueLoss(j, t)
        PROVE  UNCHANGED attempt
    BY <2>7 DEF Unique, Store, FailItem, CancelItem, WorkerCrash, QueueLoss, EndTask
  <2> QED
    BY <1>0, <1>3, <2>1, <2>2, <2>3, <2>4, <2>5, <2>6, <2>7 DEF WorkerStep, WorkerFault
<1>4. ASSUME NEW j \in Jobs, ForgetResult(j) \/ Check(j)
      PROVE  attempt' \in [Jobs -> Attempt]
  BY <1>0, <1>4 DEF ForgetResult, Check
<1>5. CASE CronStep \/ ResetFails \/ CronCrash
  BY <1>0, <1>5 DEF CronStep, Reset, ResetRefused, Requeue, ResetFails, CronCrash
<1> QED
  BY <1>0, <1>1, <1>2, <1>3, <1>4, <1>5, Zenon DEF Next, Request, vars

LEMMA ArqType ==
    ASSUME arq \in [Jobs -> [Tasks -> {"none", "queued", "running", "result"}]], [Next]_vars
    PROVE  arq' \in [Jobs -> [Tasks -> {"none", "queued", "running", "result"}]]
<1>0. ASSUME UNCHANGED arq
      PROVE  arq' \in [Jobs -> [Tasks -> {"none", "queued", "running", "result"}]]
  BY <1>0
<1>1. ASSUME NEW c \in Clients, NEW j \in Jobs, Ingest(c, j) \/ CancelRead(c, j) \/ RetryRead(c, j)
      PROVE  arq' \in [Jobs -> [Tasks -> {"none", "queued", "running", "result"}]]
  BY <1>0, <1>1 DEF Ingest, CancelRead, RetryRead
<1>2. ASSUME NEW c \in Clients, RequestStep(c) \/ PublishError(c) \/ ApiCrash(c)
      PROVE  arq' \in [Jobs -> [Tasks -> {"none", "queued", "running", "result"}]]
  <2>1. CASE Publish(c)
    <3>1. UNCHANGED arq \/ Enqueued(api[c].key)
      BY <2>1 DEF Publish
    <3>2. ASSUME NEW u \in Tasks, arq' = [arq EXCEPT ![api[c].key][u] = "queued"]
          PROVE  arq' \in [Jobs -> [Tasks -> {"none", "queued", "running", "result"}]]
      BY <3>2, UpdateTask
    <3> QED
      BY <1>0, <3>1, <3>2 DEF Enqueued
  <2>2. CASE PublishError(c)
    <3>1. UNCHANGED arq \/ Enqueued(api[c].key)
      BY <2>2 DEF PublishError
    <3>2. ASSUME NEW u \in Tasks, arq' = [arq EXCEPT ![api[c].key][u] = "queued"]
          PROVE  arq' \in [Jobs -> [Tasks -> {"none", "queued", "running", "result"}]]
      BY <3>2, UpdateTask
    <3> QED
      BY <1>0, <3>1, <3>2 DEF Enqueued
  <2>3. ASSUME MarkEnqueueFailed(c) \/ RestoreRetryState(c) \/ Cancel(c) \/ Retry(c) \/
             RetryRaises(c) \/ ApiCrash(c)
        PROVE  UNCHANGED arq
    BY <2>3 DEF MarkEnqueueFailed, RestoreRetryState, Cancel, Retry, RetryRaises,
        ApiCrash
  <2> QED
    BY <1>0, <1>2, <2>1, <2>2, <2>3 DEF RequestStep
<1>3. ASSUME NEW j \in Jobs, NEW t \in Tasks, WorkerStep(j, t) \/ WorkerFault(j, t)
      PROVE  arq' \in [Jobs -> [Tasks -> {"none", "queued", "running", "result"}]]
  <2>1. CASE Start(j, t)
    <3>1. UNCHANGED arq \/ arq' = [arq EXCEPT ![j][t] = "running"]
      BY <2>1 DEF Start, Load, Join, FindNone, Create
    <3> QED
      BY <1>0, <1>3, <3>1, UpdateTask
  <2>2. CASE Duplicate(j, t)
    BY <1>3, <2>2 DEF Duplicate, EndTask, Tasks
  <2>3. CASE Complete(j, t)
    BY <1>3, <2>3 DEF Complete, EndTask, Tasks
  <2>4. CASE FailItem(j, t)
    BY <1>3, <2>4 DEF FailItem, EndTask, Tasks
  <2>5. CASE CancelItem(j, t)
    <3>1. \E x \in {"none", "queued", "running", "result"} : arq' = [arq EXCEPT ![j][t] = x]
      BY <2>5 DEF CancelItem, EndTask
    <3> QED
      BY <1>3, <3>1, UpdateTask
  <2>6. CASE WorkerCrash(j, t)
    BY <1>3, <2>6 DEF WorkerCrash, Tasks
  <2>7. CASE QueueLoss(j, t)
    BY <1>3, <2>7 DEF QueueLoss, Tasks
  <2>8. ASSUME Unique(j, t) \/ Store(j, t) \/ Outrun(j, t) \/ Fail(j, t) \/ Abandon(j, t)
        PROVE  UNCHANGED arq
    BY <2>8 DEF Unique, Store, Outrun, Fail, Abandon, HandleException
  <2> QED
    BY <1>0, <1>3, <2>1, <2>2, <2>3, <2>4, <2>5, <2>6, <2>7, <2>8 DEF WorkerStep,
        WorkerFault
<1>4. ASSUME NEW j \in Jobs, ForgetResult(j) \/ Check(j)
      PROVE  arq' \in [Jobs -> [Tasks -> {"none", "queued", "running", "result"}]]
  <2>1. CASE ForgetResult(j)
    BY <1>4, <2>1 DEF ForgetResult, Tasks
  <2>2. ASSUME Check(j)
        PROVE  UNCHANGED arq
    BY <2>2 DEF Check
  <2> QED
    BY <1>0, <1>4, <2>1, <2>2
<1>5. CASE CronStep \/ ResetFails \/ CronCrash
  <2>1. CASE Requeue
    BY <2>1 DEF Requeue, Tasks
  <2>2. ASSUME Reset \/ ResetRefused \/ ResetFails \/ CronCrash
        PROVE  UNCHANGED arq
    BY <2>2 DEF Reset, ResetRefused, ResetFails, CronCrash
  <2> QED
    BY <1>0, <1>5, <2>1, <2>2 DEF CronStep
<1> QED
  BY <1>0, <1>1, <1>2, <1>3, <1>4, <1>5, Zenon DEF Next, Request, vars

LEMMA RunType ==
    ASSUME run \in [Jobs -> [Tasks -> Run]], [Next]_vars
    PROVE  run' \in [Jobs -> [Tasks -> Run]]
<1>0. ASSUME UNCHANGED run
      PROVE  run' \in [Jobs -> [Tasks -> Run]]
  BY <1>0 DEF Run, IdleRun
<1>1. ASSUME NEW c \in Clients, NEW j \in Jobs, Ingest(c, j) \/ CancelRead(c, j) \/ RetryRead(c, j)
      PROVE  run' \in [Jobs -> [Tasks -> Run]]
  BY <1>0, <1>1 DEF Ingest, CancelRead, RetryRead
<1>2. ASSUME NEW c \in Clients, RequestStep(c) \/ PublishError(c) \/ ApiCrash(c)
      PROVE  run' \in [Jobs -> [Tasks -> Run]]
  BY <1>0, <1>2 DEF RequestStep, Publish, MarkEnqueueFailed, RestoreRetryState, Cancel,
      Retry, RetryRaises, PublishError, ApiCrash
<1>3. ASSUME NEW j \in Jobs, NEW t \in Tasks, WorkerStep(j, t) \/ WorkerFault(j, t)
      PROVE  run' \in [Jobs -> [Tasks -> Run]]
  <2>1. CASE Start(j, t)
    BY <2>1, StartRuns
  <2>2. CASE Unique(j, t)
    <3>1. PICK b \in Bodies : run' = [run EXCEPT ![j][t] = [pc |-> "embed", same |-> FALSE, body |-> b]]
      BY <2>2 DEF Unique
    <3>2. [pc |-> "embed", same |-> FALSE, body |-> b] \in Run
      BY DEF Run
    <3> QED
      BY <1>3, <3>1, <3>2, UpdateTask
  <2>3. CASE Duplicate(j, t)
    <3>1. run' = [run EXCEPT ![j][t] = IdleRun]
      BY <2>3 DEF Duplicate, EndTask
    <3> QED
      BY <1>3, <3>1, UpdateTask DEF Run, IdleRun
  <2>4. CASE Store(j, t)
    <3>1. Step(j, t, "complete")
      BY <2>4 DEF Store
    <3> QED
      BY <1>3, <3>1, StepType
  <2>5. CASE Outrun(j, t)
    <3>1. Step(j, t, "fail_item")
      BY <2>5 DEF Outrun, HandleException
    <3> QED
      BY <1>3, <3>1, StepType
  <2>6. CASE Complete(j, t)
    <3>1. run' = [run EXCEPT ![j][t] = IdleRun]
      BY <2>6 DEF Complete, EndTask
    <3> QED
      BY <1>3, <3>1, UpdateTask DEF Run, IdleRun
  <2>7. CASE FailItem(j, t)
    <3>1. run' = [run EXCEPT ![j][t] = IdleRun]
      BY <2>7 DEF FailItem, EndTask
    <3> QED
      BY <1>3, <3>1, UpdateTask DEF Run, IdleRun
  <2>8. CASE CancelItem(j, t)
    <3>1. run' = [run EXCEPT ![j][t] = IdleRun]
      BY <2>8 DEF CancelItem, EndTask
    <3> QED
      BY <1>3, <3>1, UpdateTask DEF Run, IdleRun
  <2>9. CASE Fail(j, t)
    <3>1. Step(j, t, "fail_item")
      BY <2>9 DEF Fail, HandleException
    <3> QED
      BY <1>3, <3>1, StepType
  <2>10. CASE Abandon(j, t)
    <3>1. Step(j, t, "cancel_item")
      BY <2>10 DEF Abandon
    <3> QED
      BY <1>3, <3>1, StepType
  <2>11. CASE WorkerCrash(j, t)
    <3>1. run' = [run EXCEPT ![j][t] = IdleRun]
      BY <2>11 DEF WorkerCrash, EndTask
    <3> QED
      BY <1>3, <3>1, UpdateTask DEF Run, IdleRun
  <2>12. ASSUME QueueLoss(j, t)
        PROVE  UNCHANGED run
    BY <2>12 DEF QueueLoss
  <2> QED
    BY <1>0, <1>3, <2>1, <2>2, <2>3, <2>4, <2>5, <2>6, <2>7, <2>8, <2>9, <2>10, <2>11, <2>12 DEF
        WorkerStep, WorkerFault
<1>4. ASSUME NEW j \in Jobs, ForgetResult(j) \/ Check(j)
      PROVE  run' \in [Jobs -> [Tasks -> Run]]
  BY <1>0, <1>4 DEF ForgetResult, Check
<1>5. CASE CronStep \/ ResetFails \/ CronCrash
  BY <1>0, <1>5 DEF CronStep, Reset, ResetRefused, Requeue, ResetFails, CronCrash
<1> QED
  BY <1>0, <1>1, <1>2, <1>3, <1>4, <1>5, Zenon DEF Next, Request, vars

LEMMA ApiType ==
    ASSUME job \in [Jobs -> Job], item \in [Jobs -> Item], api \in [Clients -> Api], [Next]_vars
    PROVE  api' \in [Clients -> Api]
<1>0. ASSUME UNCHANGED api
      PROVE  api' \in [Clients -> Api]
  BY <1>0 DEF Api, JobStatus, ItemStatus, IdleApi
<1>1. ASSUME NEW c \in Clients, NEW j \in Jobs, Ingest(c, j) \/ CancelRead(c, j) \/ RetryRead(c, j)
      PROVE  api' \in [Clients -> Api]
  <2>1. CASE Ingest(c, j)
    BY <1>1, <2>1 DEF Ingest, Api, JobStatus, ItemStatus, IdleApi, Job, Item
  <2>2. CASE CancelRead(c, j)
    BY <1>1, <2>2 DEF CancelRead, Api, JobStatus, ItemStatus, IdleApi, Job, Item
  <2>3. CASE RetryRead(c, j)
    BY <1>1, <2>3 DEF RetryRead, Api, JobStatus, ItemStatus, IdleApi, Job, Item
  <2> QED
    BY <1>0, <1>1, <2>1, <2>2, <2>3
<1>2. ASSUME NEW c \in Clients, RequestStep(c) \/ PublishError(c) \/ ApiCrash(c)
      PROVE  api' \in [Clients -> Api]
  <2>1. CASE Publish(c)
    BY <1>2, <2>1 DEF Publish, Api, JobStatus, ItemStatus, IdleApi, Job, Item
  <2>2. CASE MarkEnqueueFailed(c)
    BY <1>2, <2>2 DEF MarkEnqueueFailed, Api, JobStatus, ItemStatus, IdleApi, Job, Item
  <2>3. CASE RestoreRetryState(c)
    BY <1>2, <2>3 DEF RestoreRetryState, Api, JobStatus, ItemStatus, IdleApi, Job, Item
  <2>4. CASE Cancel(c)
    BY <1>2, <2>4 DEF Cancel, Api, JobStatus, ItemStatus, IdleApi, Job, Item
  <2>5. CASE Retry(c)
    BY <1>2, <2>5 DEF Retry, Api, JobStatus, ItemStatus, IdleApi, Job, Item
  <2>6. CASE RetryRaises(c)
    BY <1>2, <2>6 DEF RetryRaises, Api, JobStatus, ItemStatus, IdleApi, Job, Item
  <2>7. CASE PublishError(c)
    BY <1>2, <2>7 DEF PublishError, Api, JobStatus, ItemStatus, IdleApi, Job, Item
  <2>8. CASE ApiCrash(c)
    BY <1>2, <2>8 DEF ApiCrash, Api, JobStatus, ItemStatus, IdleApi, Job, Item
  <2> QED
    BY <1>0, <1>2, <2>1, <2>2, <2>3, <2>4, <2>5, <2>6, <2>7, <2>8 DEF RequestStep
<1>3. ASSUME NEW j \in Jobs, NEW t \in Tasks, WorkerStep(j, t) \/ WorkerFault(j, t)
      PROVE  api' \in [Clients -> Api]
  BY <1>0, <1>3 DEF WorkerStep, WorkerFault, Start, Load, Join, FindNone, Create,
      BeginWork, Unique, Duplicate, Store,
      Outrun, Complete, FailItem, CancelItem, Fail, Abandon, WorkerCrash, QueueLoss,
      EndTask, HandleException
<1>4. ASSUME NEW j \in Jobs, ForgetResult(j) \/ Check(j)
      PROVE  api' \in [Clients -> Api]
  BY <1>0, <1>4 DEF ForgetResult, Check
<1>5. CASE CronStep \/ ResetFails \/ CronCrash
  BY <1>0, <1>5 DEF CronStep, Reset, ResetRefused, Requeue, ResetFails, CronCrash
<1> QED
  BY <1>0, <1>1, <1>2, <1>3, <1>4, <1>5, Zenon DEF Next, Request, vars

LEMMA CronType ==
    ASSUME cron \in Cron, [Next]_vars
    PROVE  cron' \in Cron
<1>0. ASSUME UNCHANGED cron
      PROVE  cron' \in Cron
  BY <1>0 DEF Cron, IdleCron
<1>1. ASSUME NEW c \in Clients, NEW j \in Jobs, Ingest(c, j) \/ CancelRead(c, j) \/ RetryRead(c, j)
      PROVE  cron' \in Cron
  BY <1>0, <1>1 DEF Ingest, CancelRead, RetryRead
<1>2. ASSUME NEW c \in Clients, RequestStep(c) \/ PublishError(c) \/ ApiCrash(c)
      PROVE  cron' \in Cron
  BY <1>0, <1>2 DEF RequestStep, Publish, MarkEnqueueFailed, RestoreRetryState, Cancel,
      Retry, RetryRaises, PublishError, ApiCrash
<1>3. ASSUME NEW j \in Jobs, NEW t \in Tasks, WorkerStep(j, t) \/ WorkerFault(j, t)
      PROVE  cron' \in Cron
  BY <1>0, <1>3 DEF WorkerStep, WorkerFault, Start, Load, Join, FindNone, Create,
      BeginWork, Unique, Duplicate, Store,
      Outrun, Complete, FailItem, CancelItem, Fail, Abandon, WorkerCrash, QueueLoss,
      EndTask, HandleException
<1>4. ASSUME NEW j \in Jobs, ForgetResult(j) \/ Check(j)
      PROVE  cron' \in Cron
  <2>1. CASE Check(j)
    BY <1>4, <2>1 DEF Check, Cron, IdleCron
  <2>2. ASSUME ForgetResult(j)
        PROVE  UNCHANGED cron
    BY <2>2 DEF ForgetResult
  <2> QED
    BY <1>0, <1>4, <2>1, <2>2
<1>5. CASE CronStep \/ ResetFails \/ CronCrash
  <2>1. CASE Reset
    BY <2>1 DEF Reset, Cron, IdleCron
  <2>2. CASE ResetRefused
    BY <2>2 DEF ResetRefused, Cron, IdleCron
  <2>3. CASE Requeue
    BY <2>3 DEF Requeue, Cron, IdleCron
  <2>4. CASE ResetFails \/ CronCrash
    BY <2>4 DEF ResetFails, CronCrash, Cron, IdleCron
  <2> QED
    BY <1>0, <1>5, <2>1, <2>2, <2>3, <2>4 DEF CronStep
<1> QED
  BY <1>0, <1>1, <1>2, <1>3, <1>4, <1>5, Zenon DEF Next, Request, vars

LEMMA AsksType ==
    ASSUME asks \in 0 .. MaxAsks, [Next]_vars
    PROVE  asks' \in 0 .. MaxAsks
<1>0. ASSUME UNCHANGED asks
      PROVE  asks' \in 0 .. MaxAsks
  BY <1>0
<1>1. ASSUME NEW c \in Clients, NEW j \in Jobs, Ingest(c, j) \/ CancelRead(c, j) \/ RetryRead(c, j)
      PROVE  asks' \in 0 .. MaxAsks
  <2>1. CASE CancelRead(c, j)
    BY <1>1, <2>1, BoundAssumption DEF CancelRead, Ask
  <2>2. CASE RetryRead(c, j)
    BY <1>1, <2>2, BoundAssumption DEF RetryRead, Ask
  <2>3. ASSUME Ingest(c, j)
        PROVE  UNCHANGED asks
    BY <2>3 DEF Ingest
  <2> QED
    BY <1>0, <1>1, <2>1, <2>2, <2>3
<1>2. ASSUME NEW c \in Clients, RequestStep(c) \/ PublishError(c) \/ ApiCrash(c)
      PROVE  asks' \in 0 .. MaxAsks
  BY <1>0, <1>2 DEF RequestStep, Publish, MarkEnqueueFailed, RestoreRetryState, Cancel,
      Retry, RetryRaises, PublishError, ApiCrash
<1>3. ASSUME NEW j \in Jobs, NEW t \in Tasks, WorkerStep(j, t) \/ WorkerFault(j, t)
      PROVE  asks' \in 0 .. MaxAsks
  BY <1>0, <1>3 DEF WorkerStep, WorkerFault, Start, Load, Join, FindNone, Create,
      BeginWork, Unique, Duplicate, Store,
      Outrun, Complete, FailItem, CancelItem, Fail, Abandon, WorkerCrash, QueueLoss,
      EndTask, HandleException
<1>4. ASSUME NEW j \in Jobs, ForgetResult(j) \/ Check(j)
      PROVE  asks' \in 0 .. MaxAsks
  BY <1>0, <1>4 DEF ForgetResult, Check
<1>5. CASE CronStep \/ ResetFails \/ CronCrash
  BY <1>0, <1>5 DEF CronStep, Reset, ResetRefused, Requeue, ResetFails, CronCrash
<1> QED
  BY <1>0, <1>1, <1>2, <1>3, <1>4, <1>5, Zenon DEF Next, Request, vars

LEMMA ErrorsType ==
    ASSUME errors \in 0 .. MaxErrors, [Next]_vars
    PROVE  errors' \in 0 .. MaxErrors
<1>0. ASSUME UNCHANGED errors
      PROVE  errors' \in 0 .. MaxErrors
  BY <1>0
<1>1. ASSUME NEW c \in Clients, NEW j \in Jobs, Ingest(c, j) \/ CancelRead(c, j) \/ RetryRead(c, j)
      PROVE  errors' \in 0 .. MaxErrors
  BY <1>0, <1>1 DEF Ingest, CancelRead, RetryRead
<1>2. ASSUME NEW c \in Clients, RequestStep(c) \/ PublishError(c) \/ ApiCrash(c)
      PROVE  errors' \in 0 .. MaxErrors
  <2>1. CASE PublishError(c)
    BY <1>2, <2>1, BoundAssumption DEF PublishError, Error
  <2>2. ASSUME Publish(c) \/ MarkEnqueueFailed(c) \/ RestoreRetryState(c) \/ Cancel(c) \/
             Retry(c) \/ RetryRaises(c) \/ ApiCrash(c)
        PROVE  UNCHANGED errors
    BY <2>2 DEF Publish, MarkEnqueueFailed, RestoreRetryState, Cancel, Retry,
        RetryRaises, ApiCrash
  <2> QED
    BY <1>0, <1>2, <2>1, <2>2 DEF RequestStep
<1>3. ASSUME NEW j \in Jobs, NEW t \in Tasks, WorkerStep(j, t) \/ WorkerFault(j, t)
      PROVE  errors' \in 0 .. MaxErrors
  <2>1. CASE Fail(j, t)
    <3>1. Error
      BY <2>1 DEF Fail
    <3> QED
      BY <3>1, BoundAssumption DEF Error
  <2>2. ASSUME Start(j, t) \/ Unique(j, t) \/ Duplicate(j, t) \/ Store(j, t) \/
             Outrun(j, t) \/ Complete(j, t) \/ FailItem(j, t) \/ CancelItem(j, t) \/
             Abandon(j, t) \/ WorkerCrash(j, t) \/ QueueLoss(j, t)
        PROVE  UNCHANGED errors
    BY <2>2 DEF Start, Load, Join, FindNone, Create, BeginWork, Unique, Duplicate, Store, Outrun, Complete, FailItem,
        CancelItem, Abandon, WorkerCrash, QueueLoss, EndTask, HandleException
  <2> QED
    BY <1>0, <1>3, <2>1, <2>2 DEF WorkerStep, WorkerFault
<1>4. ASSUME NEW j \in Jobs, ForgetResult(j) \/ Check(j)
      PROVE  errors' \in 0 .. MaxErrors
  BY <1>0, <1>4 DEF ForgetResult, Check
<1>5. CASE CronStep \/ ResetFails \/ CronCrash
  BY <1>0, <1>5 DEF CronStep, Reset, ResetRefused, Requeue, ResetFails, CronCrash
<1> QED
  BY <1>0, <1>1, <1>2, <1>3, <1>4, <1>5, Zenon DEF Next, Request, vars

LEMMA FaultsType ==
    ASSUME faults \in 0 .. MaxFaults, [Next]_vars
    PROVE  faults' \in 0 .. MaxFaults
<1>0. ASSUME UNCHANGED faults
      PROVE  faults' \in 0 .. MaxFaults
  BY <1>0
<1>1. ASSUME NEW c \in Clients, NEW j \in Jobs, Ingest(c, j) \/ CancelRead(c, j) \/ RetryRead(c, j)
      PROVE  faults' \in 0 .. MaxFaults
  BY <1>0, <1>1 DEF Ingest, CancelRead, RetryRead
<1>2. ASSUME NEW c \in Clients, RequestStep(c) \/ PublishError(c) \/ ApiCrash(c)
      PROVE  faults' \in 0 .. MaxFaults
  <2>1. CASE ApiCrash(c)
    BY <1>2, <2>1, BoundAssumption DEF ApiCrash, Fault
  <2>2. ASSUME Publish(c) \/ MarkEnqueueFailed(c) \/ RestoreRetryState(c) \/ Cancel(c) \/
             Retry(c) \/ RetryRaises(c) \/ PublishError(c)
        PROVE  UNCHANGED faults
    BY <2>2 DEF Publish, MarkEnqueueFailed, RestoreRetryState, Cancel, Retry,
        RetryRaises, PublishError
  <2> QED
    BY <1>0, <1>2, <2>1, <2>2 DEF RequestStep
<1>3. ASSUME NEW j \in Jobs, NEW t \in Tasks, WorkerStep(j, t) \/ WorkerFault(j, t)
      PROVE  faults' \in 0 .. MaxFaults
  <2>1. CASE Abandon(j, t)
    <3>1. Fault
      BY <2>1 DEF Abandon
    <3> QED
      BY <3>1, BoundAssumption DEF Fault
  <2>2. CASE WorkerCrash(j, t)
    BY <1>3, <2>2, BoundAssumption DEF WorkerCrash, Fault
  <2>3. CASE QueueLoss(j, t)
    BY <1>3, <2>3, BoundAssumption DEF QueueLoss, Fault
  <2>4. ASSUME Start(j, t) \/ Unique(j, t) \/ Duplicate(j, t) \/ Store(j, t) \/
             Outrun(j, t) \/ Complete(j, t) \/ FailItem(j, t) \/ CancelItem(j, t) \/
             Fail(j, t)
        PROVE  UNCHANGED faults
    BY <2>4 DEF Start, Load, Join, FindNone, Create, BeginWork, Unique, Duplicate, Store, Outrun, Complete, FailItem,
        CancelItem, Fail, EndTask, HandleException
  <2> QED
    BY <1>0, <1>3, <2>1, <2>2, <2>3, <2>4 DEF WorkerStep, WorkerFault
<1>4. ASSUME NEW j \in Jobs, ForgetResult(j) \/ Check(j)
      PROVE  faults' \in 0 .. MaxFaults
  BY <1>0, <1>4 DEF ForgetResult, Check
<1>5. CASE CronStep \/ ResetFails \/ CronCrash
  <2>1. CASE ResetFails \/ CronCrash
    <3>1. Fault
      BY <2>1 DEF ResetFails, CronCrash
    <3> QED
      BY <3>1, BoundAssumption DEF Fault
  <2>2. ASSUME Reset \/ ResetRefused \/ Requeue
        PROVE  UNCHANGED faults
    BY <2>2 DEF Reset, ResetRefused, Requeue
  <2> QED
    BY <1>0, <1>5, <2>1, <2>2 DEF CronStep
<1> QED
  BY <1>0, <1>1, <1>2, <1>3, <1>4, <1>5, Zenon DEF Next, Request, vars

\* TypeOK holds in every reachable state.
THEOREM TypeCorrect == Spec => []TypeOK
<1>1. Init => TypeOK
  <2>1. Init => job \in [Jobs -> Job]
    BY DEF Init, Job, JobStatus
  <2>2. Init => item \in [Jobs -> Item]
    BY DEF Init, Item, ItemStatus
  <2>3. Init => attempt \in [Jobs -> Attempt]
    BY DEF Init, Attempt, AttemptStatus
  <2>4. Init => arq \in [Jobs -> [Tasks -> {"none", "queued", "running", "result"}]]
    BY DEF Init
  <2>5. Init => run \in [Jobs -> [Tasks -> Run]]
    BY DEF Init, Run, IdleRun
  <2>6. Init => api \in [Clients -> Api]
    BY DEF Init, Api, IdleApi, JobStatus, ItemStatus
  <2>7. Init => cron \in Cron
    BY DEF Init, Cron, IdleCron
  <2>8. Init => asks \in 0 .. MaxAsks /\ errors \in 0 .. MaxErrors /\ faults \in 0 .. MaxFaults
    BY BoundAssumption DEF Init
  <2> QED
    BY <2>1, <2>2, <2>3, <2>4, <2>5, <2>6, <2>7, <2>8, Zenon DEF TypeOK
<1>2. TypeOK /\ [Next]_vars => TypeOK'
  BY JobType, ItemType, AttemptType, ArqType, RunType, ApiType, CronType, AsksType, ErrorsType,
      FaultsType DEF TypeOK
<1> QED
  BY <1>1, <1>2, PTL DEF Spec

-----------------------------------------------------------------------------
(* What is stored stays stored.  Vectors are never taken away, a hash is     *)
(* written with them, the worker is past Store only when they are there, and *)
(* what a request may write back is never "completed" or "duplicate".        *)

HashIsStored == \A i \in Jobs : item[i].hash # "none" => item[i].vec

StoredFirst == \A i \in Jobs, u \in Tasks : run[i][u].pc = "complete" => item[i].vec

RestoresOpen == \A d \in Clients : api[d].pc \in {"publish", "unpublished", "retry"}
                                      => api[d].job \in {"absent", "failed", "cancelled"}

\* What a duplicate names is a job.
DupNamed == \A i \in Jobs : job[i].status = "duplicate" => job[i].dup \in Jobs

Stored == HashIsStored /\ StoredFirst /\ RestoresOpen /\ DupNamed /\ SettledIsStored

\* A row keeps its vectors, and its hash unless vectors come with the new one.
VectorsStay == \A i \in Jobs : /\ item[i].vec => item'[i].vec
                               /\ item'[i].hash # item[i].hash => item'[i].vec

LEMMA VectorsStayNext ==
    ASSUME TypeOK, [Next]_vars
    PROVE  VectorsStay
<1>0. ASSUME UNCHANGED item
      PROVE  VectorsStay
  BY <1>0 DEF VectorsStay, TypeOK, Item
<1>1. ASSUME NEW c \in Clients, NEW j \in Jobs, Ingest(c, j) \/ CancelRead(c, j) \/ RetryRead(c, j)
      PROVE  VectorsStay
  <2>1. CASE Ingest(c, j)
    <3>1. SetItem(j, "processing")
      BY <2>1 DEF Ingest
    <3>2. "processing" \in ItemStatus
      BY DEF ItemStatus
    <3> QED
      BY <3>1, <3>2, SetItemKeeps DEF TypeOK, Item, VectorsStay
  <2>2. ASSUME CancelRead(c, j) \/ RetryRead(c, j)
        PROVE  UNCHANGED item
    BY <2>2 DEF CancelRead, RetryRead
  <2> QED
    BY <1>0, <1>1, <2>1, <2>2
<1>2. ASSUME NEW c \in Clients, RequestStep(c) \/ PublishError(c) \/ ApiCrash(c)
      PROVE  VectorsStay
  <2>1. CASE MarkEnqueueFailed(c)
    <3>1. SetItem(api[c].key, "failed")
      BY <2>1 DEF MarkEnqueueFailed
    <3>2. "failed" \in ItemStatus
      BY DEF ItemStatus
    <3> QED
      BY <3>1, <3>2, SetItemKeeps DEF TypeOK, Item, VectorsStay
  <2>2. CASE RestoreRetryState(c)
    <3>1. UNCHANGED item \/ SetItem(api[c].key, api[c].item)
      BY <2>2 DEF RestoreRetryState
    <3>2. api[c].item \in ItemStatus
      BY <1>2 DEF TypeOK, Item, VectorsStay, Api
    <3> QED
      BY <1>0, <3>1, <3>2, SetItemKeeps DEF TypeOK, Item, VectorsStay
  <2>3. CASE Cancel(c)
    <3>1. UNCHANGED item \/ SetItem(api[c].key, "failed")
      BY <2>3 DEF Cancel
    <3>2. "failed" \in ItemStatus
      BY DEF ItemStatus
    <3> QED
      BY <1>0, <3>1, <3>2, SetItemKeeps DEF TypeOK, Item, VectorsStay
  <2>4. CASE Retry(c)
    <3>1. UNCHANGED item \/ SetItem(api[c].key, "processing")
      BY <2>4 DEF Retry
    <3>2. "processing" \in ItemStatus
      BY DEF ItemStatus
    <3> QED
      BY <1>0, <3>1, <3>2, SetItemKeeps DEF TypeOK, Item, VectorsStay
  <2>5. ASSUME Publish(c) \/ RetryRaises(c) \/ PublishError(c) \/ ApiCrash(c)
        PROVE  UNCHANGED item
    BY <2>5 DEF Publish, RetryRaises, PublishError, ApiCrash
  <2> QED
    BY <1>0, <1>2, <2>1, <2>2, <2>3, <2>4, <2>5 DEF RequestStep
<1>3. ASSUME NEW j \in Jobs, NEW t \in Tasks, WorkerStep(j, t) \/ WorkerFault(j, t)
      PROVE  VectorsStay
  <2>1. CASE Duplicate(j, t)
    <3>1. SetItem(j, "failed")
      BY <2>1 DEF Duplicate
    <3>2. "failed" \in ItemStatus
      BY DEF ItemStatus
    <3> QED
      BY <3>1, <3>2, SetItemKeeps DEF TypeOK, Item, VectorsStay
  <2>2. CASE Store(j, t)
    <3>1. item' = [item EXCEPT ![j] = [status |-> "ready", hash |-> run[j][t].body, vec |-> TRUE]]
      BY <2>2 DEF Store
    <3> QED
      BY <1>3, <3>1 DEF TypeOK, Item, VectorsStay
  <2>3. CASE FailItem(j, t)
    <3>1. SetItem(j, "failed")
      BY <2>3 DEF FailItem
    <3>2. "failed" \in ItemStatus
      BY DEF ItemStatus
    <3> QED
      BY <3>1, <3>2, SetItemKeeps DEF TypeOK, Item, VectorsStay
  <2>4. CASE CancelItem(j, t)
    <3>1. UNCHANGED item \/ SetItem(j, "failed")
      BY <2>4 DEF CancelItem
    <3>2. "failed" \in ItemStatus
      BY DEF ItemStatus
    <3> QED
      BY <1>0, <3>1, <3>2, SetItemKeeps DEF TypeOK, Item, VectorsStay
  <2>5. ASSUME Start(j, t) \/ Unique(j, t) \/ Outrun(j, t) \/ Complete(j, t) \/ Fail(j, t) \/
             Abandon(j, t) \/ WorkerCrash(j, t) \/ QueueLoss(j, t)
        PROVE  UNCHANGED item
    BY <2>5 DEF Start, Load, Join, FindNone, Create, BeginWork, Unique, Outrun, Complete, Fail, Abandon, WorkerCrash,
        QueueLoss, HandleException, EndTask
  <2> QED
    BY <1>0, <1>3, <2>1, <2>2, <2>3, <2>4, <2>5 DEF WorkerStep, WorkerFault
<1>4. ASSUME NEW j \in Jobs, ForgetResult(j) \/ Check(j)
      PROVE  VectorsStay
  BY <1>0, <1>4 DEF ForgetResult, Check
<1>5. CASE CronStep \/ ResetFails \/ CronCrash
  <2>1. CASE Reset
    <3>1. SetItem(cron.key, "processing")
      BY <2>1 DEF Reset
    <3>2. "processing" \in ItemStatus
      BY DEF ItemStatus
    <3> QED
      BY <3>1, <3>2, SetItemKeeps DEF TypeOK, Item, VectorsStay
  <2>2. ASSUME ResetRefused \/ Requeue \/ ResetFails \/ CronCrash
        PROVE  UNCHANGED item
    BY <2>2 DEF ResetRefused, Requeue, ResetFails, CronCrash
  <2> QED
    BY <1>0, <1>5, <2>1, <2>2 DEF CronStep
<1> QED
  BY <1>0, <1>1, <1>2, <1>3, <1>4, <1>5, Zenon DEF Next, Request, vars

LEMMA StoredFirstNext ==
    ASSUME TypeOK, StoredFirst, VectorsStay, [Next]_vars
    PROVE  StoredFirst'
<1>0. ASSUME UNCHANGED run
      PROVE  StoredFirst'
  BY <1>0 DEF StoredFirst, VectorsStay
<1>1. ASSUME NEW c \in Clients, NEW j \in Jobs, Ingest(c, j) \/ CancelRead(c, j) \/ RetryRead(c, j)
      PROVE  StoredFirst'
  BY <1>0, <1>1 DEF Ingest, CancelRead, RetryRead
<1>2. ASSUME NEW c \in Clients, RequestStep(c) \/ PublishError(c) \/ ApiCrash(c)
      PROVE  StoredFirst'
  BY <1>0, <1>2 DEF RequestStep, Publish, MarkEnqueueFailed, RestoreRetryState, Cancel,
      Retry, RetryRaises, PublishError, ApiCrash
<1>3. ASSUME NEW j \in Jobs, NEW t \in Tasks, WorkerStep(j, t) \/ WorkerFault(j, t)
      PROVE  StoredFirst'
  <2>1. CASE Start(j, t)
    <3>1. \A i \in Jobs, v \in Tasks : run'[i][v] # run[i][v]
                                            => run'[i][v].pc \in {"begin", "create", "extract"}
      BY <1>3, <2>1, StartRuns DEF TypeOK, StartMoves
    <3> QED
      BY <3>1 DEF StoredFirst, VectorsStay
  <2>2. CASE Unique(j, t)
    <3>1. PICK b \in Bodies : run' = [run EXCEPT ![j][t] = [pc |-> "embed", same |-> FALSE, body |-> b]]
      BY <2>2 DEF Unique
    <3>2. [pc |-> "embed", same |-> FALSE, body |-> b] \in Run
      BY DEF Run
    <3> QED
      BY <1>3, <3>1, <3>2, UpdateTask DEF TypeOK, StoredFirst, VectorsStay
  <2>3. CASE Duplicate(j, t)
    <3>1. run' = [run EXCEPT ![j][t] = IdleRun]
      BY <2>3 DEF Duplicate, EndTask
    <3>2. IdleRun \in Run
      BY DEF Run, IdleRun
    <3> QED
      BY <1>3, <3>1, <3>2, UpdateTask DEF TypeOK, StoredFirst, VectorsStay, IdleRun
  <2>4. CASE Store(j, t)
    <3>1. Step(j, t, "complete")
      BY <2>4 DEF Store
    <3>2. item'[j].vec
      BY <2>4, <1>3 DEF Store, TypeOK
    <3>3. run \in [Jobs -> [Tasks -> Run]]
      BY DEF TypeOK
    <3>4. ASSUME NEW i \in Jobs, NEW v \in Tasks
          PROVE  run'[i][v] # run[i][v] => i = j /\ run'[i][v].pc = "complete"
      BY <3>1, <3>3, StepMoves
    <3> QED
      BY <3>2, <3>4 DEF StoredFirst, VectorsStay
  <2>5. CASE Outrun(j, t)
    <3>1. Step(j, t, "fail_item")
      BY <2>5 DEF Outrun, HandleException
    <3>2. run \in [Jobs -> [Tasks -> Run]]
      BY DEF TypeOK
    <3>3. ASSUME NEW i \in Jobs, NEW v \in Tasks
          PROVE  run'[i][v] # run[i][v] => i = j /\ run'[i][v].pc = "fail_item"
      BY <3>1, <3>2, StepMoves
    <3> QED
      BY <3>3 DEF StoredFirst, VectorsStay
  <2>6. CASE Complete(j, t)
    <3>1. run' = [run EXCEPT ![j][t] = IdleRun]
      BY <2>6 DEF Complete, EndTask
    <3>2. IdleRun \in Run
      BY DEF Run, IdleRun
    <3> QED
      BY <1>3, <3>1, <3>2, UpdateTask DEF TypeOK, StoredFirst, VectorsStay, IdleRun
  <2>7. CASE FailItem(j, t)
    <3>1. run' = [run EXCEPT ![j][t] = IdleRun]
      BY <2>7 DEF FailItem, EndTask
    <3>2. IdleRun \in Run
      BY DEF Run, IdleRun
    <3> QED
      BY <1>3, <3>1, <3>2, UpdateTask DEF TypeOK, StoredFirst, VectorsStay, IdleRun
  <2>8. CASE CancelItem(j, t)
    <3>1. run' = [run EXCEPT ![j][t] = IdleRun]
      BY <2>8 DEF CancelItem, EndTask
    <3>2. IdleRun \in Run
      BY DEF Run, IdleRun
    <3> QED
      BY <1>3, <3>1, <3>2, UpdateTask DEF TypeOK, StoredFirst, VectorsStay, IdleRun
  <2>9. CASE Fail(j, t)
    <3>1. Step(j, t, "fail_item")
      BY <2>9 DEF Fail, HandleException
    <3>2. run \in [Jobs -> [Tasks -> Run]]
      BY DEF TypeOK
    <3>3. ASSUME NEW i \in Jobs, NEW v \in Tasks
          PROVE  run'[i][v] # run[i][v] => i = j /\ run'[i][v].pc = "fail_item"
      BY <3>1, <3>2, StepMoves
    <3> QED
      BY <3>3 DEF StoredFirst, VectorsStay
  <2>10. CASE Abandon(j, t)
    <3>1. Step(j, t, "cancel_item")
      BY <2>10 DEF Abandon
    <3>2. run \in [Jobs -> [Tasks -> Run]]
      BY DEF TypeOK
    <3>3. ASSUME NEW i \in Jobs, NEW v \in Tasks
          PROVE  run'[i][v] # run[i][v] => i = j /\ run'[i][v].pc = "cancel_item"
      BY <3>1, <3>2, StepMoves
    <3> QED
      BY <3>3 DEF StoredFirst, VectorsStay
  <2>11. CASE WorkerCrash(j, t)
    <3>1. run' = [run EXCEPT ![j][t] = IdleRun]
      BY <2>11 DEF WorkerCrash, EndTask
    <3>2. IdleRun \in Run
      BY DEF Run, IdleRun
    <3> QED
      BY <1>3, <3>1, <3>2, UpdateTask DEF TypeOK, StoredFirst, VectorsStay, IdleRun
  <2>12. ASSUME QueueLoss(j, t)
        PROVE  UNCHANGED run
    BY <2>12 DEF QueueLoss
  <2> QED
    BY <1>0, <1>3, <2>1, <2>2, <2>3, <2>4, <2>5, <2>6, <2>7, <2>8, <2>9, <2>10, <2>11, <2>12 DEF
        WorkerStep, WorkerFault
<1>4. ASSUME NEW j \in Jobs, ForgetResult(j) \/ Check(j)
      PROVE  StoredFirst'
  BY <1>0, <1>4 DEF ForgetResult, Check
<1>5. CASE CronStep \/ ResetFails \/ CronCrash
  BY <1>0, <1>5 DEF CronStep, Reset, ResetRefused, Requeue, ResetFails, CronCrash
<1> QED
  BY <1>0, <1>1, <1>2, <1>3, <1>4, <1>5, Zenon DEF Next, Request, vars

LEMMA RestoresOpenNext ==
    ASSUME TypeOK, RestoresOpen, [Next]_vars
    PROVE  RestoresOpen'
<1>0. ASSUME UNCHANGED api
      PROVE  RestoresOpen'
  BY <1>0 DEF RestoresOpen
<1>1. ASSUME NEW c \in Clients, NEW j \in Jobs, Ingest(c, j) \/ CancelRead(c, j) \/ RetryRead(c, j)
      PROVE  RestoresOpen'
  <2>1. CASE Ingest(c, j)
    BY <1>1, <2>1 DEF Ingest, RestoresOpen, TypeOK, Api, IdleApi
  <2>2. CASE CancelRead(c, j)
    BY <1>1, <2>2 DEF CancelRead, RestoresOpen, TypeOK, Api, IdleApi
  <2>3. CASE RetryRead(c, j)
    BY <1>1, <2>3 DEF RetryRead, RestoresOpen, TypeOK, Api, IdleApi
  <2> QED
    BY <1>0, <1>1, <2>1, <2>2, <2>3
<1>2. ASSUME NEW c \in Clients, RequestStep(c) \/ PublishError(c) \/ ApiCrash(c)
      PROVE  RestoresOpen'
  <2>1. CASE Publish(c)
    BY <1>2, <2>1 DEF Publish, RestoresOpen, TypeOK, Api, IdleApi
  <2>2. CASE MarkEnqueueFailed(c)
    BY <1>2, <2>2 DEF MarkEnqueueFailed, RestoresOpen, TypeOK, Api, IdleApi
  <2>3. CASE RestoreRetryState(c)
    BY <1>2, <2>3 DEF RestoreRetryState, RestoresOpen, TypeOK, Api, IdleApi
  <2>4. CASE Cancel(c)
    BY <1>2, <2>4 DEF Cancel, RestoresOpen, TypeOK, Api, IdleApi
  <2>5. CASE Retry(c)
    BY <1>2, <2>5 DEF Retry, RestoresOpen, TypeOK, Api, IdleApi
  <2>6. CASE RetryRaises(c)
    BY <1>2, <2>6 DEF RetryRaises, RestoresOpen, TypeOK, Api, IdleApi
  <2>7. CASE PublishError(c)
    BY <1>2, <2>7 DEF PublishError, RestoresOpen, TypeOK, Api, IdleApi
  <2>8. CASE ApiCrash(c)
    BY <1>2, <2>8 DEF ApiCrash, RestoresOpen, TypeOK, Api, IdleApi
  <2> QED
    BY <1>0, <1>2, <2>1, <2>2, <2>3, <2>4, <2>5, <2>6, <2>7, <2>8 DEF RequestStep
<1>3. ASSUME NEW j \in Jobs, NEW t \in Tasks, WorkerStep(j, t) \/ WorkerFault(j, t)
      PROVE  RestoresOpen'
  BY <1>0, <1>3 DEF WorkerStep, WorkerFault, Start, Load, Join, FindNone, Create,
      BeginWork, Unique, Duplicate, Store,
      Outrun, Complete, FailItem, CancelItem, Fail, Abandon, WorkerCrash, QueueLoss,
      EndTask, HandleException
<1>4. ASSUME NEW j \in Jobs, ForgetResult(j) \/ Check(j)
      PROVE  RestoresOpen'
  BY <1>0, <1>4 DEF ForgetResult, Check
<1>5. CASE CronStep \/ ResetFails \/ CronCrash
  BY <1>0, <1>5 DEF CronStep, Reset, ResetRefused, Requeue, ResetFails, CronCrash
<1> QED
  BY <1>0, <1>1, <1>2, <1>3, <1>4, <1>5, Zenon DEF Next, Request, vars

LEMMA SettledNext ==
    ASSUME TypeOK, Stored, VectorsStay, [Next]_vars
    PROVE  DupNamed' /\ SettledIsStored'
<1>0. ASSUME UNCHANGED job
      PROVE  DupNamed' /\ SettledIsStored'
  BY <1>0 DEF Stored, DupNamed, SettledIsStored, VectorsStay
<1>1. ASSUME NEW c \in Clients, NEW j \in Jobs, Ingest(c, j) \/ CancelRead(c, j) \/ RetryRead(c, j)
      PROVE  DupNamed' /\ SettledIsStored'
  <2>1. CASE Ingest(c, j)
    <3>1. SetJob(j, "queued")
      BY <2>1 DEF Ingest
    <3> QED
      BY <3>1 DEF SetJob, TypeOK, Stored, SettledIsStored, VectorsStay, DupNamed
  <2>2. ASSUME CancelRead(c, j) \/ RetryRead(c, j)
        PROVE  UNCHANGED job
    BY <2>2 DEF CancelRead, RetryRead
  <2> QED
    BY <1>0, <1>1, <2>1, <2>2
<1>2. ASSUME NEW c \in Clients, RequestStep(c) \/ PublishError(c) \/ ApiCrash(c)
      PROVE  DupNamed' /\ SettledIsStored'
  <2>1. CASE MarkEnqueueFailed(c)
    <3>1. SetJob(api[c].key, "failed")
      BY <2>1 DEF MarkEnqueueFailed
    <3> QED
      BY <3>1 DEF SetJob, TypeOK, Stored, SettledIsStored, VectorsStay, DupNamed
  <2>2. CASE RestoreRetryState(c)
    <3>1. UNCHANGED job \/ SetJob(api[c].key, api[c].job)
      BY <2>2 DEF RestoreRetryState
    <3>2. api[c].job \notin {"completed", "duplicate"}
      BY <1>2, <2>2 DEF RestoreRetryState, Stored, RestoresOpen
    <3>3. UNCHANGED job \/ \A i \in Jobs : job'[i] = job[i] \/ job'[i].status = api[c].job
      BY <3>1 DEF SetJob, TypeOK
    <3> QED
      BY <1>0, <3>2, <3>3 DEF SetJob, TypeOK, Stored, SettledIsStored, VectorsStay, DupNamed
  <2>3. CASE Cancel(c)
    <3>1. SetJob(api[c].key, "cancelled")
      BY <2>3 DEF Cancel
    <3> QED
      BY <3>1 DEF SetJob, TypeOK, Stored, SettledIsStored, VectorsStay, DupNamed
  <2>4. CASE Retry(c)
    <3>1. SetJob(api[c].key, "queued")
      BY <2>4 DEF Retry
    <3> QED
      BY <3>1 DEF SetJob, TypeOK, Stored, SettledIsStored, VectorsStay, DupNamed
  <2>5. ASSUME Publish(c) \/ RetryRaises(c) \/ PublishError(c) \/ ApiCrash(c)
        PROVE  UNCHANGED job
    BY <2>5 DEF Publish, RetryRaises, PublishError, ApiCrash
  <2> QED
    BY <1>0, <1>2, <2>1, <2>2, <2>3, <2>4, <2>5 DEF RequestStep
<1>3. ASSUME NEW j \in Jobs, NEW t \in Tasks, WorkerStep(j, t) \/ WorkerFault(j, t)
      PROVE  DupNamed' /\ SettledIsStored'
  <2>1. CASE Start(j, t)
    <3>1. CASE SetJob(j, "processing")
      BY <3>1 DEF SetJob, TypeOK, Stored, SettledIsStored, VectorsStay, DupNamed
    <3> QED
      BY <1>0, <2>1, <3>1, StartJob
  <2>2. CASE Duplicate(j, t)
    <3>1. PICK b \in Bodies : \E r \in Rivals(j, b) :
              job' = [job EXCEPT ![j] = [status |-> "duplicate", dup |-> r]]
      BY <2>2 DEF Duplicate
    <3>11. PICK r \in Rivals(j, b) : job' = [job EXCEPT ![j] = [status |-> "duplicate", dup |-> r]]
      BY <3>1
    <3>2. r \in Jobs /\ item[r].vec
      BY <3>11, <3>1, NameAssumption DEF Rivals, Stored, HashIsStored
    <3>3. \A i \in Jobs : job'[i] = IF i = j THEN [status |-> "duplicate", dup |-> r] ELSE job[i]
      BY <3>11 DEF TypeOK
    <3> QED
      BY <3>2, <3>3 DEF DupNamed, Stored, SettledIsStored, VectorsStay
  <2>3. CASE Outrun(j, t)
    <3>1. SetJob(j, "failed")
      BY <2>3 DEF Outrun, HandleException
    <3> QED
      BY <3>1 DEF SetJob, TypeOK, Stored, SettledIsStored, VectorsStay, DupNamed
  <2>4. CASE Complete(j, t)
    <3>1. SetJob(j, "completed")
      BY <2>4 DEF Complete
    <3>2. item[j].vec
      BY <1>3, <2>4 DEF Complete, Stored, StoredFirst
    <3> QED
      BY <3>1, <3>2 DEF SetJob, TypeOK, Stored, SettledIsStored, VectorsStay, DupNamed
  <2>5. CASE Fail(j, t)
    <3>1. SetJob(j, "failed")
      BY <2>5 DEF Fail, HandleException
    <3> QED
      BY <3>1 DEF SetJob, TypeOK, Stored, SettledIsStored, VectorsStay, DupNamed
  <2>6. CASE Abandon(j, t)
    <3>1. SetJob(j, "cancelled")
      BY <2>6 DEF Abandon
    <3> QED
      BY <3>1 DEF SetJob, TypeOK, Stored, SettledIsStored, VectorsStay, DupNamed
  <2>7. ASSUME Unique(j, t) \/ Store(j, t) \/ FailItem(j, t) \/ CancelItem(j, t) \/
             WorkerCrash(j, t) \/ QueueLoss(j, t)
        PROVE  UNCHANGED job
    BY <2>7 DEF Unique, Store, FailItem, CancelItem, WorkerCrash, QueueLoss, EndTask
  <2> QED
    BY <1>0, <1>3, <2>1, <2>2, <2>3, <2>4, <2>5, <2>6, <2>7 DEF WorkerStep, WorkerFault
<1>4. ASSUME NEW j \in Jobs, ForgetResult(j) \/ Check(j)
      PROVE  DupNamed' /\ SettledIsStored'
  BY <1>0, <1>4 DEF ForgetResult, Check
<1>5. CASE CronStep \/ ResetFails \/ CronCrash
  <2>1. CASE Reset
    <3>1. SetJob(cron.key, "queued")
      BY <2>1 DEF Reset
    <3> QED
      BY <3>1 DEF SetJob, TypeOK, Stored, SettledIsStored, VectorsStay, DupNamed
  <2>2. ASSUME ResetRefused \/ Requeue \/ CronCrash
        PROVE  UNCHANGED job
    BY <2>2 DEF ResetRefused, Requeue, CronCrash
  <2>3. CASE ResetFails
    <3>1. SetJob(cron.key, "failed")
      BY <2>3 DEF ResetFails
    <3> QED
      BY <3>1 DEF SetJob, TypeOK, Stored, SettledIsStored, VectorsStay, DupNamed
  <2> QED
    BY <1>0, <1>5, <2>1, <2>2, <2>3 DEF CronStep
<1> QED
  BY <1>0, <1>1, <1>2, <1>3, <1>4, <1>5, Zenon DEF Next, Request, vars

\* SettledIsStored holds in every reachable state.
THEOREM SettledStored == Spec => []SettledIsStored
<1>1. Init => Stored
  BY DEF Init, Stored, HashIsStored, StoredFirst, RestoresOpen, DupNamed, SettledIsStored,
      IdleRun, IdleApi
<1>2. TypeOK /\ Stored /\ [Next]_vars => Stored'
  <2> SUFFICES ASSUME TypeOK, Stored, [Next]_vars
               PROVE  Stored'
    OBVIOUS
  <2>0. VectorsStay
    BY VectorsStayNext
  <2>1. HashIsStored'
    BY <2>0 DEF Stored, HashIsStored, VectorsStay
  <2>2. StoredFirst' /\ RestoresOpen'
    BY <2>0, StoredFirstNext, RestoresOpenNext DEF Stored
  <2> QED
    BY <2>0, <2>1, <2>2, SettledNext DEF Stored
<1>3. Stored => SettledIsStored
  BY DEF Stored
<1> QED
  BY <1>1, <1>2, <1>3, TypeCorrect, PTL DEF Spec

-----------------------------------------------------------------------------
(* The attempt.  A task that runs is one that ARQ has in progress, so a step *)
(* that takes a cell of the queue takes it from no other task; who stops     *)
(* working on a job closes its attempt, or ARQ has the task queued again.    *)

RunsInArq == \A i \in Jobs, v \in Tasks : run[i][v].pc # "idle" => arq[i][v] = "running"

Closed(i) == attempt'[i].status # "processing"

\* What a step may do to a task and its execution.
CellMoves(i, v) ==
    \/ run'[i][v] = run[i][v] /\ arq'[i][v] = arq[i][v]
    \/ run'[i][v] = run[i][v] /\ arq[i][v] = "none" /\ arq'[i][v] = "queued"
    \/ run'[i][v] = run[i][v] /\ arq[i][v] \in {"queued", "result"} /\ arq'[i][v] = "none"
    \/ run'[i][v].pc = "begin" /\ arq[i][v] = "queued" /\ arq'[i][v] = "running"
    \/ /\ arq'[i][v] = arq[i][v] /\ run[i][v].pc \in Began
       /\ run'[i][v].pc \in Began \/ Closed(i)
    \/ /\ run'[i][v].pc = "idle"
       /\ arq'[i][v] = "queued" \/ (arq[i][v] = "running" /\ (run[i][v].pc \notin Began \/ Closed(i)))

CellsMove == \A i \in Jobs, v \in Tasks : CellMoves(i, v)

LEMMA FinishCloses ==
    ASSUME attempt \in [Jobs -> Attempt], NEW k \in Jobs, NEW s \in {"completed", "failed"},
           Finish(k, s)
    PROVE  /\ Closed(k)
           /\ \A i \in Jobs : attempt'[i].status = "processing" => attempt[i].status = "processing"
<1> DEFINE new == [attempt[k] EXCEPT !.status = IF Active(k) THEN s ELSE @]
<1>1. attempt' = [attempt EXCEPT ![k] = new]
  BY DEF Finish
<1>2. new.status # "processing"
  BY DEF Attempt, Active, ActiveAttempt
<1> HIDE DEF new
<1> QED
  BY <1>1, <1>2 DEF Closed

\* The execution moves, and the queue does not.
LEMMA StepCells ==
    ASSUME TypeOK, NEW k \in Jobs, NEW u \in Tasks, NEW p, Step(k, u, p), UNCHANGED arq,
           run[k][u].pc \in Began, p \in Began \/ Closed(k)
    PROVE  CellsMove
<1>1. ASSUME NEW i \in Jobs, NEW v \in Tasks
      PROVE  CellMoves(i, v)
  BY StepMoves DEF TypeOK, CellMoves
<1> QED
  BY <1>1 DEF CellsMove

\* The execution ends.
LEMMA EndCells ==
    ASSUME TypeOK, NEW k \in Jobs, NEW u \in Tasks, NEW x \in {"none", "queued", "running", "result"},
           run' = [run EXCEPT ![k][u] = IdleRun], arq' = [arq EXCEPT ![k][u] = x],
           x = "queued" \/ (arq[k][u] = "running" /\ (run[k][u].pc \notin Began \/ Closed(k)))
    PROVE  CellsMove
<1>1. IdleRun \in Run /\ IdleRun.pc = "idle"
  BY DEF Run, IdleRun
<1>2. \A i \in Jobs, v \in Tasks : run'[i][v] = IF i = k /\ v = u THEN IdleRun ELSE run[i][v]
  BY <1>1, UpdateTask DEF TypeOK
<1>3. \A i \in Jobs, v \in Tasks : arq'[i][v] = IF i = k /\ v = u THEN x ELSE arq[i][v]
  BY UpdateTask DEF TypeOK
<1>4. ASSUME NEW i \in Jobs, NEW v \in Tasks
      PROVE  CellMoves(i, v)
  BY <1>1, <1>2, <1>3, <1>4 DEF CellMoves
<1> QED
  BY <1>4 DEF CellsMove

LEMMA EndTaskCells ==
    ASSUME TypeOK, RunsInArq, NEW k \in Jobs, NEW u \in Tasks, EndTask(k, u), run[k][u].pc # "idle",
           run[k][u].pc \notin Began \/ Closed(k)
    PROVE  CellsMove
<1>1. PICK x \in {"none", "result"} : arq' = [arq EXCEPT ![k][u] = x]
  BY DEF EndTask
<1>2. run' = [run EXCEPT ![k][u] = IdleRun]
  BY DEF EndTask
<1>3. arq[k][u] = "running"
  BY DEF RunsInArq
<1> QED
  BY <1>1, <1>2, <1>3, EndCells

\* Only the queue moves.
LEMMA QueueCells ==
    ASSUME TypeOK, NEW k \in Jobs, NEW u \in Tasks, NEW x \in {"none", "queued", "running", "result"},
           UNCHANGED run, arq' = [arq EXCEPT ![k][u] = x],
           \/ x = arq[k][u]
           \/ x = "queued" /\ arq[k][u] = "none"
           \/ x = "none" /\ arq[k][u] \in {"queued", "result"}
    PROVE  CellsMove
<1>1. \A i \in Jobs, v \in Tasks : arq'[i][v] = IF i = k /\ v = u THEN x ELSE arq[i][v]
  BY UpdateTask DEF TypeOK
<1>2. ASSUME NEW i \in Jobs, NEW v \in Tasks
      PROVE  CellMoves(i, v)
  BY <1>1, <1>2 DEF CellMoves
<1> QED
  BY <1>2 DEF CellsMove

LEMMA CellsNext ==
    ASSUME TypeOK, RunsInArq, [Next]_vars
    PROVE  CellsMove
<1>0. ASSUME UNCHANGED <<arq, run>>
      PROVE  CellsMove
  BY <1>0 DEF CellsMove, CellMoves
<1>1. ASSUME NEW c \in Clients, NEW j \in Jobs, Ingest(c, j) \/ CancelRead(c, j) \/ RetryRead(c, j)
      PROVE  CellsMove
  BY <1>0, <1>1 DEF Ingest, CancelRead, RetryRead
<1>2. ASSUME NEW c \in Clients, RequestStep(c) \/ PublishError(c) \/ ApiCrash(c)
      PROVE  CellsMove
  <2>1. CASE Publish(c) \/ PublishError(c)
    <3>1. UNCHANGED run /\ (UNCHANGED arq \/ Enqueued(api[c].key))
      BY <2>1 DEF Publish, PublishError
    <3>2. ASSUME Enqueued(api[c].key)
          PROVE  CellsMove
      <4>1. PICK u \in Tasks : /\ arq[api[c].key][u] = "none"
                               /\ arq' = [arq EXCEPT ![api[c].key][u] = "queued"]
        BY <3>2 DEF Enqueued
      <4>2. CASE api[c].key \in Jobs
        BY <3>1, <4>1, <4>2, QueueCells
      <4>3. CASE api[c].key \notin Jobs
        <5>1. UNCHANGED arq
          BY <4>1, <4>3 DEF TypeOK
        <5> QED
          BY <1>0, <3>1, <5>1
      <4> QED
        BY <4>2, <4>3
    <3> QED
      BY <1>0, <3>1, <3>2
  <2>2. ASSUME MarkEnqueueFailed(c) \/ RestoreRetryState(c) \/ Cancel(c) \/ Retry(c) \/
             RetryRaises(c) \/ ApiCrash(c)
        PROVE  UNCHANGED <<arq, run>>
    BY <2>2 DEF MarkEnqueueFailed, RestoreRetryState, Cancel, Retry, RetryRaises, ApiCrash
  <2> QED
    BY <1>0, <1>2, <2>1, <2>2 DEF RequestStep
<1>3. ASSUME NEW j \in Jobs, NEW t \in Tasks, WorkerStep(j, t) \/ WorkerFault(j, t)
      PROVE  CellsMove
  <2>1. CASE Load(j, t)
    <3>1. /\ arq[j][t] = "queued"
          /\ \A i \in Jobs, v \in Tasks :
                arq'[i][v] = IF i = j /\ v = t THEN "running" ELSE arq[i][v]
      BY <1>3, <2>1, UpdateTask DEF Load, TypeOK
    <3> DEFINE new == [pc |-> "begin", same |-> job[j].status = "processing", body |-> "none"]
    <3>2. new \in Run /\ new.pc = "begin"
      BY DEF Run
    <3>3. run' = [run EXCEPT ![j][t] = new]
      BY <2>1 DEF Load
    <3> HIDE DEF new
    <3>4. \A i \in Jobs, v \in Tasks : run'[i][v] = IF i = j /\ v = t THEN new ELSE run[i][v]
      BY <1>3, <3>2, <3>3, UpdateTask DEF TypeOK
    <3>5. ASSUME NEW i \in Jobs, NEW v \in Tasks
          PROVE  CellMoves(i, v)
      BY <3>1, <3>2, <3>4, <3>5 DEF CellMoves
    <3> QED
      BY <3>5 DEF CellsMove
  <2>2. CASE Join(j, t) \/ FindNone(j, t) \/ Create(j, t)
    <3>1. UNCHANGED arq /\ run[j][t].pc \in Began
      BY <2>2 DEF Join, FindNone, Create, Began
    <3>2. Start(j, t)
      BY <2>2 DEF Start
    <3>3. \A i \in Jobs, v \in Tasks : run'[i][v] # run[i][v] =>
              i = j /\ v = t /\ run'[i][v].pc \in {"begin", "create", "extract"}
      BY <1>3, <3>2, StartRuns DEF TypeOK, StartMoves
    <3>4. ASSUME NEW i \in Jobs, NEW v \in Tasks
          PROVE  CellMoves(i, v)
      BY <3>1, <3>3, <3>4 DEF CellMoves, Began
    <3> QED
      BY <3>4 DEF CellsMove
  <2>3. CASE Unique(j, t)
    <3>1. PICK b \in Bodies : run' = [run EXCEPT ![j][t] = [pc |-> "embed", same |-> FALSE, body |-> b]]
      BY <2>3 DEF Unique
    <3> DEFINE new == [pc |-> "embed", same |-> FALSE, body |-> b]
    <3>2. new \in Run /\ new.pc \in Began
      BY DEF Run, Began
    <3>3. UNCHANGED arq /\ run[j][t].pc \in Began
      BY <2>3 DEF Unique, Began
    <3> HIDE DEF new
    <3>4. \A i \in Jobs, v \in Tasks : run'[i][v] = IF i = j /\ v = t THEN new ELSE run[i][v]
      BY <1>3, <3>1, <3>2, UpdateTask DEF TypeOK, new
    <3>5. ASSUME NEW i \in Jobs, NEW v \in Tasks
          PROVE  CellMoves(i, v)
      BY <3>2, <3>3, <3>4, <3>5 DEF CellMoves
    <3> QED
      BY <3>5 DEF CellsMove
  <2>4. CASE Store(j, t)
    BY <1>3, <2>4, StepCells DEF Store, Began
  <2>5. CASE Duplicate(j, t)
    <3>1. Finish(j, "completed") /\ EndTask(j, t) /\ run[j][t].pc # "idle"
      BY <2>5 DEF Duplicate
    <3> QED
      BY <1>3, <3>1, FinishCloses, EndTaskCells DEF TypeOK
  <2>6. CASE Complete(j, t)
    <3>1. Finish(j, "completed") /\ EndTask(j, t) /\ run[j][t].pc # "idle"
      BY <2>6 DEF Complete
    <3> QED
      BY <1>3, <3>1, FinishCloses, EndTaskCells DEF TypeOK
  <2>7. CASE Outrun(j, t) \/ Fail(j, t)
    <3>1. Finish(j, "failed") /\ Step(j, t, "fail_item") /\ UNCHANGED arq /\ run[j][t].pc \in Began
      BY <2>7 DEF Outrun, Fail, HandleException, Began
    <3> QED
      BY <1>3, <3>1, FinishCloses, StepCells DEF TypeOK
  <2>8. CASE Abandon(j, t)
    <3>1. Finish(j, "failed") /\ Step(j, t, "cancel_item") /\ UNCHANGED arq /\ run[j][t].pc \in Began
      BY <2>8 DEF Abandon
    <3> QED
      BY <1>3, <3>1, FinishCloses, StepCells DEF TypeOK
  <2>9. CASE FailItem(j, t)
    BY <1>3, <2>9, EndTaskCells DEF FailItem, Began
  <2>10. CASE CancelItem(j, t)
    <3>1. CASE EndTask(j, t)
      BY <1>3, <2>10, <3>1, EndTaskCells DEF CancelItem, Began
    <3>2. CASE run' = [run EXCEPT ![j][t] = IdleRun] /\ arq' = [arq EXCEPT ![j][t] = "queued"]
      BY <1>3, <3>2, EndCells
    <3> QED
      BY <2>10, <3>1, <3>2 DEF CancelItem
  <2>11. CASE WorkerCrash(j, t)
    BY <1>3, <2>11, EndCells DEF WorkerCrash
  <2>12. CASE QueueLoss(j, t)
    BY <1>3, <2>12, QueueCells DEF QueueLoss
  <2> QED
    BY <1>3, <2>1, <2>2, <2>3, <2>4, <2>5, <2>6, <2>7, <2>8, <2>9, <2>10, <2>11, <2>12
        DEF WorkerStep, WorkerFault, Start
<1>4. ASSUME NEW j \in Jobs, ForgetResult(j) \/ Check(j)
      PROVE  CellsMove
  <2>1. CASE ForgetResult(j)
    <3>1. 0 \in Tasks
      BY BoundAssumption DEF Tasks
    <3> QED
      BY <1>4, <2>1, <3>1, QueueCells DEF ForgetResult
  <2>2. ASSUME Check(j)
        PROVE  UNCHANGED <<arq, run>>
    BY <2>2 DEF Check
  <2> QED
    BY <1>0, <1>4, <2>1, <2>2
<1>5. CASE CronStep \/ ResetFails \/ CronCrash
  <2>1. CASE Requeue
    <3>1. 0 \in Tasks /\ UNCHANGED run
      BY <2>1, BoundAssumption DEF Tasks, Requeue
    <3>2. PICK x : /\ x = IF arq[cron.key][0] = "none" THEN "queued" ELSE arq[cron.key][0]
                   /\ arq' = [arq EXCEPT ![cron.key][0] = x]
      BY <2>1 DEF Requeue
    <3>3. CASE cron.key \in Jobs
      <4>1. arq[cron.key][0] \in {"none", "queued", "running", "result"}
        BY <3>1, <3>3 DEF TypeOK
      <4> QED
        BY <3>1, <3>2, <3>3, <4>1, QueueCells
    <3>4. CASE cron.key \notin Jobs
      <4>1. UNCHANGED arq
        BY <3>2, <3>4 DEF TypeOK
      <4> QED
        BY <1>0, <3>1, <4>1
    <3> QED
      BY <3>3, <3>4
  <2>2. ASSUME Reset \/ ResetRefused \/ ResetFails \/ CronCrash
        PROVE  UNCHANGED <<arq, run>>
    BY <2>2 DEF Reset, ResetRefused, ResetFails, CronCrash
  <2> QED
    BY <1>0, <1>5, <2>1, <2>2 DEF CronStep
<1> QED
  BY <1>0, <1>1, <1>2, <1>3, <1>4, <1>5, Zenon DEF Next, Request, vars

LEMMA RunsInArqNext ==
    ASSUME RunsInArq, CellsMove
    PROVE  RunsInArq'
<1>1. ASSUME NEW i \in Jobs, NEW v \in Tasks, run'[i][v].pc # "idle"
      PROVE  arq'[i][v] = "running"
  <2>1. CellMoves(i, v) /\ (run[i][v].pc # "idle" => arq[i][v] = "running")
    BY DEF CellsMove, RunsInArq
  <2> QED
    BY <1>1, <2>1 DEF CellMoves, Began
<1> QED
  BY <1>1 DEF RunsInArq

\* An attempt comes to be in progress by a task that begins to work.
LEMMA AttemptOpens ==
    ASSUME TypeOK, [Next]_vars, NEW i \in Jobs, attempt'[i].status = "processing"
    PROVE  attempt[i].status = "processing" \/ \E t \in Tasks : run'[i][t].pc \in Began
<1>0. ASSUME UNCHANGED attempt
      PROVE  attempt[i].status = "processing"
  BY <1>0
<1>1. ASSUME NEW c \in Clients, RestoreRetryState(c) \/ Retry(c)
      PROVE  attempt[i].status = "processing"
  <2>1. CASE RestoreRetryState(c)
    <3>1. UNCHANGED attempt \/ Finish(api[c].key, "failed")
      BY <2>1 DEF RestoreRetryState
    <3>2. CASE api[c].key \in Jobs
      BY <1>0, <3>1, <3>2, FinishCloses DEF TypeOK
    <3>3. CASE api[c].key \notin Jobs
      BY <1>0, <3>1, <3>3 DEF Finish, TypeOK
    <3> QED
      BY <3>2, <3>3
  <2>2. CASE Retry(c)
    BY <2>2 DEF Retry, TypeOK
  <2> QED
    BY <1>1, <2>1, <2>2
<1>2. ASSUME NEW c \in Clients, NEW j \in Jobs, Request(c) \/ RequestStep(c) \/ PublishError(c) \/ ApiCrash(c),
             ~RestoreRetryState(c), ~Retry(c)
      PROVE  UNCHANGED attempt
  BY <1>2 DEF Request, Ingest, CancelRead, RetryRead, RequestStep, Publish, MarkEnqueueFailed,
      Cancel, RetryRaises, PublishError, ApiCrash
<1>3. ASSUME NEW j \in Jobs, NEW t \in Tasks, WorkerStep(j, t) \/ WorkerFault(j, t)
      PROVE  attempt[i].status = "processing" \/ \E u \in Tasks : run'[i][u].pc \in Began
  <2>1. CASE Join(j, t) \/ Create(j, t)
    <3>1. BeginWork(j, t) /\ (i # j => attempt'[i] = attempt[i])
      BY <2>1 DEF Join, Create, TypeOK
    <3>2. run'[j][t].pc = "extract"
      BY <1>3, <3>1 DEF BeginWork, TypeOK
    <3> QED
      BY <1>3, <3>1, <3>2 DEF Began
  <2>2. CASE Duplicate(j, t) \/ Complete(j, t) \/ Outrun(j, t) \/ Fail(j, t) \/ Abandon(j, t)
    <3>1. Finish(j, "completed") \/ Finish(j, "failed")
      BY <2>2 DEF Duplicate, Complete, Outrun, Fail, Abandon, HandleException
    <3> QED
      BY <1>3, <3>1, FinishCloses DEF TypeOK
  <2>3. ASSUME Load(j, t) \/ FindNone(j, t) \/ Unique(j, t) \/ Store(j, t) \/ FailItem(j, t) \/
             CancelItem(j, t) \/ WorkerCrash(j, t) \/ QueueLoss(j, t)
        PROVE  UNCHANGED attempt
    BY <2>3 DEF Load, FindNone, Unique, Store, FailItem, CancelItem, WorkerCrash, QueueLoss
  <2> QED
    BY <1>0, <1>3, <2>1, <2>2, <2>3 DEF WorkerStep, WorkerFault, Start
<1>4. ASSUME NEW j \in Jobs, ForgetResult(j) \/ Check(j)
      PROVE  UNCHANGED attempt
  BY <1>4 DEF ForgetResult, Check
<1>5. ASSUME CronStep \/ ResetFails \/ CronCrash
      PROVE  UNCHANGED attempt
  BY <1>5 DEF CronStep, Reset, ResetRefused, Requeue, ResetFails, CronCrash
<1> QED
  BY <1>0, <1>1, <1>2, <1>3, <1>4, <1>5, Zenon DEF Next, vars

LEMMA AttendedNext ==
    ASSUME TypeOK, RunsInArq, [Next]_vars, NEW i \in Jobs, Abandoned(i)'
    PROVE  Abandoned(i) \/ Lost(i)
<1> SUFFICES ASSUME ~Abandoned(i)
             PROVE  Lost(i)
  OBVIOUS
<1>1. attempt'[i].status = "processing"
      /\ \A t \in Tasks : arq'[i][t] # "queued" /\ run'[i][t].pc \notin Began
  BY DEF Abandoned, Attended
<1>2. attempt[i].status = "processing"
  BY <1>1, AttemptOpens
<1>3. PICK t \in Tasks : arq[i][t] = "queued" \/ run[i][t].pc \in Began
  BY <1>2 DEF Abandoned, Attended
<1>4. CellMoves(i, t) /\ (run[i][t].pc # "idle" => arq[i][t] = "running")
  BY CellsNext DEF CellsMove, RunsInArq
<1>5. arq[i][t] = "queued" /\ arq'[i][t] = "none"
  BY <1>1, <1>3, <1>4 DEF CellMoves, Began, Closed
<1> QED
  BY <1>5 DEF Lost

\* No step takes its last task from an attempt in progress, but the loss of the queue.
THEOREM AttemptsAreAttended == Spec => AttemptIsAttended
<1>1. Init => RunsInArq
  BY DEF Init, RunsInArq, IdleRun
<1>2. TypeOK /\ RunsInArq /\ [Next]_vars => RunsInArq'
  BY CellsNext, RunsInArqNext
<1>3. TypeOK /\ RunsInArq /\ [Next]_vars
        => [\A j \in Jobs : Abandoned(j)' => Abandoned(j) \/ Lost(j)]_vars
  BY AttendedNext
<1> QED
  BY <1>1, <1>2, <1>3, TypeCorrect, PTL DEF Spec, AttemptIsAttended

-----------------------------------------------------------------------------
(* The index.  OneReadyPerBody rests on the unique index over all rows that  *)
(* have not failed: every step that brings a row in is guarded, and a row    *)
(* that is or may come back "ready" has a hash.                              *)

UniqueHash == \A i, k \in Jobs :
    /\ i # k
    /\ item[i].hash # "none" /\ item[i].status # "failed"
    /\ item[k].status # "failed"
    => item[i].hash # item[k].hash

ReadyHashed == \A i \in Jobs : item[i].status = "ready" => item[i].hash # "none"

SnapshotHashed == \A d \in Clients :
    api[d].item = "ready" => api[d].key \in Jobs /\ item[api[d].key].hash # "none"

RunPresent == \A i \in Jobs, u \in Tasks :
    run[i][u].pc \notin {"idle", "begin", "create"} \/ run[i][u].same
        => job[i].status # "absent"

StoresBody == \A i \in Jobs, u \in Tasks : run[i][u].pc = "embed" => run[i][u].body \in Bodies

AbsentEmpty == \A i \in Jobs : job[i].status = "absent" => item[i].hash = "none"

Indexed == /\ UniqueHash /\ ReadyHashed /\ SnapshotHashed
           /\ RunPresent /\ StoresBody /\ AbsentEmpty

\* A job that is there stays, and a hash is only ever replaced by a hash.
JobsStay == \A i \in Jobs : job[i].status # "absent" => job'[i].status # "absent"

HashesStay == \A i \in Jobs : item'[i].hash # item[i].hash => item'[i].hash \in Bodies

LEMMA JobsStayNext ==
    ASSUME TypeOK, [Next]_vars
    PROVE  JobsStay
<1>0. ASSUME UNCHANGED job
      PROVE  JobsStay
  BY <1>0 DEF JobsStay
<1>1. ASSUME NEW c \in Clients, NEW j \in Jobs, Ingest(c, j) \/ CancelRead(c, j) \/ RetryRead(c, j)
      PROVE  JobsStay
  <2>1. CASE Ingest(c, j)
    <3>1. SetJob(j, "queued")
      BY <2>1 DEF Ingest
    <3> QED
      BY <3>1 DEF SetJob, TypeOK, JobsStay
  <2>2. ASSUME CancelRead(c, j) \/ RetryRead(c, j)
        PROVE  UNCHANGED job
    BY <2>2 DEF CancelRead, RetryRead
  <2> QED
    BY <1>0, <1>1, <2>1, <2>2
<1>2. ASSUME NEW c \in Clients, RequestStep(c) \/ PublishError(c) \/ ApiCrash(c)
      PROVE  JobsStay
  <2>1. CASE MarkEnqueueFailed(c)
    <3>1. SetJob(api[c].key, "failed")
      BY <2>1 DEF MarkEnqueueFailed
    <3> QED
      BY <3>1 DEF SetJob, TypeOK, JobsStay
  <2>2. CASE RestoreRetryState(c)
    <3>1. UNCHANGED job \/ SetJob(api[c].key, api[c].job)
      BY <2>2 DEF RestoreRetryState
    <3>2. \A i \in Jobs : job'[i] = job[i] \/ job'[i].status = api[c].job
      BY <3>1 DEF SetJob, TypeOK
    <3> QED
      BY <2>2, <3>2 DEF RestoreRetryState, JobsStay
  <2>3. CASE Cancel(c)
    <3>1. SetJob(api[c].key, "cancelled")
      BY <2>3 DEF Cancel
    <3> QED
      BY <3>1 DEF SetJob, TypeOK, JobsStay
  <2>4. CASE Retry(c)
    <3>1. SetJob(api[c].key, "queued")
      BY <2>4 DEF Retry
    <3> QED
      BY <3>1 DEF SetJob, TypeOK, JobsStay
  <2>5. ASSUME Publish(c) \/ RetryRaises(c) \/ PublishError(c) \/ ApiCrash(c)
        PROVE  UNCHANGED job
    BY <2>5 DEF Publish, RetryRaises, PublishError, ApiCrash
  <2> QED
    BY <1>0, <1>2, <2>1, <2>2, <2>3, <2>4, <2>5 DEF RequestStep
<1>3. ASSUME NEW j \in Jobs, NEW t \in Tasks, WorkerStep(j, t) \/ WorkerFault(j, t)
      PROVE  JobsStay
  <2>1. CASE Start(j, t)
    <3>1. CASE SetJob(j, "processing")
      BY <3>1 DEF SetJob, TypeOK, JobsStay
    <3> QED
      BY <1>0, <2>1, <3>1, StartJob
  <2>2. CASE Duplicate(j, t)
    <3>1. PICK r : job' = [job EXCEPT ![j] = [status |-> "duplicate", dup |-> r]]
      BY <2>2 DEF Duplicate
    <3> QED
      BY <3>1 DEF TypeOK, JobsStay
  <2>3. CASE Outrun(j, t)
    <3>1. SetJob(j, "failed")
      BY <2>3 DEF Outrun, HandleException
    <3> QED
      BY <3>1 DEF SetJob, TypeOK, JobsStay
  <2>4. CASE Complete(j, t)
    <3>1. SetJob(j, "completed")
      BY <2>4 DEF Complete
    <3> QED
      BY <3>1 DEF SetJob, TypeOK, JobsStay
  <2>5. CASE Fail(j, t)
    <3>1. SetJob(j, "failed")
      BY <2>5 DEF Fail, HandleException
    <3> QED
      BY <3>1 DEF SetJob, TypeOK, JobsStay
  <2>6. CASE Abandon(j, t)
    <3>1. SetJob(j, "cancelled")
      BY <2>6 DEF Abandon
    <3> QED
      BY <3>1 DEF SetJob, TypeOK, JobsStay
  <2>7. ASSUME Unique(j, t) \/ Store(j, t) \/ FailItem(j, t) \/ CancelItem(j, t) \/
             WorkerCrash(j, t) \/ QueueLoss(j, t)
        PROVE  UNCHANGED job
    BY <2>7 DEF Unique, Store, FailItem, CancelItem, WorkerCrash, QueueLoss, EndTask
  <2> QED
    BY <1>0, <1>3, <2>1, <2>2, <2>3, <2>4, <2>5, <2>6, <2>7 DEF WorkerStep, WorkerFault
<1>4. ASSUME NEW j \in Jobs, ForgetResult(j) \/ Check(j)
      PROVE  JobsStay
  BY <1>0, <1>4 DEF ForgetResult, Check
<1>5. CASE CronStep \/ ResetFails \/ CronCrash
  <2>1. CASE Reset
    <3>1. SetJob(cron.key, "queued")
      BY <2>1 DEF Reset
    <3> QED
      BY <3>1 DEF SetJob, TypeOK, JobsStay
  <2>2. ASSUME ResetRefused \/ Requeue \/ CronCrash
        PROVE  UNCHANGED job
    BY <2>2 DEF ResetRefused, Requeue, CronCrash
  <2>3. CASE ResetFails
    <3>1. SetJob(cron.key, "failed")
      BY <2>3 DEF ResetFails
    <3> QED
      BY <3>1 DEF SetJob, TypeOK, JobsStay
  <2> QED
    BY <1>0, <1>5, <2>1, <2>2, <2>3 DEF CronStep
<1> QED
  BY <1>0, <1>1, <1>2, <1>3, <1>4, <1>5, Zenon DEF Next, Request, vars

LEMMA HashesStayNext ==
    ASSUME TypeOK, StoresBody, [Next]_vars
    PROVE  HashesStay
<1>0. ASSUME UNCHANGED item
      PROVE  HashesStay
  BY <1>0 DEF HashesStay
<1>1. ASSUME NEW c \in Clients, NEW j \in Jobs, Ingest(c, j) \/ CancelRead(c, j) \/ RetryRead(c, j)
      PROVE  HashesStay
  <2>1. CASE Ingest(c, j)
    <3>1. SetItem(j, "processing")
      BY <2>1 DEF Ingest
    <3>2. "processing" \in ItemStatus
      BY DEF ItemStatus
    <3> QED
      BY <3>1, <3>2, SetItemKeeps DEF TypeOK, HashesStay
  <2>2. ASSUME CancelRead(c, j) \/ RetryRead(c, j)
        PROVE  UNCHANGED item
    BY <2>2 DEF CancelRead, RetryRead
  <2> QED
    BY <1>0, <1>1, <2>1, <2>2
<1>2. ASSUME NEW c \in Clients, RequestStep(c) \/ PublishError(c) \/ ApiCrash(c)
      PROVE  HashesStay
  <2>1. CASE MarkEnqueueFailed(c)
    <3>1. SetItem(api[c].key, "failed")
      BY <2>1 DEF MarkEnqueueFailed
    <3>2. "failed" \in ItemStatus
      BY DEF ItemStatus
    <3> QED
      BY <3>1, <3>2, SetItemKeeps DEF TypeOK, HashesStay
  <2>2. CASE RestoreRetryState(c)
    <3>1. UNCHANGED item \/ SetItem(api[c].key, api[c].item)
      BY <2>2 DEF RestoreRetryState
    <3>2. api[c].item \in ItemStatus
      BY <1>2 DEF TypeOK, Api
    <3> QED
      BY <1>0, <3>1, <3>2, SetItemKeeps DEF TypeOK, HashesStay
  <2>3. CASE Cancel(c)
    <3>1. UNCHANGED item \/ SetItem(api[c].key, "failed")
      BY <2>3 DEF Cancel
    <3>2. "failed" \in ItemStatus
      BY DEF ItemStatus
    <3> QED
      BY <1>0, <3>1, <3>2, SetItemKeeps DEF TypeOK, HashesStay
  <2>4. CASE Retry(c)
    <3>1. UNCHANGED item \/ SetItem(api[c].key, "processing")
      BY <2>4 DEF Retry
    <3>2. "processing" \in ItemStatus
      BY DEF ItemStatus
    <3> QED
      BY <1>0, <3>1, <3>2, SetItemKeeps DEF TypeOK, HashesStay
  <2>5. ASSUME Publish(c) \/ RetryRaises(c) \/ PublishError(c) \/ ApiCrash(c)
        PROVE  UNCHANGED item
    BY <2>5 DEF Publish, RetryRaises, PublishError, ApiCrash
  <2> QED
    BY <1>0, <1>2, <2>1, <2>2, <2>3, <2>4, <2>5 DEF RequestStep
<1>3. ASSUME NEW j \in Jobs, NEW t \in Tasks, WorkerStep(j, t) \/ WorkerFault(j, t)
      PROVE  HashesStay
  <2>1. CASE Duplicate(j, t)
    <3>1. SetItem(j, "failed")
      BY <2>1 DEF Duplicate
    <3>2. "failed" \in ItemStatus
      BY DEF ItemStatus
    <3> QED
      BY <3>1, <3>2, SetItemKeeps DEF TypeOK, HashesStay
  <2>2. CASE Store(j, t)
    <3>1. item' = [item EXCEPT ![j] = [status |-> "ready", hash |-> run[j][t].body, vec |-> TRUE]]
      BY <2>2 DEF Store
    <3>2. run[j][t].body \in Bodies
      BY <1>3, <2>2 DEF Store, StoresBody
    <3> QED
      BY <1>3, <3>1, <3>2 DEF TypeOK, HashesStay
  <2>3. CASE FailItem(j, t)
    <3>1. SetItem(j, "failed")
      BY <2>3 DEF FailItem
    <3>2. "failed" \in ItemStatus
      BY DEF ItemStatus
    <3> QED
      BY <3>1, <3>2, SetItemKeeps DEF TypeOK, HashesStay
  <2>4. CASE CancelItem(j, t)
    <3>1. UNCHANGED item \/ SetItem(j, "failed")
      BY <2>4 DEF CancelItem
    <3>2. "failed" \in ItemStatus
      BY DEF ItemStatus
    <3> QED
      BY <1>0, <3>1, <3>2, SetItemKeeps DEF TypeOK, HashesStay
  <2>5. ASSUME Start(j, t) \/ Unique(j, t) \/ Outrun(j, t) \/ Complete(j, t) \/ Fail(j, t) \/
             Abandon(j, t) \/ WorkerCrash(j, t) \/ QueueLoss(j, t)
        PROVE  UNCHANGED item
    BY <2>5 DEF Start, Load, Join, FindNone, Create, BeginWork, Unique, Outrun, Complete, Fail, Abandon, WorkerCrash,
        QueueLoss, HandleException, EndTask
  <2> QED
    BY <1>0, <1>3, <2>1, <2>2, <2>3, <2>4, <2>5 DEF WorkerStep, WorkerFault
<1>4. ASSUME NEW j \in Jobs, ForgetResult(j) \/ Check(j)
      PROVE  HashesStay
  BY <1>0, <1>4 DEF ForgetResult, Check
<1>5. CASE CronStep \/ ResetFails \/ CronCrash
  <2>1. CASE Reset
    <3>1. SetItem(cron.key, "processing")
      BY <2>1 DEF Reset
    <3>2. "processing" \in ItemStatus
      BY DEF ItemStatus
    <3> QED
      BY <3>1, <3>2, SetItemKeeps DEF TypeOK, HashesStay
  <2>2. ASSUME ResetRefused \/ Requeue \/ ResetFails \/ CronCrash
        PROVE  UNCHANGED item
    BY <2>2 DEF ResetRefused, Requeue, ResetFails, CronCrash
  <2> QED
    BY <1>0, <1>5, <2>1, <2>2 DEF CronStep
<1> QED
  BY <1>0, <1>1, <1>2, <1>3, <1>4, <1>5, Zenon DEF Next, Request, vars

LEMMA RunPresentNext ==
    ASSUME TypeOK, RunPresent, JobsStay, [Next]_vars
    PROVE  RunPresent'
<1>0. ASSUME UNCHANGED run
      PROVE  RunPresent'
  BY <1>0 DEF RunPresent, JobsStay
<1>1. ASSUME NEW c \in Clients, NEW j \in Jobs, Ingest(c, j) \/ CancelRead(c, j) \/ RetryRead(c, j)
      PROVE  RunPresent'
  BY <1>0, <1>1 DEF Ingest, CancelRead, RetryRead
<1>2. ASSUME NEW c \in Clients, RequestStep(c) \/ PublishError(c) \/ ApiCrash(c)
      PROVE  RunPresent'
  BY <1>0, <1>2 DEF RequestStep, Publish, MarkEnqueueFailed, RestoreRetryState, Cancel,
      Retry, RetryRaises, PublishError, ApiCrash
<1>3. ASSUME NEW j \in Jobs, NEW t \in Tasks, WorkerStep(j, t) \/ WorkerFault(j, t)
      PROVE  RunPresent'
  <2>1. CASE Start(j, t)
    <3>1. SetJob(j, "processing") => job'[j].status # "absent"
      BY DEF SetJob, TypeOK
    <3>2. run[j][t].same \/ job[j].status = "processing" => job'[j].status # "absent"
      BY DEF RunPresent, JobsStay
    <3>3. ASSUME NEW i \in Jobs, NEW v \in Tasks, run'[i][v] # run[i][v]
          PROVE  (run'[i][v].pc \notin {"idle", "begin", "create"} \/ run'[i][v].same)
                     => job'[i].status # "absent"
      <4>1. StartMoves(j, t, i, v)
        BY <1>3, <2>1, <3>3, StartRuns DEF TypeOK
      <4> QED
        BY <3>1, <3>2, <4>1 DEF StartMoves
    <3> QED
      BY <3>3 DEF RunPresent, JobsStay
  <2>2. CASE Unique(j, t)
    <3>1. PICK b \in Bodies : run' = [run EXCEPT ![j][t] = [pc |-> "embed", same |-> FALSE, body |-> b]]
      BY <2>2 DEF Unique
    <3>2. [pc |-> "embed", same |-> FALSE, body |-> b] \in Run
      BY DEF Run
    <3>3. \A i \in Jobs, v \in Tasks : run'[i][v] = IF i = j /\ v = t THEN [pc |-> "embed", same |-> FALSE, body |-> b] ELSE run[i][v]
      BY <1>3, <3>1, <3>2, UpdateTask DEF TypeOK
    <3>4. job[j].status # "absent"
      BY <1>3, <2>2 DEF Unique, RunPresent
    <3> QED
      BY <1>3, <3>3, <3>4 DEF RunPresent, JobsStay
  <2>3. CASE Duplicate(j, t)
    <3>1. run' = [run EXCEPT ![j][t] = IdleRun]
      BY <2>3 DEF Duplicate, EndTask
    <3>2. IdleRun \in Run
      BY DEF Run, IdleRun
    <3>3. \A i \in Jobs, v \in Tasks : run'[i][v] = IF i = j /\ v = t THEN IdleRun ELSE run[i][v]
      BY <1>3, <3>1, <3>2, UpdateTask DEF TypeOK
    <3> QED
      BY <1>3, <3>3 DEF RunPresent, JobsStay, IdleRun
  <2>4. CASE Store(j, t)
    <3>1. Step(j, t, "complete")
      BY <2>4 DEF Store
    <3>2. run \in [Jobs -> [Tasks -> Run]]
      BY DEF TypeOK
    <3>3. ASSUME NEW i \in Jobs, NEW v \in Tasks
          PROVE  run'[i][v] # run[i][v] => i = j /\ v = t /\ run'[i][v].pc = "complete"
      BY <3>1, <3>2, StepMoves
    <3>4. job[j].status # "absent"
      BY <1>3, <2>4 DEF Store, RunPresent
    <3> QED
      BY <1>3, <3>3, <3>4 DEF RunPresent, JobsStay
  <2>5. CASE Outrun(j, t)
    <3>1. Step(j, t, "fail_item")
      BY <2>5 DEF Outrun, HandleException
    <3>2. run \in [Jobs -> [Tasks -> Run]]
      BY DEF TypeOK
    <3>3. ASSUME NEW i \in Jobs, NEW v \in Tasks
          PROVE  run'[i][v] # run[i][v] => i = j /\ v = t /\ run'[i][v].pc = "fail_item"
      BY <3>1, <3>2, StepMoves
    <3>4. SetJob(j, "failed")
      BY <2>5 DEF Outrun, HandleException
    <3>5. job'[j].status # "absent"
      BY <1>3, <3>4 DEF SetJob, TypeOK
    <3> QED
      BY <1>3, <3>3, <3>5 DEF RunPresent, JobsStay
  <2>6. CASE Complete(j, t)
    <3>1. run' = [run EXCEPT ![j][t] = IdleRun]
      BY <2>6 DEF Complete, EndTask
    <3>2. IdleRun \in Run
      BY DEF Run, IdleRun
    <3>3. \A i \in Jobs, v \in Tasks : run'[i][v] = IF i = j /\ v = t THEN IdleRun ELSE run[i][v]
      BY <1>3, <3>1, <3>2, UpdateTask DEF TypeOK
    <3> QED
      BY <1>3, <3>3 DEF RunPresent, JobsStay, IdleRun
  <2>7. CASE FailItem(j, t)
    <3>1. run' = [run EXCEPT ![j][t] = IdleRun]
      BY <2>7 DEF FailItem, EndTask
    <3>2. IdleRun \in Run
      BY DEF Run, IdleRun
    <3>3. \A i \in Jobs, v \in Tasks : run'[i][v] = IF i = j /\ v = t THEN IdleRun ELSE run[i][v]
      BY <1>3, <3>1, <3>2, UpdateTask DEF TypeOK
    <3> QED
      BY <1>3, <3>3 DEF RunPresent, JobsStay, IdleRun
  <2>8. CASE CancelItem(j, t)
    <3>1. run' = [run EXCEPT ![j][t] = IdleRun]
      BY <2>8 DEF CancelItem, EndTask
    <3>2. IdleRun \in Run
      BY DEF Run, IdleRun
    <3>3. \A i \in Jobs, v \in Tasks : run'[i][v] = IF i = j /\ v = t THEN IdleRun ELSE run[i][v]
      BY <1>3, <3>1, <3>2, UpdateTask DEF TypeOK
    <3> QED
      BY <1>3, <3>3 DEF RunPresent, JobsStay, IdleRun
  <2>9. CASE Fail(j, t)
    <3>1. Step(j, t, "fail_item")
      BY <2>9 DEF Fail, HandleException
    <3>2. run \in [Jobs -> [Tasks -> Run]]
      BY DEF TypeOK
    <3>3. ASSUME NEW i \in Jobs, NEW v \in Tasks
          PROVE  run'[i][v] # run[i][v] => i = j /\ v = t /\ run'[i][v].pc = "fail_item"
      BY <3>1, <3>2, StepMoves
    <3>4. SetJob(j, "failed")
      BY <2>9 DEF Fail, HandleException
    <3>5. job'[j].status # "absent"
      BY <1>3, <3>4 DEF SetJob, TypeOK
    <3> QED
      BY <1>3, <3>3, <3>5 DEF RunPresent, JobsStay
  <2>10. CASE Abandon(j, t)
    <3>1. Step(j, t, "cancel_item")
      BY <2>10 DEF Abandon
    <3>2. run \in [Jobs -> [Tasks -> Run]]
      BY DEF TypeOK
    <3>3. ASSUME NEW i \in Jobs, NEW v \in Tasks
          PROVE  run'[i][v] # run[i][v] => i = j /\ v = t /\ run'[i][v].pc = "cancel_item"
      BY <3>1, <3>2, StepMoves
    <3>4. SetJob(j, "cancelled")
      BY <2>10 DEF Abandon
    <3>5. job'[j].status # "absent"
      BY <1>3, <3>4 DEF SetJob, TypeOK
    <3> QED
      BY <1>3, <3>3, <3>5 DEF RunPresent, JobsStay
  <2>11. CASE WorkerCrash(j, t)
    <3>1. run' = [run EXCEPT ![j][t] = IdleRun]
      BY <2>11 DEF WorkerCrash, EndTask
    <3>2. IdleRun \in Run
      BY DEF Run, IdleRun
    <3>3. \A i \in Jobs, v \in Tasks : run'[i][v] = IF i = j /\ v = t THEN IdleRun ELSE run[i][v]
      BY <1>3, <3>1, <3>2, UpdateTask DEF TypeOK
    <3> QED
      BY <1>3, <3>3 DEF RunPresent, JobsStay, IdleRun
  <2>12. ASSUME QueueLoss(j, t)
        PROVE  UNCHANGED run
    BY <2>12 DEF QueueLoss
  <2> QED
    BY <1>0, <1>3, <2>1, <2>2, <2>3, <2>4, <2>5, <2>6, <2>7, <2>8, <2>9, <2>10, <2>11, <2>12 DEF
        WorkerStep, WorkerFault
<1>4. ASSUME NEW j \in Jobs, ForgetResult(j) \/ Check(j)
      PROVE  RunPresent'
  BY <1>0, <1>4 DEF ForgetResult, Check
<1>5. CASE CronStep \/ ResetFails \/ CronCrash
  BY <1>0, <1>5 DEF CronStep, Reset, ResetRefused, Requeue, ResetFails, CronCrash
<1> QED
  BY <1>0, <1>1, <1>2, <1>3, <1>4, <1>5, Zenon DEF Next, Request, vars

LEMMA StoresBodyNext ==
    ASSUME TypeOK, StoresBody, [Next]_vars
    PROVE  StoresBody'
<1>0. ASSUME UNCHANGED run
      PROVE  StoresBody'
  BY <1>0 DEF StoresBody
<1>1. ASSUME NEW c \in Clients, NEW j \in Jobs, Ingest(c, j) \/ CancelRead(c, j) \/ RetryRead(c, j)
      PROVE  StoresBody'
  BY <1>0, <1>1 DEF Ingest, CancelRead, RetryRead
<1>2. ASSUME NEW c \in Clients, RequestStep(c) \/ PublishError(c) \/ ApiCrash(c)
      PROVE  StoresBody'
  BY <1>0, <1>2 DEF RequestStep, Publish, MarkEnqueueFailed, RestoreRetryState, Cancel,
      Retry, RetryRaises, PublishError, ApiCrash
<1>3. ASSUME NEW j \in Jobs, NEW t \in Tasks, WorkerStep(j, t) \/ WorkerFault(j, t)
      PROVE  StoresBody'
  <2>1. CASE Start(j, t)
    <3>1. \A i \in Jobs, v \in Tasks : run'[i][v] # run[i][v]
                                            => run'[i][v].pc \in {"begin", "create", "extract"}
      BY <1>3, <2>1, StartRuns DEF TypeOK, StartMoves
    <3> QED
      BY <3>1 DEF StoresBody
  <2>2. CASE Unique(j, t)
    <3>1. PICK b \in Bodies : run' = [run EXCEPT ![j][t] = [pc |-> "embed", same |-> FALSE, body |-> b]]
      BY <2>2 DEF Unique
    <3>2. [pc |-> "embed", same |-> FALSE, body |-> b] \in Run
      BY DEF Run
    <3>3. \A i \in Jobs, v \in Tasks : run'[i][v] = IF i = j /\ v = t THEN [pc |-> "embed", same |-> FALSE, body |-> b] ELSE run[i][v]
      BY <1>3, <3>1, <3>2, UpdateTask DEF TypeOK
    <3> QED
      BY <1>3, <3>3 DEF StoresBody
  <2>3. CASE Duplicate(j, t)
    <3>1. run' = [run EXCEPT ![j][t] = IdleRun]
      BY <2>3 DEF Duplicate, EndTask
    <3>2. IdleRun \in Run
      BY DEF Run, IdleRun
    <3>3. \A i \in Jobs, v \in Tasks : run'[i][v] = IF i = j /\ v = t THEN IdleRun ELSE run[i][v]
      BY <1>3, <3>1, <3>2, UpdateTask DEF TypeOK
    <3> QED
      BY <1>3, <3>3 DEF StoresBody, IdleRun
  <2>4. CASE Store(j, t)
    <3>1. Step(j, t, "complete")
      BY <2>4 DEF Store
    <3>2. run \in [Jobs -> [Tasks -> Run]]
      BY DEF TypeOK
    <3>3. ASSUME NEW i \in Jobs, NEW v \in Tasks
          PROVE  run'[i][v] # run[i][v] => i = j /\ v = t /\ run'[i][v].pc = "complete"
      BY <3>1, <3>2, StepMoves
    <3> QED
      BY <1>3, <3>3 DEF StoresBody
  <2>5. CASE Outrun(j, t)
    <3>1. Step(j, t, "fail_item")
      BY <2>5 DEF Outrun, HandleException
    <3>2. run \in [Jobs -> [Tasks -> Run]]
      BY DEF TypeOK
    <3>3. ASSUME NEW i \in Jobs, NEW v \in Tasks
          PROVE  run'[i][v] # run[i][v] => i = j /\ v = t /\ run'[i][v].pc = "fail_item"
      BY <3>1, <3>2, StepMoves
    <3> QED
      BY <1>3, <3>3 DEF StoresBody
  <2>6. CASE Complete(j, t)
    <3>1. run' = [run EXCEPT ![j][t] = IdleRun]
      BY <2>6 DEF Complete, EndTask
    <3>2. IdleRun \in Run
      BY DEF Run, IdleRun
    <3>3. \A i \in Jobs, v \in Tasks : run'[i][v] = IF i = j /\ v = t THEN IdleRun ELSE run[i][v]
      BY <1>3, <3>1, <3>2, UpdateTask DEF TypeOK
    <3> QED
      BY <1>3, <3>3 DEF StoresBody, IdleRun
  <2>7. CASE FailItem(j, t)
    <3>1. run' = [run EXCEPT ![j][t] = IdleRun]
      BY <2>7 DEF FailItem, EndTask
    <3>2. IdleRun \in Run
      BY DEF Run, IdleRun
    <3>3. \A i \in Jobs, v \in Tasks : run'[i][v] = IF i = j /\ v = t THEN IdleRun ELSE run[i][v]
      BY <1>3, <3>1, <3>2, UpdateTask DEF TypeOK
    <3> QED
      BY <1>3, <3>3 DEF StoresBody, IdleRun
  <2>8. CASE CancelItem(j, t)
    <3>1. run' = [run EXCEPT ![j][t] = IdleRun]
      BY <2>8 DEF CancelItem, EndTask
    <3>2. IdleRun \in Run
      BY DEF Run, IdleRun
    <3>3. \A i \in Jobs, v \in Tasks : run'[i][v] = IF i = j /\ v = t THEN IdleRun ELSE run[i][v]
      BY <1>3, <3>1, <3>2, UpdateTask DEF TypeOK
    <3> QED
      BY <1>3, <3>3 DEF StoresBody, IdleRun
  <2>9. CASE Fail(j, t)
    <3>1. Step(j, t, "fail_item")
      BY <2>9 DEF Fail, HandleException
    <3>2. run \in [Jobs -> [Tasks -> Run]]
      BY DEF TypeOK
    <3>3. ASSUME NEW i \in Jobs, NEW v \in Tasks
          PROVE  run'[i][v] # run[i][v] => i = j /\ v = t /\ run'[i][v].pc = "fail_item"
      BY <3>1, <3>2, StepMoves
    <3> QED
      BY <1>3, <3>3 DEF StoresBody
  <2>10. CASE Abandon(j, t)
    <3>1. Step(j, t, "cancel_item")
      BY <2>10 DEF Abandon
    <3>2. run \in [Jobs -> [Tasks -> Run]]
      BY DEF TypeOK
    <3>3. ASSUME NEW i \in Jobs, NEW v \in Tasks
          PROVE  run'[i][v] # run[i][v] => i = j /\ v = t /\ run'[i][v].pc = "cancel_item"
      BY <3>1, <3>2, StepMoves
    <3> QED
      BY <1>3, <3>3 DEF StoresBody
  <2>11. CASE WorkerCrash(j, t)
    <3>1. run' = [run EXCEPT ![j][t] = IdleRun]
      BY <2>11 DEF WorkerCrash, EndTask
    <3>2. IdleRun \in Run
      BY DEF Run, IdleRun
    <3>3. \A i \in Jobs, v \in Tasks : run'[i][v] = IF i = j /\ v = t THEN IdleRun ELSE run[i][v]
      BY <1>3, <3>1, <3>2, UpdateTask DEF TypeOK
    <3> QED
      BY <1>3, <3>3 DEF StoresBody, IdleRun
  <2>12. ASSUME QueueLoss(j, t)
        PROVE  UNCHANGED run
    BY <2>12 DEF QueueLoss
  <2> QED
    BY <1>0, <1>3, <2>1, <2>2, <2>3, <2>4, <2>5, <2>6, <2>7, <2>8, <2>9, <2>10, <2>11, <2>12 DEF
        WorkerStep, WorkerFault
<1>4. ASSUME NEW j \in Jobs, ForgetResult(j) \/ Check(j)
      PROVE  StoresBody'
  BY <1>0, <1>4 DEF ForgetResult, Check
<1>5. CASE CronStep \/ ResetFails \/ CronCrash
  BY <1>0, <1>5 DEF CronStep, Reset, ResetRefused, Requeue, ResetFails, CronCrash
<1> QED
  BY <1>0, <1>1, <1>2, <1>3, <1>4, <1>5, Zenon DEF Next, Request, vars

LEMMA AbsentEmptyNext ==
    ASSUME TypeOK, AbsentEmpty, RunPresent, JobsStay, [Next]_vars
    PROVE  AbsentEmpty'
<1>0. ASSUME UNCHANGED item
      PROVE  AbsentEmpty'
  BY <1>0 DEF AbsentEmpty, JobsStay
<1>1. ASSUME NEW c \in Clients, NEW j \in Jobs, Ingest(c, j) \/ CancelRead(c, j) \/ RetryRead(c, j)
      PROVE  AbsentEmpty'
  <2>1. CASE Ingest(c, j)
    <3>1. SetItem(j, "processing")
      BY <2>1 DEF Ingest
    <3>2. "processing" \in ItemStatus
      BY DEF ItemStatus
    <3> QED
      BY <3>1, <3>2, SetItemKeeps DEF TypeOK, AbsentEmpty, JobsStay
  <2>2. ASSUME CancelRead(c, j) \/ RetryRead(c, j)
        PROVE  UNCHANGED item
    BY <2>2 DEF CancelRead, RetryRead
  <2> QED
    BY <1>0, <1>1, <2>1, <2>2
<1>2. ASSUME NEW c \in Clients, RequestStep(c) \/ PublishError(c) \/ ApiCrash(c)
      PROVE  AbsentEmpty'
  <2>1. CASE MarkEnqueueFailed(c)
    <3>1. SetItem(api[c].key, "failed")
      BY <2>1 DEF MarkEnqueueFailed
    <3>2. "failed" \in ItemStatus
      BY DEF ItemStatus
    <3> QED
      BY <3>1, <3>2, SetItemKeeps DEF TypeOK, AbsentEmpty, JobsStay
  <2>2. CASE RestoreRetryState(c)
    <3>1. UNCHANGED item \/ SetItem(api[c].key, api[c].item)
      BY <2>2 DEF RestoreRetryState
    <3>2. api[c].item \in ItemStatus
      BY <1>2 DEF TypeOK, Api
    <3> QED
      BY <1>0, <3>1, <3>2, SetItemKeeps DEF TypeOK, AbsentEmpty, JobsStay
  <2>3. CASE Cancel(c)
    <3>1. UNCHANGED item \/ SetItem(api[c].key, "failed")
      BY <2>3 DEF Cancel
    <3>2. "failed" \in ItemStatus
      BY DEF ItemStatus
    <3> QED
      BY <1>0, <3>1, <3>2, SetItemKeeps DEF TypeOK, AbsentEmpty, JobsStay
  <2>4. CASE Retry(c)
    <3>1. UNCHANGED item \/ SetItem(api[c].key, "processing")
      BY <2>4 DEF Retry
    <3>2. "processing" \in ItemStatus
      BY DEF ItemStatus
    <3> QED
      BY <1>0, <3>1, <3>2, SetItemKeeps DEF TypeOK, AbsentEmpty, JobsStay
  <2>5. ASSUME Publish(c) \/ RetryRaises(c) \/ PublishError(c) \/ ApiCrash(c)
        PROVE  UNCHANGED item
    BY <2>5 DEF Publish, RetryRaises, PublishError, ApiCrash
  <2> QED
    BY <1>0, <1>2, <2>1, <2>2, <2>3, <2>4, <2>5 DEF RequestStep
<1>3. ASSUME NEW j \in Jobs, NEW t \in Tasks, WorkerStep(j, t) \/ WorkerFault(j, t)
      PROVE  AbsentEmpty'
  <2>1. CASE Duplicate(j, t)
    <3>1. SetItem(j, "failed")
      BY <2>1 DEF Duplicate
    <3>2. "failed" \in ItemStatus
      BY DEF ItemStatus
    <3> QED
      BY <3>1, <3>2, SetItemKeeps DEF TypeOK, AbsentEmpty, JobsStay
  <2>2. CASE Store(j, t)
    <3>1. \A i \in Jobs : i # j => item'[i] = item[i]
      BY <2>2 DEF Store, TypeOK
    <3>2. job[j].status # "absent"
      BY <1>3, <2>2 DEF Store, RunPresent
    <3> QED
      BY <1>3, <3>1, <3>2 DEF AbsentEmpty, JobsStay
  <2>3. CASE FailItem(j, t)
    <3>1. SetItem(j, "failed")
      BY <2>3 DEF FailItem
    <3>2. "failed" \in ItemStatus
      BY DEF ItemStatus
    <3> QED
      BY <3>1, <3>2, SetItemKeeps DEF TypeOK, AbsentEmpty, JobsStay
  <2>4. CASE CancelItem(j, t)
    <3>1. UNCHANGED item \/ SetItem(j, "failed")
      BY <2>4 DEF CancelItem
    <3>2. "failed" \in ItemStatus
      BY DEF ItemStatus
    <3> QED
      BY <1>0, <3>1, <3>2, SetItemKeeps DEF TypeOK, AbsentEmpty, JobsStay
  <2>5. ASSUME Start(j, t) \/ Unique(j, t) \/ Outrun(j, t) \/ Complete(j, t) \/ Fail(j, t) \/
             Abandon(j, t) \/ WorkerCrash(j, t) \/ QueueLoss(j, t)
        PROVE  UNCHANGED item
    BY <2>5 DEF Start, Load, Join, FindNone, Create, BeginWork, Unique, Outrun, Complete, Fail, Abandon, WorkerCrash,
        QueueLoss, HandleException, EndTask
  <2> QED
    BY <1>0, <1>3, <2>1, <2>2, <2>3, <2>4, <2>5 DEF WorkerStep, WorkerFault
<1>4. ASSUME NEW j \in Jobs, ForgetResult(j) \/ Check(j)
      PROVE  AbsentEmpty'
  BY <1>0, <1>4 DEF ForgetResult, Check
<1>5. CASE CronStep \/ ResetFails \/ CronCrash
  <2>1. CASE Reset
    <3>1. SetItem(cron.key, "processing")
      BY <2>1 DEF Reset
    <3>2. "processing" \in ItemStatus
      BY DEF ItemStatus
    <3> QED
      BY <3>1, <3>2, SetItemKeeps DEF TypeOK, AbsentEmpty, JobsStay
  <2>2. ASSUME ResetRefused \/ Requeue \/ ResetFails \/ CronCrash
        PROVE  UNCHANGED item
    BY <2>2 DEF ResetRefused, Requeue, ResetFails, CronCrash
  <2> QED
    BY <1>0, <1>5, <2>1, <2>2 DEF CronStep
<1> QED
  BY <1>0, <1>1, <1>2, <1>3, <1>4, <1>5, Zenon DEF Next, Request, vars

LEMMA ReadyHashedNext ==
    ASSUME TypeOK, ReadyHashed, SnapshotHashed, StoresBody, [Next]_vars
    PROVE  ReadyHashed'
<1>0. ASSUME UNCHANGED item
      PROVE  ReadyHashed'
  BY <1>0 DEF ReadyHashed
<1>1. ASSUME NEW c \in Clients, NEW j \in Jobs, Ingest(c, j) \/ CancelRead(c, j) \/ RetryRead(c, j)
      PROVE  ReadyHashed'
  <2>1. CASE Ingest(c, j)
    <3>1. SetItem(j, "processing")
      BY <2>1 DEF Ingest
    <3>2. "processing" \in ItemStatus
      BY DEF ItemStatus
    <3> QED
      BY <3>1, <3>2, SetItemKeeps DEF TypeOK, ReadyHashed
  <2>2. ASSUME CancelRead(c, j) \/ RetryRead(c, j)
        PROVE  UNCHANGED item
    BY <2>2 DEF CancelRead, RetryRead
  <2> QED
    BY <1>0, <1>1, <2>1, <2>2
<1>2. ASSUME NEW c \in Clients, RequestStep(c) \/ PublishError(c) \/ ApiCrash(c)
      PROVE  ReadyHashed'
  <2>1. CASE MarkEnqueueFailed(c)
    <3>1. SetItem(api[c].key, "failed")
      BY <2>1 DEF MarkEnqueueFailed
    <3>2. "failed" \in ItemStatus
      BY DEF ItemStatus
    <3> QED
      BY <3>1, <3>2, SetItemKeeps DEF TypeOK, ReadyHashed
  <2>2. CASE RestoreRetryState(c)
    <3>1. UNCHANGED item \/ SetItem(api[c].key, api[c].item)
      BY <2>2 DEF RestoreRetryState
    <3>2. api[c].item \in ItemStatus
      BY <1>2 DEF TypeOK, Api
    <3> QED
      BY <1>0, <3>1, <3>2, SetItemKeeps, <1>2 DEF TypeOK, ReadyHashed, SnapshotHashed
  <2>3. CASE Cancel(c)
    <3>1. UNCHANGED item \/ SetItem(api[c].key, "failed")
      BY <2>3 DEF Cancel
    <3>2. "failed" \in ItemStatus
      BY DEF ItemStatus
    <3>3. ASSUME SetItem(api[c].key, "failed")
          PROVE  ReadyHashed'
      BY <3>2, <3>3, SetItemKeeps DEF TypeOK, ReadyHashed
    <3> QED
      BY <1>0, <3>1, <3>3
  <2>4. CASE Retry(c)
    <3>1. UNCHANGED item \/ SetItem(api[c].key, "processing")
      BY <2>4 DEF Retry
    <3>2. "processing" \in ItemStatus
      BY DEF ItemStatus
    <3>3. ASSUME SetItem(api[c].key, "processing")
          PROVE  ReadyHashed'
      BY <3>2, <3>3, SetItemKeeps DEF TypeOK, ReadyHashed
    <3> QED
      BY <1>0, <3>1, <3>3
  <2>5. ASSUME Publish(c) \/ RetryRaises(c) \/ PublishError(c) \/ ApiCrash(c)
        PROVE  UNCHANGED item
    BY <2>5 DEF Publish, RetryRaises, PublishError, ApiCrash
  <2> QED
    BY <1>0, <1>2, <2>1, <2>2, <2>3, <2>4, <2>5 DEF RequestStep
<1>3. ASSUME NEW j \in Jobs, NEW t \in Tasks, WorkerStep(j, t) \/ WorkerFault(j, t)
      PROVE  ReadyHashed'
  <2>1. CASE Duplicate(j, t)
    <3>1. SetItem(j, "failed")
      BY <2>1 DEF Duplicate
    <3>2. "failed" \in ItemStatus
      BY DEF ItemStatus
    <3> QED
      BY <3>1, <3>2, SetItemKeeps DEF TypeOK, ReadyHashed
  <2>2. CASE Store(j, t)
    <3>1. item' = [item EXCEPT ![j] = [status |-> "ready", hash |-> run[j][t].body, vec |-> TRUE]]
      BY <2>2 DEF Store
    <3>2. run[j][t].body \in Bodies
      BY <1>3, <2>2 DEF Store, StoresBody
    <3> QED
      BY <1>3, <3>1, <3>2, NameAssumption DEF TypeOK, ReadyHashed
  <2>3. CASE FailItem(j, t)
    <3>1. SetItem(j, "failed")
      BY <2>3 DEF FailItem
    <3>2. "failed" \in ItemStatus
      BY DEF ItemStatus
    <3> QED
      BY <3>1, <3>2, SetItemKeeps DEF TypeOK, ReadyHashed
  <2>4. CASE CancelItem(j, t)
    <3>1. UNCHANGED item \/ SetItem(j, "failed")
      BY <2>4 DEF CancelItem
    <3>2. "failed" \in ItemStatus
      BY DEF ItemStatus
    <3>3. ASSUME SetItem(j, "failed")
          PROVE  ReadyHashed'
      BY <3>2, <3>3, SetItemKeeps DEF TypeOK, ReadyHashed
    <3> QED
      BY <1>0, <3>1, <3>3
  <2>5. ASSUME Start(j, t) \/ Unique(j, t) \/ Outrun(j, t) \/ Complete(j, t) \/ Fail(j, t) \/
             Abandon(j, t) \/ WorkerCrash(j, t) \/ QueueLoss(j, t)
        PROVE  UNCHANGED item
    BY <2>5 DEF Start, Load, Join, FindNone, Create, BeginWork, Unique, Outrun, Complete, Fail, Abandon, WorkerCrash,
        QueueLoss, HandleException, EndTask
  <2> QED
    BY <1>0, <1>3, <2>1, <2>2, <2>3, <2>4, <2>5 DEF WorkerStep, WorkerFault
<1>4. ASSUME NEW j \in Jobs, ForgetResult(j) \/ Check(j)
      PROVE  ReadyHashed'
  BY <1>0, <1>4 DEF ForgetResult, Check
<1>5. CASE CronStep \/ ResetFails \/ CronCrash
  <2>1. CASE Reset
    <3>1. SetItem(cron.key, "processing")
      BY <2>1 DEF Reset
    <3>2. "processing" \in ItemStatus
      BY DEF ItemStatus
    <3> QED
      BY <3>1, <3>2, SetItemKeeps DEF TypeOK, ReadyHashed
  <2>2. ASSUME ResetRefused \/ Requeue \/ ResetFails \/ CronCrash
        PROVE  UNCHANGED item
    BY <2>2 DEF ResetRefused, Requeue, ResetFails, CronCrash
  <2> QED
    BY <1>0, <1>5, <2>1, <2>2 DEF CronStep
<1> QED
  BY <1>0, <1>1, <1>2, <1>3, <1>4, <1>5, Zenon DEF Next, Request, vars

LEMMA SnapshotHashedNext ==
    ASSUME TypeOK, ReadyHashed, SnapshotHashed, HashesStay, [Next]_vars
    PROVE  SnapshotHashed'
<1>0. ASSUME UNCHANGED api
      PROVE  SnapshotHashed'
  BY <1>0, NameAssumption DEF SnapshotHashed, HashesStay
<1>1. ASSUME NEW c \in Clients, NEW j \in Jobs, Ingest(c, j) \/ CancelRead(c, j) \/ RetryRead(c, j)
      PROVE  SnapshotHashed'
  <2>1. CASE Ingest(c, j)
    BY <1>1, <2>1, NameAssumption DEF Ingest, SnapshotHashed, HashesStay, TypeOK, Api,
        IdleApi, ReadyHashed
  <2>2. CASE CancelRead(c, j)
    BY <1>1, <2>2, NameAssumption DEF CancelRead, SnapshotHashed, HashesStay, TypeOK,
        Api, IdleApi, ReadyHashed
  <2>3. CASE RetryRead(c, j)
    BY <1>1, <2>3, NameAssumption DEF RetryRead, SnapshotHashed, HashesStay, TypeOK,
        Api, IdleApi, ReadyHashed
  <2> QED
    BY <1>0, <1>1, <2>1, <2>2, <2>3
<1>2. ASSUME NEW c \in Clients, RequestStep(c) \/ PublishError(c) \/ ApiCrash(c)
      PROVE  SnapshotHashed'
  <2>1. CASE Publish(c)
    BY <1>2, <2>1, NameAssumption DEF Publish, SnapshotHashed, HashesStay, TypeOK, Api,
        IdleApi, ReadyHashed
  <2>2. CASE MarkEnqueueFailed(c)
    <3>1. api' = [api EXCEPT ![c] = IdleApi]
      BY <2>2 DEF MarkEnqueueFailed
    <3> QED
      BY <1>2, <3>1, NameAssumption DEF TypeOK, SnapshotHashed, HashesStay, IdleApi
  <2>3. CASE RestoreRetryState(c)
    <3>1. api' = [api EXCEPT ![c] = IdleApi]
      BY <2>3 DEF RestoreRetryState
    <3> QED
      BY <1>2, <3>1, NameAssumption DEF TypeOK, SnapshotHashed, HashesStay, IdleApi
  <2>4. CASE Cancel(c)
    <3>1. api' = [api EXCEPT ![c] = IdleApi]
      BY <2>4 DEF Cancel
    <3> QED
      BY <1>2, <3>1, NameAssumption DEF TypeOK, SnapshotHashed, HashesStay, IdleApi
  <2>5. CASE Retry(c)
    BY <1>2, <2>5, NameAssumption DEF Retry, SnapshotHashed, HashesStay, TypeOK, Api,
        IdleApi, ReadyHashed
  <2>6. CASE RetryRaises(c)
    BY <1>2, <2>6, NameAssumption DEF RetryRaises, SnapshotHashed, HashesStay, TypeOK,
        Api, IdleApi, ReadyHashed
  <2>7. CASE PublishError(c)
    BY <1>2, <2>7, NameAssumption DEF PublishError, SnapshotHashed, HashesStay, TypeOK,
        Api, IdleApi, ReadyHashed
  <2>8. CASE ApiCrash(c)
    BY <1>2, <2>8, NameAssumption DEF ApiCrash, SnapshotHashed, HashesStay, TypeOK, Api,
        IdleApi, ReadyHashed
  <2> QED
    BY <1>0, <1>2, <2>1, <2>2, <2>3, <2>4, <2>5, <2>6, <2>7, <2>8 DEF RequestStep
<1>3. ASSUME NEW j \in Jobs, NEW t \in Tasks, WorkerStep(j, t) \/ WorkerFault(j, t)
      PROVE  SnapshotHashed'
  BY <1>0, <1>3 DEF WorkerStep, WorkerFault, Start, Load, Join, FindNone, Create,
      BeginWork, Unique, Duplicate, Store,
      Outrun, Complete, FailItem, CancelItem, Fail, Abandon, WorkerCrash, QueueLoss,
      EndTask, HandleException
<1>4. ASSUME NEW j \in Jobs, ForgetResult(j) \/ Check(j)
      PROVE  SnapshotHashed'
  BY <1>0, <1>4 DEF ForgetResult, Check
<1>5. CASE CronStep \/ ResetFails \/ CronCrash
  BY <1>0, <1>5 DEF CronStep, Reset, ResetRefused, Requeue, ResetFails, CronCrash
<1> QED
  BY <1>0, <1>1, <1>2, <1>3, <1>4, <1>5, Zenon DEF Next, Request, vars

\* A row that leaves the index, or that nobody in it rivals, may change its status.
LEMMA SetItemUnique ==
    ASSUME TypeOK, UniqueHash, NEW k, NEW s \in ItemStatus, SetItem(k, s),
           s = "failed" \/ (k \in Jobs => ~Clash(k))
    PROVE  UniqueHash'
<1>1. \A i \in Jobs : /\ item'[i].hash = item[i].hash
                      /\ item'[i].status = IF i = k THEN s ELSE item[i].status
  BY SetItemKeeps DEF TypeOK
<1>2. CASE s = "failed"
  BY <1>1, <1>2 DEF UniqueHash
<1>3. CASE k \in Jobs => ~Clash(k)
  BY <1>1, <1>3 DEF UniqueHash, Clash, Rivals
<1> QED
  BY <1>2, <1>3

LEMMA UniqueHashNext ==
    ASSUME TypeOK, UniqueHash, AbsentEmpty, StoresBody, [Next]_vars
    PROVE  UniqueHash'
<1>0. ASSUME UNCHANGED item
      PROVE  UniqueHash'
  BY <1>0 DEF UniqueHash
<1>1. ASSUME NEW c \in Clients, NEW j \in Jobs, Ingest(c, j) \/ CancelRead(c, j) \/ RetryRead(c, j)
      PROVE  UniqueHash'
  <2>1. CASE Ingest(c, j)
    <3>1. SetItem(j, "processing")
      BY <2>1 DEF Ingest
    <3>2. ~Clash(j)
      BY <1>1, <2>1 DEF Ingest, AbsentEmpty, Clash
    <3> QED
      BY <3>1, <3>2, SetItemUnique DEF ItemStatus
  <2>2. ASSUME CancelRead(c, j) \/ RetryRead(c, j)
        PROVE  UNCHANGED item
    BY <2>2 DEF CancelRead, RetryRead
  <2> QED
    BY <1>0, <1>1, <2>1, <2>2
<1>2. ASSUME NEW c \in Clients, RequestStep(c) \/ PublishError(c) \/ ApiCrash(c)
      PROVE  UniqueHash'
  <2>1. CASE MarkEnqueueFailed(c)
    <3>1. SetItem(api[c].key, "failed")
      BY <2>1 DEF MarkEnqueueFailed
    <3> QED
      BY <3>1, SetItemUnique DEF ItemStatus
  <2>2. CASE RestoreRetryState(c)
    <3>1. UNCHANGED item \/ SetItem(api[c].key, api[c].item)
      BY <2>2 DEF RestoreRetryState
    <3>2. api[c].item \in ItemStatus
      BY <1>2 DEF TypeOK, Api
    <3>3. CASE api[c].item \notin {"processing", "failed"} /\ Clash(api[c].key)
      BY <1>0, <2>2, <3>3 DEF RestoreRetryState
    <3>4. CASE ~Clash(api[c].key)
      BY <1>0, <3>1, <3>2, <3>4, SetItemUnique
    <3>5. CASE api[c].item \in {"processing", "failed"}
      BY <1>0, <2>2, <3>1, <3>2, <3>5, SetItemUnique DEF RestoreRetryState
    <3> QED
      BY <3>3, <3>4, <3>5
  <2>3. CASE Cancel(c)
    <3>1. UNCHANGED item \/ SetItem(api[c].key, "failed")
      BY <2>3 DEF Cancel
    <3> QED
      BY <1>0, <3>1, SetItemUnique DEF ItemStatus
  <2>4. CASE Retry(c)
    <3>1. UNCHANGED item \/ (SetItem(api[c].key, "processing") /\ ~Clash(api[c].key))
      BY <2>4 DEF Retry, RetryRefused
    <3> QED
      BY <1>0, <3>1, SetItemUnique DEF ItemStatus
  <2>5. ASSUME Publish(c) \/ RetryRaises(c) \/ PublishError(c) \/ ApiCrash(c)
        PROVE  UNCHANGED item
    BY <2>5 DEF Publish, RetryRaises, PublishError, ApiCrash
  <2> QED
    BY <1>0, <1>2, <2>1, <2>2, <2>3, <2>4, <2>5 DEF RequestStep
<1>3. ASSUME NEW j \in Jobs, NEW t \in Tasks, WorkerStep(j, t) \/ WorkerFault(j, t)
      PROVE  UniqueHash'
  <2>1. CASE Duplicate(j, t)
    <3>1. SetItem(j, "failed")
      BY <2>1 DEF Duplicate
    <3> QED
      BY <3>1, SetItemUnique DEF ItemStatus
  <2>2. CASE Store(j, t)
    <3>1. item' = [item EXCEPT ![j] = [status |-> "ready", hash |-> run[j][t].body, vec |-> TRUE]]
      BY <2>2 DEF Store
    <3>2. run[j][t].body \in Bodies
      BY <1>3, <2>2 DEF Store, StoresBody
    <3>3. Rivals(j, run[j][t].body) = {}
      BY <2>2 DEF Store
    <3> QED
      BY <1>3, <3>1, <3>3 DEF TypeOK, UniqueHash, Rivals
  <2>3. CASE FailItem(j, t)
    <3>1. SetItem(j, "failed")
      BY <2>3 DEF FailItem
    <3> QED
      BY <3>1, SetItemUnique DEF ItemStatus
  <2>4. CASE CancelItem(j, t)
    <3>1. UNCHANGED item \/ SetItem(j, "failed")
      BY <2>4 DEF CancelItem
    <3> QED
      BY <1>0, <3>1, SetItemUnique DEF ItemStatus
  <2>5. ASSUME Start(j, t) \/ Unique(j, t) \/ Outrun(j, t) \/ Complete(j, t) \/ Fail(j, t) \/
             Abandon(j, t) \/ WorkerCrash(j, t) \/ QueueLoss(j, t)
        PROVE  UNCHANGED item
    BY <2>5 DEF Start, Load, Join, FindNone, Create, BeginWork, Unique, Outrun, Complete, Fail, Abandon, WorkerCrash,
        QueueLoss, HandleException, EndTask
  <2> QED
    BY <1>0, <1>3, <2>1, <2>2, <2>3, <2>4, <2>5 DEF WorkerStep, WorkerFault
<1>4. ASSUME NEW j \in Jobs, ForgetResult(j) \/ Check(j)
      PROVE  UniqueHash'
  BY <1>0, <1>4 DEF ForgetResult, Check
<1>5. CASE CronStep \/ ResetFails \/ CronCrash
  <2>1. CASE Reset
    <3>1. SetItem(cron.key, "processing") /\ ~Clash(cron.key)
      BY <2>1 DEF Reset
    <3> QED
      BY <3>1, SetItemUnique DEF ItemStatus
  <2>2. ASSUME ResetRefused \/ Requeue \/ ResetFails \/ CronCrash
        PROVE  UNCHANGED item
    BY <2>2 DEF ResetRefused, Requeue, ResetFails, CronCrash
  <2> QED
    BY <1>0, <1>5, <2>1, <2>2 DEF CronStep
<1> QED
  BY <1>0, <1>1, <1>2, <1>3, <1>4, <1>5, Zenon DEF Next, Request, vars

\* OneReadyPerBody holds in every reachable state.
THEOREM OneReadyItemPerBody == Spec => []OneReadyPerBody
<1>1. Init => Indexed
  BY DEF Init, Indexed, UniqueHash, ReadyHashed, SnapshotHashed, RunPresent, StoresBody,
      AbsentEmpty, IdleRun, IdleApi
<1>2. TypeOK /\ Indexed /\ [Next]_vars => Indexed'
  <2> SUFFICES ASSUME TypeOK, Indexed, [Next]_vars
               PROVE  Indexed'
    OBVIOUS
  <2> USE DEF Indexed
  <2>1. JobsStay /\ HashesStay
    BY JobsStayNext, HashesStayNext
  <2>2. RunPresent' /\ StoresBody'
    BY <2>1, RunPresentNext, StoresBodyNext
  <2>3. AbsentEmpty' /\ ReadyHashed' /\ SnapshotHashed'
    BY <2>1, AbsentEmptyNext, ReadyHashedNext, SnapshotHashedNext
  <2>4. UniqueHash'
    BY UniqueHashNext
  <2> QED
    BY <2>2, <2>3, <2>4
<1>3. Indexed => OneReadyPerBody
  BY DEF Indexed, UniqueHash, ReadyHashed, OneReadyPerBody
<1> QED
  BY <1>1, <1>2, <1>3, TypeCorrect, PTL DEF Spec

=============================================================================
