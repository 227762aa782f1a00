------------------------- MODULE MemoryJobs_proofs -------------------------
(***************************************************************************)
(* Theorems about MemoryJobs, for every set of keys, bodies and clients    *)
(* and every bound.                                                        *)
(***************************************************************************)
EXTENDS MemoryJobs, TLAPS

-----------------------------------------------------------------------------
(* The attempt ledger *)

Ledger == [Numbers -> AttemptStatus]

OneActive(as) ==
    \A n, m \in Numbers :
        as[n] \in ActiveAttempt /\ as[m] \in ActiveAttempt => n = m

\* What one step may do to a ledger: it stays a ledger, its terminal attempts
\* stay as they are, no attempt disappears, one active attempt is the most.
LedgerOK(as, bs) ==
    /\ bs \in Ledger
    /\ \A n \in Numbers :
          /\ as[n] \in TerminalAttempt => bs[n] = as[n]
          /\ as[n] \in ActiveAttempt => bs[n] # "none"
    /\ OneActive(as) => OneActive(bs)

LEMMA LedgerSame ==
    ASSUME NEW as \in Ledger
    PROVE  LedgerOK(as, as)
BY DEF LedgerOK, Ledger, ActiveAttempt

\* Closing an attempt.
LEMMA LedgerFinish ==
    ASSUME NEW as \in Ledger, NEW n, NEW status \in TerminalAttempt
    PROVE  LedgerOK(as, Finish(as, n, status))
<1>1. CASE as[n] \in ActiveAttempt /\ n \in Numbers
  <2> DEFINE bs == [as EXCEPT ![n] = status]
  <2>1. Finish(as, n, status) = bs
    BY <1>1 DEF Finish
  <2>2. bs \in Ledger /\ \A m \in Numbers : bs[m] = IF m = n THEN status ELSE as[m]
    BY <1>1 DEF Ledger, AttemptStatus
  <2> HIDE DEF bs
  <2>3. LedgerOK(as, bs)
    BY <1>1, <2>2 DEF LedgerOK, OneActive, TerminalAttempt, ActiveAttempt
  <2> QED
    BY <2>1, <2>3
<1>2. CASE as[n] \in ActiveAttempt /\ n \notin Numbers
  <2>1. Finish(as, n, status) = as
    BY <1>2 DEF Finish, Ledger
  <2> QED
    BY <2>1, LedgerSame
<1>3. CASE as[n] \notin ActiveAttempt
  BY <1>3, LedgerSame DEF Finish
<1> QED
  BY <1>1, <1>2, <1>3

LEMMA LedgerFinishActive ==
    ASSUME NEW as \in Ledger, NEW status \in TerminalAttempt
    PROVE  LedgerOK(as, FinishActive(as, status))
BY LedgerSame, LedgerFinish DEF FinishActive

\* Opening an attempt.
LEMMA LedgerCreate ==
    ASSUME NEW as \in Ledger, CanCreate(as)
    PROVE  /\ LedgerOK(as, Create(as))
           /\ NextNumber(as) \in Numbers
<1> DEFINE n  == NextNumber(as)
           bs == [as EXCEPT ![n] = "queued"]
<1>1. n \in Numbers /\ as[n] = "none"
  BY DEF CanCreate, HasNumber, NextNumber, Fresh
<1>2. Create(as) = bs
  BY DEF Create
<1> HIDE DEF n
<1>3. bs \in Ledger /\ \A m \in Numbers : bs[m] = IF m = n THEN "queued" ELSE as[m]
  BY <1>1 DEF Ledger, AttemptStatus, ActiveAttempt
<1> HIDE DEF bs
<1>4. \A m \in Numbers : as[m] \notin ActiveAttempt
  BY DEF CanCreate, HasActive
<1>5. LedgerOK(as, bs)
  BY <1>1, <1>3, <1>4 DEF LedgerOK, OneActive, TerminalAttempt, ActiveAttempt
<1> QED
  BY <1>1, <1>2, <1>5 DEF n

LEMMA LedgerTrans ==
    ASSUME NEW as \in Ledger, NEW bs, NEW cs, LedgerOK(as, bs), LedgerOK(bs, cs)
    PROVE  LedgerOK(as, cs)
<1>1. \A n \in Numbers :
         bs[n] \in AttemptStatus
  BY DEF LedgerOK, Ledger
<1> QED
  BY <1>1 DEF LedgerOK, AttemptStatus

-----------------------------------------------------------------------------
(* Steps and the ledgers *)

\* Every step treats every ledger as LedgerOK allows.
LEMMA LedgerNext ==
    ASSUME attempts \in [Keys -> Ledger], rec \in Rec, [Next]_vars
    PROVE  \A k \in Keys : LedgerOK(attempts[k], attempts'[k])
<1>0. ASSUME UNCHANGED attempts
      PROVE  \A k \in Keys : LedgerOK(attempts[k], attempts'[k])
  BY <1>0, LedgerSame
<1>1. CASE Environment
  BY <1>0, <1>1 DEF Environment, Age, ClearContent, ForgetResult, QueueLoss
<1>2. ASSUME NEW c \in Clients, Request(c)
      PROVE  \A k \in Keys : LedgerOK(attempts[k], attempts'[k])
  <2>1. ASSUME NEW k \in Keys, Retry(c, k)
        PROVE  \A r \in Keys : LedgerOK(attempts[r], attempts'[r])
    <3>1. /\ CanCreate(attempts[k])
          /\ attempts' = [attempts EXCEPT ![k] = Create(attempts[k])]
      BY <2>1 DEF Retry
    <3>2. LedgerOK(attempts[k], Create(attempts[k]))
      BY <3>1, LedgerCreate
    <3> QED
      BY <3>1, <3>2, LedgerSame
  <2>2. ASSUME NEW k \in Keys,
               AcceptNew(c, k) \/ ReviveStale(c, k) \/ ReviveUnavailable(c, k)
        PROVE  UNCHANGED attempts
    BY <2>2 DEF AcceptNew, ReviveStale, ReviveUnavailable
  <2>3. ASSUME ApiCrash(c)
        PROVE  UNCHANGED attempts
    BY <2>3 DEF ApiCrash
  <2> QED
    BY <1>0, <1>2, <2>1, <2>2, <2>3 DEF Request
<1>3. ASSUME NEW c \in Clients, RequestStep(c)
      PROVE  \A k \in Keys : LedgerOK(attempts[k], attempts'[k])
  <2>1. CASE MarkUnavailable(c)
    <3>1. attempts' = [attempts EXCEPT ![api[c].key] =
                          FinishActive(attempts[api[c].key], "failed")]
      BY <2>1 DEF MarkUnavailable
    <3>2. \A k \in Keys : LedgerOK(attempts[k], FinishActive(attempts[k], "failed"))
      BY LedgerFinishActive DEF TerminalAttempt
    <3> QED
      BY <3>1, <3>2, LedgerSame
  <2>2. ASSUME Stamp(c) \/ Publish(c) \/ PublishTaken(c) \/ PublishError(c)
        PROVE  UNCHANGED attempts
    BY <2>2 DEF Stamp, Publish, PublishTaken, PublishError
  <2> QED
    BY <1>0, <1>3, <2>1, <2>2 DEF RequestStep
<1>4. ASSUME NEW k \in Keys, NEW g \in Gens, WorkerStep(k, g) \/ WorkerFault(k, g)
      PROVE  UNCHANGED attempts
  BY <1>4 DEF WorkerStep, WorkerFault, Start, StartNoSource, Dedupe, Embed, StoreHash,
              Final, FailOnClash, FailOnError, Abandon, WorkerCrash, StoreFailure
<1>5. ASSUME NEW k \in Keys, Scan(k)
      PROVE  UNCHANGED attempts
  BY <1>5 DEF Scan
<1>6. CASE RecoveryStep
  <2>1. CASE LockDeadLetter
    <3>1. attempts' = [attempts EXCEPT ![rec.key] =
                          FinishActive(attempts[rec.key], "dead_lettered")]
      BY <2>1 DEF LockDeadLetter
    <3>2. \A k \in Keys :
             LedgerOK(attempts[k], FinishActive(attempts[k], "dead_lettered"))
      BY LedgerFinishActive DEF TerminalAttempt
    <3> QED
      BY <3>1, <3>2, LedgerSame
  <2>2. CASE LockRecord
    <3> DEFINE closed == FinishActive(attempts[rec.key], "failed")
               new    == Create(closed)
    <3>1. /\ CanCreate(closed)
          /\ attempts' = [attempts EXCEPT ![rec.key] = new]
      BY <2>2 DEF LockRecord
    <3>2. ASSUME rec.key \in Keys
          PROVE  LedgerOK(attempts[rec.key], new)
      <4>1. LedgerOK(attempts[rec.key], closed)
        BY <3>2, LedgerFinishActive DEF TerminalAttempt
      <4>2. closed \in Ledger
        BY <4>1 DEF LedgerOK
      <4>3. LedgerOK(closed, new)
        BY <3>1, <4>2, LedgerCreate
      <4> QED
        BY <3>2, <4>1, <4>3, LedgerTrans
    <3> HIDE DEF new
    <3> QED
      BY <3>1, <3>2, LedgerSame
  <2>3. CASE RecAbort
    <3>1. attempts' = [attempts EXCEPT ![rec.key] =
                          Finish(attempts[rec.key], rec.att, "failed")]
      BY <2>3 DEF RecAbort
    <3>2. \A k \in Keys :
             LedgerOK(attempts[k], Finish(attempts[k], rec.att, "failed"))
      BY LedgerFinish DEF TerminalAttempt
    <3> QED
      BY <3>1, <3>2, LedgerSame
  <2>4. ASSUME LockSkip \/ RecPublish \/ RecPublishTaken \/ RecPublishError
               \/ RecWrite \/ RecWriteRefused
        PROVE  UNCHANGED attempts
    BY <2>4 DEF LockSkip, RecPublish, RecPublishTaken, RecPublishError, RecWrite,
                RecWriteRefused
  <2> QED
    BY <1>0, <1>6, <2>1, <2>2, <2>3, <2>4 DEF RecoveryStep
<1>7. CASE RecCrash
  BY <1>0, <1>7 DEF RecCrash
<1>8. CASE UNCHANGED vars
  BY <1>0, <1>8 DEF vars
<1> QED
  BY <1>0, <1>1, <1>2, <1>3, <1>4, <1>5, <1>6, <1>7, <1>8 DEF Next

-----------------------------------------------------------------------------
(* Type correctness, one variable at a time *)

\* The jobs rows.
LEMMA JobType ==
    ASSUME job \in [Keys -> Job], api \in [Clients -> Api], rec \in Rec, [Next]_vars
    PROVE  job' \in [Keys -> Job]
<1>0. ASSUME UNCHANGED job
      PROVE  job' \in [Keys -> Job]
  BY <1>0
<1>1. CASE Environment
  BY <1>0, <1>1 DEF Environment, Age, ClearContent, ForgetResult, QueueLoss
<1>2. ASSUME NEW c \in Clients, Request(c)
      PROVE  job' \in [Keys -> Job]
  <2>1. ASSUME NEW k \in Keys, AcceptNew(c, k)
        PROVE  job' \in [Keys -> Job]
    BY <1>2, <2>1 DEF AcceptNew, Job, JobStatus
  <2>2. ASSUME NEW k \in Keys, ReviveStale(c, k)
        PROVE  job' \in [Keys -> Job]
    BY <1>2, <2>2 DEF ReviveStale, Job, JobStatus
  <2>3. ASSUME NEW k \in Keys, ReviveUnavailable(c, k)
        PROVE  job' \in [Keys -> Job]
    BY <1>2, <2>3 DEF ReviveUnavailable, Job, JobStatus
  <2>4. ASSUME NEW k \in Keys, Retry(c, k)
        PROVE  job' \in [Keys -> Job]
    BY <1>2, <2>4 DEF Retry, Job, JobStatus
  <2>5. ASSUME ApiCrash(c)
        PROVE  UNCHANGED job
    BY <2>5 DEF ApiCrash
  <2> QED
    BY <1>0, <1>2, <2>1, <2>2, <2>3, <2>4, <2>5 DEF Request
<1>3. ASSUME NEW c \in Clients, RequestStep(c)
      PROVE  job' \in [Keys -> Job]
  <2>1. CASE Stamp(c)
    BY <1>3, <2>1, BoundAssumption DEF Stamp, Api, Job, JobStatus
  <2>2. CASE MarkUnavailable(c)
    <3> DEFINE k   == api[c].key
               new == [job[k] EXCEPT !.status = "failed", !.gen = api[c].gen, !.dep = TRUE]
    <3>1. job' = [job EXCEPT ![k] = new]
      BY <1>3, <2>2 DEF MarkUnavailable
    <3>2. api[c].gen \in -1 .. MaxGen
      BY <1>3, <2>2 DEF Api
    <3>3. ASSUME k \in Keys
          PROVE  new \in Job
      BY <3>2, <3>3 DEF Job, JobStatus
    <3> HIDE DEF k, new
    <3> QED
      BY <3>1, <3>3
  <2>3. ASSUME Publish(c) \/ PublishTaken(c) \/ PublishError(c)
        PROVE  UNCHANGED job
    BY <2>3 DEF Publish, PublishTaken, PublishError
  <2> QED
    BY <1>0, <1>3, <2>1, <2>2, <2>3 DEF RequestStep
<1>4. ASSUME NEW k \in Keys, NEW g \in Gens, WorkerStep(k, g) \/ WorkerFault(k, g)
      PROVE  job' \in [Keys -> Job]
  <2>1. CASE Start(k, g)
    BY <1>4, <2>1 DEF Start, Job, JobStatus
  <2>2. CASE Dedupe(k, g)
    <3>1. PICK r \in Keys : job' = [job EXCEPT ![k].status = "duplicate", ![k].dup = r]
      BY <1>4, <2>2 DEF Dedupe, Rivals
    <3> QED
      BY <1>4, <2>2, <3>1 DEF Job, JobStatus
  <2>3. CASE Final(k, g)
    BY <1>4, <2>3 DEF Final, Job, JobStatus
  <2>4. CASE FailOnClash(k, g)
    BY <1>4, <2>4 DEF FailOnClash, StoreFailure, Job, JobStatus
  <2>5. CASE FailOnError(k, g)
    BY <1>4, <2>5 DEF FailOnError, StoreFailure, Job, JobStatus
  <2>6. ASSUME \/ StartNoSource(k, g) \/ Embed(k, g) \/ StoreHash(k, g)
               \/ Abandon(k, g) \/ WorkerCrash(k, g)
        PROVE  UNCHANGED job
    BY <2>6 DEF StartNoSource, Embed, StoreHash, Abandon, WorkerCrash, StoreFailure,
        EndRun
  <2> QED
    BY <1>0, <1>4, <2>1, <2>2, <2>3, <2>4, <2>5, <2>6 DEF WorkerStep, WorkerFault
<1>5. ASSUME NEW k \in Keys, Scan(k)
      PROVE  job' \in [Keys -> Job]
  BY <1>0, <1>5 DEF Scan
<1>6. CASE RecoveryStep
  <2>1. CASE LockDeadLetter
    BY <2>1 DEF LockDeadLetter, Job, JobStatus
  <2>2. CASE RecWrite
    <3>1. job' = [job EXCEPT ![rec.key] = RecWriteJob(rec.key)]
      BY <2>2 DEF RecWrite
    <3>2. rec.gen \in -1 .. MaxGen /\ rec.dep \in BOOLEAN
      BY DEF Rec
    <3>3. ASSUME rec.key \in Keys
          PROVE  RecWriteJob(rec.key) \in Job
      <4>1. job[rec.key] \in Job
        BY <3>3
      <4> QED
        BY <3>2, <4>1, BoundAssumption DEF RecWriteJob, Job, JobStatus
    <3> QED
      BY <3>1, <3>3
  <2>3. ASSUME \/ LockSkip \/ LockRecord \/ RecPublish \/ RecPublishTaken
               \/ RecPublishError \/ RecAbort \/ RecWriteRefused
        PROVE  UNCHANGED job
    BY <2>3 DEF LockSkip, LockRecord, RecPublish, RecPublishTaken, RecPublishError,
        RecAbort, RecWriteRefused
  <2> QED
    BY <1>0, <1>6, <2>1, <2>2, <2>3 DEF RecoveryStep
<1>7. CASE RecCrash
  BY <1>0, <1>7 DEF RecCrash
<1>8. CASE UNCHANGED vars
  BY <1>0, <1>8 DEF vars
<1> QED
  BY <1>0, <1>1, <1>2, <1>3, <1>4, <1>5, <1>6, <1>7, <1>8, Zenon DEF Next

\* The items rows.
LEMMA ItemType ==
    ASSUME item \in [Keys -> Item], rec \in Rec, [Next]_vars
    PROVE  item' \in [Keys -> Item]
<1>0. ASSUME UNCHANGED item
      PROVE  item' \in [Keys -> Item]
  BY <1>0
<1>1. CASE Environment
  <2>1. ASSUME NEW k \in Keys, ClearContent(k)
        PROVE  item' \in [Keys -> Item]
    BY <2>1 DEF ClearContent, Item, ItemStatus
  <2>2. ASSUME NEW k \in Keys,
               Age(k)
        PROVE  UNCHANGED item
    BY <2>2 DEF Age
  <2>3. ASSUME NEW k \in Keys, NEW g \in Gens,
               ForgetResult(k, g) \/ QueueLoss(k, g)
        PROVE  UNCHANGED item
    BY <2>3 DEF ForgetResult, QueueLoss
  <2> QED
    BY <1>0, <1>1, <2>1, <2>2, <2>3 DEF Environment
<1>2. ASSUME NEW c \in Clients, Request(c)
      PROVE  item' \in [Keys -> Item]
  <2>1. ASSUME NEW k \in Keys, AcceptNew(c, k)
        PROVE  item' \in [Keys -> Item]
    BY <1>2, <2>1 DEF AcceptNew, Item, ItemStatus
  <2>2. ASSUME NEW k \in Keys, ReviveStale(c, k)
        PROVE  item' \in [Keys -> Item]
    BY <1>2, <2>2 DEF ReviveStale, Item, ItemStatus
  <2>3. ASSUME NEW k \in Keys, ReviveUnavailable(c, k)
        PROVE  item' \in [Keys -> Item]
    BY <1>2, <2>3 DEF ReviveUnavailable, Item, ItemStatus
  <2>4. ASSUME NEW k \in Keys, Retry(c, k)
        PROVE  item' \in [Keys -> Item]
    BY <1>2, <2>4 DEF Retry, Item, ItemStatus
  <2>5. ASSUME ApiCrash(c)
        PROVE  UNCHANGED item
    BY <2>5 DEF ApiCrash
  <2> QED
    BY <1>0, <1>2, <2>1, <2>2, <2>3, <2>4, <2>5 DEF Request
<1>3. ASSUME NEW c \in Clients, RequestStep(c)
      PROVE  item' \in [Keys -> Item]
  BY <1>0, <1>3 DEF RequestStep, Stamp, Publish, PublishTaken, PublishError,
      MarkUnavailable
<1>4. ASSUME NEW k \in Keys, NEW g \in Gens, WorkerStep(k, g) \/ WorkerFault(k, g)
      PROVE  item' \in [Keys -> Item]
  <2>1. CASE Dedupe(k, g)
    BY <1>4, <2>1 DEF Dedupe, Item, ItemStatus
  <2>2. CASE StoreHash(k, g)
    BY <1>4, <2>2 DEF StoreHash, Item, ItemStatus
  <2>3. CASE Final(k, g)
    <3>1. item[k] \in Item
      BY <1>4, <2>3
    <3>2. ReadyItem(k, g) \in ItemStatus
      BY <3>1 DEF ReadyItem, Item, ItemStatus
    <3>3. item' = [item EXCEPT ![k].status = ReadyItem(k, g), ![k].vec = TRUE]
      BY <1>4, <2>3 DEF Final
    <3> QED
      BY <1>4, <2>3, <3>1, <3>2, <3>3 DEF Item
  <2>4. CASE FailOnClash(k, g)
    BY <1>4, <2>4 DEF FailOnClash, StoreFailure, Item, ItemStatus
  <2>5. CASE FailOnError(k, g)
    BY <1>4, <2>5 DEF FailOnError, StoreFailure, Item, ItemStatus
  <2>6. ASSUME \/ Start(k, g) \/ StartNoSource(k, g) \/ Embed(k, g)
               \/ Abandon(k, g) \/ WorkerCrash(k, g)
        PROVE  UNCHANGED item
    BY <2>6 DEF Start, StartNoSource, Embed, Abandon, WorkerCrash, StoreFailure,
        EndRun
  <2> QED
    BY <1>0, <1>4, <2>1, <2>2, <2>3, <2>4, <2>5, <2>6 DEF WorkerStep, WorkerFault
<1>5. ASSUME NEW k \in Keys, Scan(k)
      PROVE  item' \in [Keys -> Item]
  BY <1>0, <1>5 DEF Scan
<1>6. CASE RecoveryStep
  <2>1. CASE RecWrite
    <3>1. item' = [item EXCEPT ![rec.key].status = RecWriteItem(rec.key)]
      BY <2>1 DEF RecWrite
    <3>2. ASSUME rec.key \in Keys
          PROVE  item[rec.key] \in Item /\ RecWriteItem(rec.key) \in ItemStatus
      BY <3>2 DEF RecWriteItem, Item, ItemStatus
    <3> QED
      BY <3>1, <3>2 DEF Item
  <2>2. ASSUME \/ LockSkip \/ LockDeadLetter \/ LockRecord \/ RecPublish
               \/ RecPublishTaken \/ RecPublishError \/ RecAbort
               \/ RecWriteRefused
        PROVE  UNCHANGED item
    BY <2>2 DEF LockSkip, LockDeadLetter, LockRecord, RecPublish, RecPublishTaken,
        RecPublishError, RecAbort, RecWriteRefused
  <2> QED
    BY <1>0, <1>6, <2>1, <2>2 DEF RecoveryStep
<1>7. CASE RecCrash
  BY <1>0, <1>7 DEF RecCrash
<1>8. CASE UNCHANGED vars
  BY <1>0, <1>8 DEF vars
<1> QED
  BY <1>0, <1>1, <1>2, <1>3, <1>4, <1>5, <1>6, <1>7, <1>8, Zenon DEF Next

\* The ARQ ids.
LEMMA ArqType ==
    ASSUME arq \in [Keys -> [Gens -> ArqStatus]], [Next]_vars
    PROVE  arq' \in [Keys -> [Gens -> ArqStatus]]
<1>0. ASSUME UNCHANGED arq
      PROVE  arq' \in [Keys -> [Gens -> ArqStatus]]
  BY <1>0
<1>1. CASE Environment
  <2>1. ASSUME NEW k \in Keys, NEW g \in Gens, ForgetResult(k, g)
        PROVE  arq' \in [Keys -> [Gens -> ArqStatus]]
    BY <2>1 DEF ForgetResult, ArqStatus
  <2>2. ASSUME NEW k \in Keys, NEW g \in Gens, QueueLoss(k, g)
        PROVE  arq' \in [Keys -> [Gens -> ArqStatus]]
    BY <2>2 DEF QueueLoss, ArqStatus
  <2>3. ASSUME NEW k \in Keys,
               Age(k) \/ ClearContent(k)
        PROVE  UNCHANGED arq
    BY <2>3 DEF Age, ClearContent
  <2> QED
    BY <1>0, <1>1, <2>1, <2>2, <2>3 DEF Environment
<1>2. ASSUME NEW c \in Clients, Request(c)
      PROVE  arq' \in [Keys -> [Gens -> ArqStatus]]
  BY <1>0, <1>2 DEF Request, AcceptNew, ReviveStale, ReviveUnavailable, Retry, ApiCrash
<1>3. ASSUME NEW c \in Clients, RequestStep(c)
      PROVE  arq' \in [Keys -> [Gens -> ArqStatus]]
  <2>1. CASE Publish(c)
    BY <1>3, <2>1 DEF Publish, ArqStatus
  <2>2. CASE PublishError(c)
    BY <1>3, <2>2 DEF PublishError, ArqStatus
  <2>3. ASSUME Stamp(c) \/ PublishTaken(c) \/ MarkUnavailable(c)
        PROVE  UNCHANGED arq
    BY <2>3 DEF Stamp, PublishTaken, MarkUnavailable
  <2> QED
    BY <1>0, <1>3, <2>1, <2>2, <2>3 DEF RequestStep
<1>4. ASSUME NEW k \in Keys, NEW g \in Gens, WorkerStep(k, g) \/ WorkerFault(k, g)
      PROVE  arq' \in [Keys -> [Gens -> ArqStatus]]
  <2>1. CASE Start(k, g)
    BY <1>4, <2>1 DEF Start, ArqStatus
  <2>2. CASE StartNoSource(k, g)
    BY <1>4, <2>2 DEF StartNoSource, ArqStatus
  <2>3. CASE Dedupe(k, g)
    BY <1>4, <2>3 DEF Dedupe, EndRun, ArqStatus
  <2>4. CASE Final(k, g)
    BY <1>4, <2>4 DEF Final, EndRun, ArqStatus
  <2>5. CASE FailOnClash(k, g)
    BY <1>4, <2>5 DEF FailOnClash, StoreFailure, EndRun, ArqStatus
  <2>6. CASE FailOnError(k, g)
    BY <1>4, <2>6 DEF FailOnError, StoreFailure, EndRun, ArqStatus
  <2>7. CASE Abandon(k, g)
    BY <1>4, <2>7 DEF Abandon, EndRun, ArqStatus
  <2>8. CASE WorkerCrash(k, g)
    BY <1>4, <2>8 DEF WorkerCrash, ArqStatus
  <2>9. ASSUME Embed(k, g) \/ StoreHash(k, g)
        PROVE  UNCHANGED arq
    BY <2>9 DEF Embed, StoreHash, StoreFailure, EndRun
  <2> QED
    BY <1>0, <1>4, <2>1, <2>2, <2>3, <2>4, <2>5, <2>6, <2>7, <2>8, <2>9 DEF WorkerStep, WorkerFault
<1>5. ASSUME NEW k \in Keys, Scan(k)
      PROVE  arq' \in [Keys -> [Gens -> ArqStatus]]
  BY <1>0, <1>5 DEF Scan
<1>6. CASE RecoveryStep
  <2>1. CASE RecPublish
    BY <2>1 DEF RecPublish, ArqStatus
  <2>2. CASE RecPublishError
    BY <2>2 DEF RecPublishError, ArqStatus
  <2>3. ASSUME \/ LockSkip \/ LockDeadLetter \/ LockRecord \/ RecPublishTaken
               \/ RecAbort \/ RecWrite \/ RecWriteRefused
        PROVE  UNCHANGED arq
    BY <2>3 DEF LockSkip, LockDeadLetter, LockRecord, RecPublishTaken, RecAbort,
        RecWrite, RecWriteRefused
  <2> QED
    BY <1>0, <1>6, <2>1, <2>2, <2>3 DEF RecoveryStep
<1>7. CASE RecCrash
  BY <1>0, <1>7 DEF RecCrash
<1>8. CASE UNCHANGED vars
  BY <1>0, <1>8 DEF vars
<1> QED
  BY <1>0, <1>1, <1>2, <1>3, <1>4, <1>5, <1>6, <1>7, <1>8, Zenon DEF Next

\* The worker executions.
LEMMA RunType ==
    ASSUME run \in [Keys -> [Gens -> Run]], item \in [Keys -> Item], [Next]_vars
    PROVE  run' \in [Keys -> [Gens -> Run]]
<1>0. ASSUME UNCHANGED run
      PROVE  run' \in [Keys -> [Gens -> Run]]
  BY <1>0
<1>1. CASE Environment
  BY <1>0, <1>1 DEF Environment, Age, ClearContent, ForgetResult, QueueLoss
<1>2. ASSUME NEW c \in Clients, Request(c)
      PROVE  run' \in [Keys -> [Gens -> Run]]
  BY <1>0, <1>2 DEF Request, AcceptNew, ReviveStale, ReviveUnavailable, Retry, ApiCrash
<1>3. ASSUME NEW c \in Clients, RequestStep(c)
      PROVE  run' \in [Keys -> [Gens -> Run]]
  BY <1>0, <1>3 DEF RequestStep, Stamp, Publish, PublishTaken, PublishError,
      MarkUnavailable
<1>4. ASSUME NEW k \in Keys, NEW g \in Gens, WorkerStep(k, g) \/ WorkerFault(k, g)
      PROVE  run' \in [Keys -> [Gens -> Run]]
  <2>1. CASE Start(k, g)
    BY <1>4, <2>1 DEF Start, Item, Run, ItemStatus
  <2>2. CASE Dedupe(k, g)
    BY <1>4, <2>2 DEF Dedupe, EndRun, IdleRun, Run, ItemStatus
  <2>3. CASE Embed(k, g)
    BY <1>4, <2>3 DEF Embed, Run
  <2>4. CASE StoreHash(k, g)
    <3> DEFINE new == [run[k][g] EXCEPT !.pc = "final", !.hash = TRUE]
    <3>0. run[k][g] \in Run
      BY <1>4, <2>4
    <3>1. new \in Run
      BY <3>0 DEF Run
    <3>2. run' = [run EXCEPT ![k][g] = new]
      BY <1>4, <2>4 DEF StoreHash
    <3> HIDE DEF new
    <3> QED
      BY <1>4, <2>4, <3>1, <3>2
  <2>5. CASE Final(k, g)
    BY <1>4, <2>5 DEF Final, EndRun, IdleRun, Run, ItemStatus
  <2>6. CASE FailOnClash(k, g)
    BY <1>4, <2>6 DEF FailOnClash, StoreFailure, EndRun, IdleRun, Run, ItemStatus
  <2>7. CASE FailOnError(k, g)
    BY <1>4, <2>7 DEF FailOnError, StoreFailure, EndRun, IdleRun, Run, ItemStatus
  <2>8. CASE Abandon(k, g)
    BY <1>4, <2>8 DEF Abandon, EndRun, IdleRun, Run, ItemStatus
  <2>9. CASE WorkerCrash(k, g)
    BY <1>4, <2>9 DEF WorkerCrash, IdleRun, Run, ItemStatus
  <2>10. ASSUME StartNoSource(k, g)
        PROVE  UNCHANGED run
    BY <2>10 DEF StartNoSource, StoreFailure, EndRun
  <2> QED
    BY <1>0, <1>4, <2>1, <2>2, <2>3, <2>4, <2>5, <2>6, <2>7, <2>8, <2>9, <2>10 DEF WorkerStep, WorkerFault
<1>5. ASSUME NEW k \in Keys, Scan(k)
      PROVE  run' \in [Keys -> [Gens -> Run]]
  BY <1>0, <1>5 DEF Scan
<1>6. CASE RecoveryStep
  BY <1>0, <1>6 DEF RecoveryStep, LockSkip, LockDeadLetter, LockRecord, RecPublish,
      RecPublishTaken, RecPublishError, RecAbort, RecWrite, RecWriteRefused
<1>7. CASE RecCrash
  BY <1>0, <1>7 DEF RecCrash
<1>8. CASE UNCHANGED vars
  BY <1>0, <1>8 DEF vars
<1> QED
  BY <1>0, <1>1, <1>2, <1>3, <1>4, <1>5, <1>6, <1>7, <1>8, Zenon DEF Next

\* The API requests.
LEMMA ApiType ==
    ASSUME api \in [Clients -> Api], job \in [Keys -> Job], [Next]_vars
    PROVE  api' \in [Clients -> Api]
<1>0. ASSUME UNCHANGED api
      PROVE  api' \in [Clients -> Api]
  BY <1>0
<1>1. CASE Environment
  BY <1>0, <1>1 DEF Environment, Age, ClearContent, ForgetResult, QueueLoss
<1>2. ASSUME NEW c \in Clients, Request(c)
      PROVE  api' \in [Clients -> Api]
  <2>1. ASSUME NEW k \in Keys, AcceptNew(c, k)
        PROVE  api' \in [Clients -> Api]
    BY <1>2, <2>1 DEF AcceptNew, ToStamp, Api, Job
  <2>2. ASSUME NEW k \in Keys, ReviveStale(c, k)
        PROVE  api' \in [Clients -> Api]
    BY <1>2, <2>2 DEF ReviveStale, ToStamp, Api, Job
  <2>3. ASSUME NEW k \in Keys, ReviveUnavailable(c, k)
        PROVE  api' \in [Clients -> Api]
    BY <1>2, <2>3 DEF ReviveUnavailable, ToStamp, Api, Job
  <2>4. ASSUME NEW k \in Keys, Retry(c, k)
        PROVE  api' \in [Clients -> Api]
    BY <1>2, <2>4 DEF Retry, ToStamp, Api, Job
  <2>5. CASE ApiCrash(c)
    BY <1>2, <2>5, BoundAssumption DEF ApiCrash, IdleApi, Api
  <2> QED
    BY <1>0, <1>2, <2>1, <2>2, <2>3, <2>4, <2>5 DEF Request
<1>3. ASSUME NEW c \in Clients, RequestStep(c)
      PROVE  api' \in [Clients -> Api]
  <2>1. CASE Stamp(c)
    BY <1>3, <2>1, BoundAssumption DEF Stamp, Api
  <2>2. CASE Publish(c)
    BY <1>3, <2>2, BoundAssumption DEF Publish, IdleApi, Api
  <2>3. CASE PublishTaken(c)
    BY <1>3, <2>3 DEF PublishTaken, Api
  <2>4. CASE PublishError(c)
    BY <1>3, <2>4 DEF PublishError, Api
  <2>5. CASE MarkUnavailable(c)
    BY <1>3, <2>5, BoundAssumption DEF MarkUnavailable, IdleApi, Api
  <2> QED
    BY <1>0, <1>3, <2>1, <2>2, <2>3, <2>4, <2>5 DEF RequestStep
<1>4. ASSUME NEW k \in Keys, NEW g \in Gens, WorkerStep(k, g) \/ WorkerFault(k, g)
      PROVE  api' \in [Clients -> Api]
  BY <1>0, <1>4 DEF WorkerStep, WorkerFault, Start, StartNoSource, Dedupe, Embed,
      StoreHash, Final, FailOnClash, FailOnError, Abandon, WorkerCrash,
      StoreFailure, EndRun
<1>5. ASSUME NEW k \in Keys, Scan(k)
      PROVE  api' \in [Clients -> Api]
  BY <1>0, <1>5 DEF Scan
<1>6. CASE RecoveryStep
  BY <1>0, <1>6 DEF RecoveryStep, LockSkip, LockDeadLetter, LockRecord, RecPublish,
      RecPublishTaken, RecPublishError, RecAbort, RecWrite, RecWriteRefused
<1>7. CASE RecCrash
  BY <1>0, <1>7 DEF RecCrash
<1>8. CASE UNCHANGED vars
  BY <1>0, <1>8 DEF vars
<1> QED
  BY <1>0, <1>1, <1>2, <1>3, <1>4, <1>5, <1>6, <1>7, <1>8, Zenon DEF Next

\* The recovery cron.  Past the scan it has a key.
RecKeyed == rec.pc # "idle" => rec.key \in Keys

LEMMA RecType ==
    ASSUME rec \in Rec, RecKeyed, job \in [Keys -> Job], item \in [Keys -> Item], attempts \in [Keys -> Ledger], [Next]_vars
    PROVE  rec' \in Rec
<1>0. ASSUME UNCHANGED rec
      PROVE  rec' \in Rec
  BY <1>0
<1>1. CASE Environment
  BY <1>0, <1>1 DEF Environment, Age, ClearContent, ForgetResult, QueueLoss
<1>2. ASSUME NEW c \in Clients, Request(c)
      PROVE  rec' \in Rec
  BY <1>0, <1>2 DEF Request, AcceptNew, ReviveStale, ReviveUnavailable, Retry, ApiCrash
<1>3. ASSUME NEW c \in Clients, RequestStep(c)
      PROVE  rec' \in Rec
  BY <1>0, <1>3 DEF RequestStep, Stamp, Publish, PublishTaken, PublishError,
      MarkUnavailable
<1>4. ASSUME NEW k \in Keys, NEW g \in Gens, WorkerStep(k, g) \/ WorkerFault(k, g)
      PROVE  rec' \in Rec
  BY <1>0, <1>4 DEF WorkerStep, WorkerFault, Start, StartNoSource, Dedupe, Embed,
      StoreHash, Final, FailOnClash, FailOnError, Abandon, WorkerCrash,
      StoreFailure, EndRun
<1>5. ASSUME NEW k \in Keys, Scan(k)
      PROVE  rec' \in Rec
  <2>1. rec' = [IdleRec EXCEPT !.pc = "lock", !.key = k, !.gen = job[k].gen]
    BY <1>5 DEF Scan
  <2>2. IdleRec \in Rec
    BY BoundAssumption DEF IdleRec, Rec, JobStatus, ItemStatus
  <2>3. job[k].gen \in -1 .. MaxGen
    BY <1>5 DEF Job
  <2> QED
    BY <1>5, <2>1, <2>2, <2>3 DEF Rec
<1>6. CASE RecoveryStep
  <2>1. CASE LockSkip
    BY <2>1, BoundAssumption DEF LockSkip, IdleRec, Rec, JobStatus, ItemStatus
  <2>2. CASE LockDeadLetter
    BY <2>2, BoundAssumption DEF LockDeadLetter, IdleRec, Rec, JobStatus, ItemStatus
  <2>3. CASE LockRecord
    <3> DEFINE k == rec.key
               closed == FinishActive(attempts[rec.key], "failed")
    <3>1. CASE k \in Keys
      <4>1. closed \in Ledger
        BY <3>1, LedgerFinishActive DEF TerminalAttempt, LedgerOK
      <4>2. CanCreate(closed)
        BY <2>3 DEF LockRecord
      <4>3. NextNumber(closed) \in Numbers
        BY <4>1, <4>2, LedgerCreate
      <4>4. rec' = [rec EXCEPT !.pc = "publish", !.gen = job[k].gen, !.dep = job[k].dep,
                               !.job = job[k].status, !.item = item[k].status,
                               !.att = NextNumber(closed)]
        BY <2>3 DEF LockRecord
      <4>5. /\ job[k].gen \in -1 .. MaxGen /\ job[k].dep \in BOOLEAN
            /\ job[k].status \in JobStatus /\ item[k].status \in ItemStatus
        BY <3>1 DEF Job, Item
      <4>6. NextNumber(closed) \in 0 .. MaxAttempts
        BY <4>3, BoundAssumption DEF Numbers
      <4> HIDE DEF closed, k
      <4> QED
        BY <4>4, <4>5, <4>6 DEF Rec
    <3>2. CASE k \notin Keys
      BY <2>3, <3>2 DEF LockRecord, Rec, RecKeyed
    <3> QED
      BY <3>1, <3>2
  <2>4. CASE RecPublish
    BY <2>4 DEF RecPublish, Rec
  <2>5. CASE RecPublishTaken
    BY <2>5 DEF RecPublishTaken, Rec
  <2>6. CASE RecPublishError
    BY <2>6 DEF RecPublishError, Rec
  <2>7. CASE RecAbort
    BY <2>7, BoundAssumption DEF RecAbort, IdleRec, Rec, JobStatus, ItemStatus
  <2>8. CASE RecWrite
    BY <2>8, BoundAssumption DEF RecWrite, IdleRec, Rec, JobStatus, ItemStatus
  <2>9. CASE RecWriteRefused
    BY <2>9, BoundAssumption DEF RecWriteRefused, IdleRec, Rec, JobStatus, ItemStatus
  <2> QED
    BY <1>0, <1>6, <2>1, <2>2, <2>3, <2>4, <2>5, <2>6, <2>7, <2>8, <2>9 DEF RecoveryStep
<1>7. CASE RecCrash
  BY <1>7, BoundAssumption DEF RecCrash, IdleRec, Rec, JobStatus, ItemStatus
<1>8. CASE UNCHANGED vars
  BY <1>0, <1>8 DEF vars
<1> QED
  BY <1>0, <1>1, <1>2, <1>3, <1>4, <1>5, <1>6, <1>7, <1>8, Zenon DEF Next

\* The rows' ages.
LEMMA AgeType ==
    ASSUME age \in [Keys -> 0 .. 2], [Next]_vars
    PROVE  age' \in [Keys -> 0 .. 2]
<1>0. ASSUME UNCHANGED age
      PROVE  age' \in [Keys -> 0 .. 2]
  BY <1>0
<1>1. CASE Environment
  <2>1. ASSUME NEW k \in Keys, Age(k)
        PROVE  age' \in [Keys -> 0 .. 2]
    BY <2>1 DEF Age
  <2>2. ASSUME NEW k \in Keys,
               ClearContent(k)
        PROVE  UNCHANGED age
    BY <2>2 DEF ClearContent
  <2>3. ASSUME NEW k \in Keys, NEW g \in Gens,
               ForgetResult(k, g) \/ QueueLoss(k, g)
        PROVE  UNCHANGED age
    BY <2>3 DEF ForgetResult, QueueLoss
  <2> QED
    BY <1>0, <1>1, <2>1, <2>2, <2>3 DEF Environment
<1>2. ASSUME NEW c \in Clients, Request(c)
      PROVE  age' \in [Keys -> 0 .. 2]
  BY <1>0, <1>2 DEF Request, AcceptNew, ReviveStale, ReviveUnavailable, Retry, ApiCrash
<1>3. ASSUME NEW c \in Clients, RequestStep(c)
      PROVE  age' \in [Keys -> 0 .. 2]
  BY <1>0, <1>3 DEF RequestStep, Stamp, Publish, PublishTaken, PublishError,
      MarkUnavailable
<1>4. ASSUME NEW k \in Keys, NEW g \in Gens, WorkerStep(k, g) \/ WorkerFault(k, g)
      PROVE  age' \in [Keys -> 0 .. 2]
  BY <1>0, <1>4 DEF WorkerStep, WorkerFault, Start, StartNoSource, Dedupe, Embed,
      StoreHash, Final, FailOnClash, FailOnError, Abandon, WorkerCrash,
      StoreFailure, EndRun
<1>5. ASSUME NEW k \in Keys, Scan(k)
      PROVE  age' \in [Keys -> 0 .. 2]
  BY <1>0, <1>5 DEF Scan
<1>6. CASE RecoveryStep
  BY <1>0, <1>6 DEF RecoveryStep, LockSkip, LockDeadLetter, LockRecord, RecPublish,
      RecPublishTaken, RecPublishError, RecAbort, RecWrite, RecWriteRefused
<1>7. CASE RecCrash
  BY <1>0, <1>7 DEF RecCrash
<1>8. CASE UNCHANGED vars
  BY <1>0, <1>8 DEF vars
<1> QED
  BY <1>0, <1>1, <1>2, <1>3, <1>4, <1>5, <1>6, <1>7, <1>8, Zenon DEF Next

\* The fault counter.
LEMMA FaultsType ==
    ASSUME faults \in 0 .. MaxFaults, [Next]_vars
    PROVE  faults' \in 0 .. MaxFaults
<1>0. ASSUME UNCHANGED faults
      PROVE  faults' \in 0 .. MaxFaults
  BY <1>0
<1>1. CASE Environment
  <2>1. ASSUME NEW k \in Keys, ClearContent(k)
        PROVE  faults' \in 0 .. MaxFaults
    BY <2>1, BoundAssumption DEF ClearContent, Fault, CanFault
  <2>2. ASSUME NEW k \in Keys, NEW g \in Gens, QueueLoss(k, g)
        PROVE  faults' \in 0 .. MaxFaults
    BY <2>2, BoundAssumption DEF QueueLoss, Fault, CanFault
  <2>3. ASSUME NEW k \in Keys,
               Age(k)
        PROVE  UNCHANGED faults
    BY <2>3 DEF Age
  <2>4. ASSUME NEW k \in Keys, NEW g \in Gens,
               ForgetResult(k, g)
        PROVE  UNCHANGED faults
    BY <2>4 DEF ForgetResult
  <2> QED
    BY <1>0, <1>1, <2>1, <2>2, <2>3, <2>4 DEF Environment
<1>2. ASSUME NEW c \in Clients, Request(c)
      PROVE  faults' \in 0 .. MaxFaults
  <2>1. CASE ApiCrash(c)
    BY <1>2, <2>1, BoundAssumption DEF ApiCrash, Fault, CanFault
  <2>2. ASSUME NEW k \in Keys,
               \/ AcceptNew(c, k) \/ ReviveStale(c, k)
               \/ ReviveUnavailable(c, k) \/ Retry(c, k)
        PROVE  UNCHANGED faults
    BY <2>2 DEF AcceptNew, ReviveStale, ReviveUnavailable, Retry
  <2> QED
    BY <1>0, <1>2, <2>1, <2>2 DEF Request
<1>3. ASSUME NEW c \in Clients, RequestStep(c)
      PROVE  faults' \in 0 .. MaxFaults
  <2>1. CASE PublishError(c)
    BY <1>3, <2>1, BoundAssumption DEF PublishError, Fault, CanFault
  <2>2. ASSUME \/ Stamp(c) \/ Publish(c) \/ PublishTaken(c)
               \/ MarkUnavailable(c)
        PROVE  UNCHANGED faults
    BY <2>2 DEF Stamp, Publish, PublishTaken, MarkUnavailable
  <2> QED
    BY <1>0, <1>3, <2>1, <2>2 DEF RequestStep
<1>4. ASSUME NEW k \in Keys, NEW g \in Gens, WorkerStep(k, g) \/ WorkerFault(k, g)
      PROVE  faults' \in 0 .. MaxFaults
  <2>1. CASE FailOnError(k, g)
    BY <1>4, <2>1, BoundAssumption DEF FailOnError, Fault, CanFault
  <2>2. CASE Abandon(k, g)
    BY <1>4, <2>2, BoundAssumption DEF Abandon, Fault, CanFault
  <2>3. CASE WorkerCrash(k, g)
    BY <1>4, <2>3, BoundAssumption DEF WorkerCrash, Fault, CanFault
  <2>4. ASSUME \/ Start(k, g) \/ StartNoSource(k, g) \/ Dedupe(k, g)
               \/ Embed(k, g) \/ StoreHash(k, g) \/ Final(k, g)
               \/ FailOnClash(k, g)
        PROVE  UNCHANGED faults
    BY <2>4 DEF Start, StartNoSource, Dedupe, Embed, StoreHash, Final, FailOnClash,
        StoreFailure, EndRun
  <2> QED
    BY <1>0, <1>4, <2>1, <2>2, <2>3, <2>4 DEF WorkerStep, WorkerFault
<1>5. ASSUME NEW k \in Keys, Scan(k)
      PROVE  faults' \in 0 .. MaxFaults
  BY <1>0, <1>5 DEF Scan
<1>6. CASE RecoveryStep
  <2>1. CASE RecPublishError
    BY <2>1, BoundAssumption DEF RecPublishError, Fault, CanFault
  <2>2. ASSUME \/ LockSkip \/ LockDeadLetter \/ LockRecord \/ RecPublish
               \/ RecPublishTaken \/ RecAbort \/ RecWrite \/ RecWriteRefused
        PROVE  UNCHANGED faults
    BY <2>2 DEF LockSkip, LockDeadLetter, LockRecord, RecPublish, RecPublishTaken,
        RecAbort, RecWrite, RecWriteRefused
  <2> QED
    BY <1>0, <1>6, <2>1, <2>2 DEF RecoveryStep
<1>7. CASE RecCrash
  BY <1>7, BoundAssumption DEF RecCrash, Fault, CanFault
<1>8. CASE UNCHANGED vars
  BY <1>0, <1>8 DEF vars
<1> QED
  BY <1>0, <1>1, <1>2, <1>3, <1>4, <1>5, <1>6, <1>7, <1>8, Zenon DEF Next

\* Past the scan the recovery has a key.
LEMMA RecKeyedNext ==
    ASSUME RecKeyed, [Next]_vars
    PROVE  RecKeyed'
<1>0. ASSUME UNCHANGED rec
      PROVE  RecKeyed'
  BY <1>0 DEF RecKeyed
<1>1. CASE Environment
  BY <1>0, <1>1 DEF Environment, Age, ClearContent, ForgetResult, QueueLoss
<1>2. ASSUME NEW c \in Clients, Request(c)
      PROVE  RecKeyed'
  BY <1>0, <1>2 DEF Request, AcceptNew, ReviveStale, ReviveUnavailable, Retry, ApiCrash
<1>3. ASSUME NEW c \in Clients, RequestStep(c)
      PROVE  RecKeyed'
  BY <1>0, <1>3 DEF RequestStep, Stamp, Publish, PublishTaken, PublishError,
      MarkUnavailable
<1>4. ASSUME NEW k \in Keys, NEW g \in Gens, WorkerStep(k, g) \/ WorkerFault(k, g)
      PROVE  RecKeyed'
  BY <1>0, <1>4 DEF WorkerStep, WorkerFault, Start, StartNoSource, Dedupe, Embed,
      StoreHash, Final, FailOnClash, FailOnError, Abandon, WorkerCrash,
      StoreFailure, EndRun
<1>5. ASSUME NEW k \in Keys, Scan(k)
      PROVE  RecKeyed'
  BY <1>5 DEF Scan, IdleRec, RecKeyed
<1>6. CASE RecoveryStep
  <2>1. CASE LockSkip
    BY <2>1 DEF LockSkip, IdleRec, RecKeyed
  <2>2. CASE LockDeadLetter
    BY <2>2 DEF LockDeadLetter, IdleRec, RecKeyed
  <2>3. CASE LockRecord
    BY <2>3 DEF LockRecord, IdleRec, RecKeyed
  <2>4. CASE RecPublish
    BY <2>4 DEF RecPublish, IdleRec, RecKeyed
  <2>5. CASE RecPublishTaken
    BY <2>5 DEF RecPublishTaken, IdleRec, RecKeyed
  <2>6. CASE RecPublishError
    BY <2>6 DEF RecPublishError, IdleRec, RecKeyed
  <2>7. CASE RecAbort
    BY <2>7 DEF RecAbort, IdleRec, RecKeyed
  <2>8. CASE RecWrite
    BY <2>8 DEF RecWrite, IdleRec, RecKeyed
  <2>9. CASE RecWriteRefused
    BY <2>9 DEF RecWriteRefused, IdleRec, RecKeyed
  <2> QED
    BY <1>0, <1>6, <2>1, <2>2, <2>3, <2>4, <2>5, <2>6, <2>7, <2>8, <2>9 DEF RecoveryStep
<1>7. CASE RecCrash
  BY <1>7 DEF RecCrash, IdleRec, RecKeyed
<1>8. CASE UNCHANGED vars
  BY <1>0, <1>8 DEF vars
<1> QED
  BY <1>0, <1>1, <1>2, <1>3, <1>4, <1>5, <1>6, <1>7, <1>8, Zenon DEF Next

\* Steps keep the domain of the ledgers.
LEMMA LedgerDomain ==
    ASSUME attempts \in [Keys -> Ledger], [Next]_vars
    PROVE  attempts' = [r \in Keys |-> attempts'[r]]
<1>0. ASSUME UNCHANGED attempts
      PROVE  attempts' = [r \in Keys |-> attempts'[r]]
  BY <1>0
<1>1. CASE Environment
  BY <1>0, <1>1 DEF Environment, Age, ClearContent, ForgetResult, QueueLoss
<1>2. ASSUME NEW c \in Clients, Request(c)
      PROVE  attempts' = [r \in Keys |-> attempts'[r]]
  <2>1. ASSUME NEW k \in Keys, Retry(c, k)
        PROVE  attempts' = [r \in Keys |-> attempts'[r]]
    BY <1>2, <2>1 DEF Retry
  <2>2. ASSUME NEW k \in Keys,
               \/ AcceptNew(c, k) \/ ReviveStale(c, k)
               \/ ReviveUnavailable(c, k)
        PROVE  UNCHANGED attempts
    BY <2>2 DEF AcceptNew, ReviveStale, ReviveUnavailable
  <2>3. ASSUME ApiCrash(c)
        PROVE  UNCHANGED attempts
    BY <2>3 DEF ApiCrash
  <2> QED
    BY <1>0, <1>2, <2>1, <2>2, <2>3 DEF Request
<1>3. ASSUME NEW c \in Clients, RequestStep(c)
      PROVE  attempts' = [r \in Keys |-> attempts'[r]]
  <2>1. CASE MarkUnavailable(c)
    BY <1>3, <2>1 DEF MarkUnavailable
  <2>2. ASSUME \/ Stamp(c) \/ Publish(c) \/ PublishTaken(c)
               \/ PublishError(c)
        PROVE  UNCHANGED attempts
    BY <2>2 DEF Stamp, Publish, PublishTaken, PublishError
  <2> QED
    BY <1>0, <1>3, <2>1, <2>2 DEF RequestStep
<1>4. ASSUME NEW k \in Keys, NEW g \in Gens, WorkerStep(k, g) \/ WorkerFault(k, g)
      PROVE  attempts' = [r \in Keys |-> attempts'[r]]
  BY <1>0, <1>4 DEF WorkerStep, WorkerFault, Start, StartNoSource, Dedupe, Embed,
      StoreHash, Final, FailOnClash, FailOnError, Abandon, WorkerCrash,
      StoreFailure, EndRun
<1>5. ASSUME NEW k \in Keys, Scan(k)
      PROVE  attempts' = [r \in Keys |-> attempts'[r]]
  BY <1>0, <1>5 DEF Scan
<1>6. CASE RecoveryStep
  <2>1. CASE LockDeadLetter
    BY <2>1 DEF LockDeadLetter
  <2>2. CASE LockRecord
    BY <2>2 DEF LockRecord
  <2>3. CASE RecAbort
    BY <2>3 DEF RecAbort
  <2>4. ASSUME \/ LockSkip \/ RecPublish \/ RecPublishTaken
               \/ RecPublishError \/ RecWrite \/ RecWriteRefused
        PROVE  UNCHANGED attempts
    BY <2>4 DEF LockSkip, RecPublish, RecPublishTaken, RecPublishError, RecWrite,
        RecWriteRefused
  <2> QED
    BY <1>0, <1>6, <2>1, <2>2, <2>3, <2>4 DEF RecoveryStep
<1>7. CASE RecCrash
  BY <1>0, <1>7 DEF RecCrash
<1>8. CASE UNCHANGED vars
  BY <1>0, <1>8 DEF vars
<1> QED
  BY <1>0, <1>1, <1>2, <1>3, <1>4, <1>5, <1>6, <1>7, <1>8, Zenon DEF Next

-----------------------------------------------------------------------------
(* Type correctness and the attempt ledger *)

TypeInv == TypeOK /\ RecKeyed

LEMMA TypeInit == Init => TypeInv
<1> SUFFICES ASSUME Init
             PROVE  TypeInv
  OBVIOUS
<1>1. job \in [Keys -> Job] /\ item \in [Keys -> Item] /\ age \in [Keys -> 0 .. 2]
  BY BoundAssumption DEF Init, Job, Item, JobStatus, ItemStatus
<1>2. attempts \in [Keys -> [Numbers -> AttemptStatus]]
  BY DEF Init, AttemptStatus
<1>3. arq \in [Keys -> [Gens -> ArqStatus]] /\ run \in [Keys -> [Gens -> Run]]
  BY DEF Init, ArqStatus, IdleRun, Run, ItemStatus
<1>4. api \in [Clients -> Api] /\ rec \in Rec /\ faults \in 0 .. MaxFaults
  BY BoundAssumption DEF Init, IdleApi, Api, IdleRec, Rec, JobStatus, ItemStatus
<1>5. RecKeyed
  BY DEF Init, IdleRec, RecKeyed
<1> QED
  BY <1>1, <1>2, <1>3, <1>4, <1>5 DEF TypeInv, TypeOK

LEMMA TypeNext == TypeInv /\ [Next]_vars => TypeInv'
<1> SUFFICES ASSUME TypeInv, [Next]_vars
             PROVE  TypeInv'
  OBVIOUS
<1> USE DEF TypeInv
<1>1. attempts \in [Keys -> Ledger]
  BY DEF TypeOK, Ledger
<1>2. job' \in [Keys -> Job] /\ item' \in [Keys -> Item] /\ age' \in [Keys -> 0 .. 2]
  BY JobType, ItemType, AgeType DEF TypeOK
<1>3. attempts' \in [Keys -> Ledger]
  <2>1. \A k \in Keys : attempts'[k] \in Ledger
    BY <1>1, LedgerNext DEF TypeOK, LedgerOK
  <2>2. attempts' = [r \in Keys |-> attempts'[r]]
    BY <1>1, LedgerDomain
  <2> QED
    BY <2>1, <2>2
<1>4. arq' \in [Keys -> [Gens -> ArqStatus]] /\ run' \in [Keys -> [Gens -> Run]]
  BY ArqType, RunType DEF TypeOK
<1>5. api' \in [Clients -> Api] /\ faults' \in 0 .. MaxFaults
  BY ApiType, FaultsType DEF TypeOK
<1>6. rec' \in Rec
  BY <1>1, RecType DEF TypeOK
<1>7. RecKeyed'
  BY RecKeyedNext
<1> QED
  BY <1>2, <1>3, <1>4, <1>5, <1>6, <1>7 DEF TypeOK, Ledger

\* Every reachable state is well typed: generations, attempt numbers, row
\* states and program counters stay in their sets.
THEOREM TypeCorrect == Spec => []TypeOK
<1>1. TypeInv => TypeOK
  BY DEF TypeInv
<1> QED
  BY <1>1, TypeInit, TypeNext, PTL DEF Spec

THEOREM TypeInvariant == Spec => []TypeInv
BY TypeInit, TypeNext, PTL DEF Spec

\* A job has at most one active attempt, however requests, failed
\* publications and the recovery cron interleave.
THEOREM AtMostOneActiveAttempt == Spec => []OneActiveAttempt
<1>1. Init => OneActiveAttempt
  <2> SUFFICES ASSUME Init
               PROVE  OneActiveAttempt
    OBVIOUS
  <2>1. \A k \in Keys : \A n \in Numbers : attempts[k][n] = "none"
    BY DEF Init
  <2> QED
    BY <2>1 DEF OneActiveAttempt, ActiveAttempt
<1>2. TypeInv /\ OneActiveAttempt /\ [Next]_vars => OneActiveAttempt'
  <2> SUFFICES ASSUME TypeInv, OneActiveAttempt, [Next]_vars
               PROVE  OneActiveAttempt'
    OBVIOUS
  <2>1. \A k \in Keys : LedgerOK(attempts[k], attempts'[k])
    BY LedgerNext DEF TypeInv, TypeOK, Ledger
  <2>2. \A k \in Keys : OneActive(attempts'[k])
    BY <2>1 DEF OneActiveAttempt, OneActive, LedgerOK
  <2> QED
    BY <2>2 DEF OneActiveAttempt, OneActive
<1> QED
  BY <1>1, <1>2, TypeInvariant, PTL DEF Spec

\* No step changes a terminal attempt or removes an active one.
THEOREM TerminalAttemptsImmutable == Spec => LedgerImmutable
<1>1. TypeInv /\ [Next]_vars => [LedgerStep]_vars
  <2> SUFFICES ASSUME TypeInv, [Next]_vars
               PROVE  LedgerStep
    OBVIOUS
  <2>1. \A k \in Keys : LedgerOK(attempts[k], attempts'[k])
    BY LedgerNext DEF TypeInv, TypeOK, Ledger
  <2> QED
    BY <2>1 DEF LedgerStep, LedgerOK
<1> QED
  BY <1>1, TypeInvariant, PTL DEF Spec, LedgerImmutable

-----------------------------------------------------------------------------
(* Ready items *)

\* The vectors: only Final makes an item ready, and it stores them.
LEMMA VectorsNext ==
    ASSUME TypeInv, ReadyHasVectors, [Next]_vars
    PROVE  ReadyHasVectors'
<1>0. ASSUME UNCHANGED item
      PROVE  ReadyHasVectors'
  BY <1>0 DEF ReadyHasVectors
<1>1. CASE Environment
  <2>1. ASSUME NEW k \in Keys, ClearContent(k)
        PROVE  ReadyHasVectors'
    BY <2>1 DEF ClearContent, TypeInv, TypeOK, Item, ReadyHasVectors
  <2>2. ASSUME NEW k \in Keys,
               Age(k)
        PROVE  UNCHANGED item
    BY <2>2 DEF Age
  <2>3. ASSUME NEW k \in Keys, NEW g \in Gens,
               ForgetResult(k, g) \/ QueueLoss(k, g)
        PROVE  UNCHANGED item
    BY <2>3 DEF ForgetResult, QueueLoss
  <2> QED
    BY <1>0, <1>1, <2>1, <2>2, <2>3 DEF Environment
<1>2. ASSUME NEW c \in Clients, Request(c)
      PROVE  ReadyHasVectors'
  <2>1. ASSUME NEW k \in Keys, AcceptNew(c, k)
        PROVE  ReadyHasVectors'
    BY <1>2, <2>1 DEF AcceptNew, TypeInv, TypeOK, Item, ReadyHasVectors
  <2>2. ASSUME NEW k \in Keys, ReviveStale(c, k)
        PROVE  ReadyHasVectors'
    BY <1>2, <2>2 DEF ReviveStale, TypeInv, TypeOK, Item, ReadyHasVectors
  <2>3. ASSUME NEW k \in Keys, ReviveUnavailable(c, k)
        PROVE  ReadyHasVectors'
    BY <1>2, <2>3 DEF ReviveUnavailable, TypeInv, TypeOK, Item, ReadyHasVectors
  <2>4. ASSUME NEW k \in Keys, Retry(c, k)
        PROVE  ReadyHasVectors'
    BY <1>2, <2>4 DEF Retry, TypeInv, TypeOK, Item, ReadyHasVectors
  <2>5. ASSUME ApiCrash(c)
        PROVE  UNCHANGED item
    BY <2>5 DEF ApiCrash
  <2> QED
    BY <1>0, <1>2, <2>1, <2>2, <2>3, <2>4, <2>5 DEF Request
<1>3. ASSUME NEW c \in Clients, RequestStep(c)
      PROVE  ReadyHasVectors'
  BY <1>0, <1>3 DEF RequestStep, Stamp, Publish, PublishTaken, PublishError,
      MarkUnavailable
<1>4. ASSUME NEW k \in Keys, NEW g \in Gens, WorkerStep(k, g) \/ WorkerFault(k, g)
      PROVE  ReadyHasVectors'
  <2>1. CASE Dedupe(k, g)
    BY <1>4, <2>1 DEF Dedupe, TypeInv, TypeOK, Item, ReadyHasVectors
  <2>2. CASE StoreHash(k, g)
    BY <1>4, <2>2 DEF StoreHash, TypeInv, TypeOK, Item, ReadyHasVectors
  <2>3. CASE Final(k, g)
    BY <1>4, <2>3 DEF Final, TypeInv, TypeOK, Item, ReadyHasVectors
  <2>4. CASE FailOnClash(k, g)
    BY <1>4, <2>4 DEF FailOnClash, StoreFailure, TypeInv, TypeOK, Item, ReadyHasVectors
  <2>5. CASE FailOnError(k, g)
    BY <1>4, <2>5 DEF FailOnError, StoreFailure, TypeInv, TypeOK, Item, ReadyHasVectors
  <2>6. ASSUME \/ Start(k, g) \/ StartNoSource(k, g) \/ Embed(k, g)
               \/ Abandon(k, g) \/ WorkerCrash(k, g)
        PROVE  UNCHANGED item
    BY <2>6 DEF Start, StartNoSource, Embed, Abandon, WorkerCrash, StoreFailure,
        EndRun
  <2> QED
    BY <1>0, <1>4, <2>1, <2>2, <2>3, <2>4, <2>5, <2>6 DEF WorkerStep, WorkerFault
<1>5. ASSUME NEW k \in Keys, Scan(k)
      PROVE  ReadyHasVectors'
  BY <1>0, <1>5 DEF Scan
<1>6. CASE RecoveryStep
  <2>1. CASE RecWrite
    BY <2>1 DEF RecWrite, RecWriteItem, TypeInv, TypeOK, Item, ReadyHasVectors
  <2>2. ASSUME \/ LockSkip \/ LockDeadLetter \/ LockRecord \/ RecPublish
               \/ RecPublishTaken \/ RecPublishError \/ RecAbort
               \/ RecWriteRefused
        PROVE  UNCHANGED item
    BY <2>2 DEF LockSkip, LockDeadLetter, LockRecord, RecPublish, RecPublishTaken,
        RecPublishError, RecAbort, RecWriteRefused
  <2> QED
    BY <1>0, <1>6, <2>1, <2>2 DEF RecoveryStep
<1>7. CASE RecCrash
  BY <1>0, <1>7 DEF RecCrash
<1>8. CASE UNCHANGED vars
  BY <1>0, <1>8 DEF vars
<1> QED
  BY <1>0, <1>1, <1>2, <1>3, <1>4, <1>5, <1>6, <1>7, <1>8, Zenon DEF Next

\* A ready item that has a body has its embeddings.
THEOREM ReadyItemsHaveVectors == Spec => []ReadyHasVectors
<1>1. Init => ReadyHasVectors
  BY DEF Init, ReadyHasVectors
<1>2. TypeInv /\ ReadyHasVectors /\ [Next]_vars => ReadyHasVectors'
  BY VectorsNext
<1> QED
  BY <1>1, <1>2, TypeInvariant, PTL DEF Spec

-----------------------------------------------------------------------------
(* One ready item per body.  OneReadyPerBody is not inductive: the unique    *)
(* index compares stored hashes, so the invariant has to say that a ready    *)
(* item has one, which in turn rests on what a worker's session has stored.  *)

UniqueHash ==
    \A k, r \in Keys : k # r /\ ContentOf[k] = ContentOf[r] => ~(Indexed(k) /\ Indexed(r))

ReadyHashed == \A k \in Keys : item[k].status = "ready" /\ item[k].src => item[k].hash

RunHashed ==
    \A k \in Keys, g \in Gens :
        /\ run[k][g].pc = "final" => run[k][g].hash
        /\ run[k][g].pc # "idle" /\ run[k][g].hash /\ item[k].src => item[k].hash

AbsentEmpty ==
    \A k \in Keys : job[k].status = "absent" =>
        /\ item[k].status = "absent" /\ ~item[k].src /\ ~item[k].hash
        /\ \A g \in Gens : run[k][g].pc = "idle"

RecPresent == rec.pc # "idle" => job[rec.key].status # "absent"

HashInv == UniqueHash /\ ReadyHashed /\ RunHashed /\ AbsentEmpty /\ RecPresent

\* A job that exists stays.
PresentStep == \A r \in Keys : job[r].status # "absent" => job'[r].status # "absent"

LEMMA PresentNext ==
    ASSUME TypeInv, [Next]_vars
    PROVE  PresentStep
<1>0. ASSUME UNCHANGED job
      PROVE  PresentStep
  BY <1>0 DEF PresentStep
<1>1. CASE Environment
  BY <1>0, <1>1 DEF Environment, Age, ClearContent, ForgetResult, QueueLoss
<1>2. ASSUME NEW c \in Clients, Request(c)
      PROVE  PresentStep
  <2>1. ASSUME NEW k \in Keys, AcceptNew(c, k)
        PROVE  PresentStep
    BY <1>2, <2>1 DEF AcceptNew, Job, TypeInv, TypeOK, PresentStep
  <2>2. ASSUME NEW k \in Keys, ReviveStale(c, k)
        PROVE  PresentStep
    BY <1>2, <2>2 DEF ReviveStale, Job, TypeInv, TypeOK, PresentStep
  <2>3. ASSUME NEW k \in Keys, ReviveUnavailable(c, k)
        PROVE  PresentStep
    BY <1>2, <2>3 DEF ReviveUnavailable, Job, TypeInv, TypeOK, PresentStep
  <2>4. ASSUME NEW k \in Keys, Retry(c, k)
        PROVE  PresentStep
    BY <1>2, <2>4 DEF Retry, Job, TypeInv, TypeOK, PresentStep
  <2>5. ASSUME ApiCrash(c)
        PROVE  UNCHANGED job
    BY <2>5 DEF ApiCrash
  <2> QED
    BY <1>0, <1>2, <2>1, <2>2, <2>3, <2>4, <2>5 DEF Request
<1>3. ASSUME NEW c \in Clients, RequestStep(c)
      PROVE  PresentStep
  <2>1. CASE Stamp(c)
    BY <1>3, <2>1 DEF Stamp, Job, TypeInv, TypeOK, PresentStep
  <2>2. CASE MarkUnavailable(c)
    BY <1>3, <2>2 DEF MarkUnavailable, Job, TypeInv, TypeOK, PresentStep
  <2>3. ASSUME Publish(c) \/ PublishTaken(c) \/ PublishError(c)
        PROVE  UNCHANGED job
    BY <2>3 DEF Publish, PublishTaken, PublishError
  <2> QED
    BY <1>0, <1>3, <2>1, <2>2, <2>3 DEF RequestStep
<1>4. ASSUME NEW k \in Keys, NEW g \in Gens, WorkerStep(k, g) \/ WorkerFault(k, g)
      PROVE  PresentStep
  <2>1. CASE Start(k, g)
    BY <1>4, <2>1 DEF Start, Job, TypeInv, TypeOK, PresentStep
  <2>2. CASE Dedupe(k, g)
    BY <1>4, <2>2 DEF Dedupe, Job, TypeInv, TypeOK, PresentStep
  <2>3. CASE Final(k, g)
    BY <1>4, <2>3 DEF Final, Job, TypeInv, TypeOK, PresentStep
  <2>4. CASE FailOnClash(k, g)
    BY <1>4, <2>4 DEF FailOnClash, StoreFailure, Job, TypeInv, TypeOK, PresentStep
  <2>5. CASE FailOnError(k, g)
    BY <1>4, <2>5 DEF FailOnError, StoreFailure, Job, TypeInv, TypeOK, PresentStep
  <2>6. ASSUME \/ StartNoSource(k, g) \/ Embed(k, g) \/ StoreHash(k, g)
               \/ Abandon(k, g) \/ WorkerCrash(k, g)
        PROVE  UNCHANGED job
    BY <2>6 DEF StartNoSource, Embed, StoreHash, Abandon, WorkerCrash, StoreFailure,
        EndRun
  <2> QED
    BY <1>0, <1>4, <2>1, <2>2, <2>3, <2>4, <2>5, <2>6 DEF WorkerStep, WorkerFault
<1>5. ASSUME NEW k \in Keys, Scan(k)
      PROVE  PresentStep
  BY <1>0, <1>5 DEF Scan
<1>6. CASE RecoveryStep
  <2>1. CASE LockDeadLetter
    BY <2>1 DEF LockDeadLetter, Job, TypeInv, TypeOK, PresentStep
  <2>2. CASE RecWrite
    BY <2>2 DEF RecWrite, RecWriteJob, TypeInv, TypeOK, PresentStep
  <2>3. ASSUME \/ LockSkip \/ LockRecord \/ RecPublish \/ RecPublishTaken
               \/ RecPublishError \/ RecAbort \/ RecWriteRefused
        PROVE  UNCHANGED job
    BY <2>3 DEF LockSkip, LockRecord, RecPublish, RecPublishTaken, RecPublishError,
        RecAbort, RecWriteRefused
  <2> QED
    BY <1>0, <1>6, <2>1, <2>2, <2>3 DEF RecoveryStep
<1>7. CASE RecCrash
  BY <1>0, <1>7 DEF RecCrash
<1>8. CASE UNCHANGED vars
  BY <1>0, <1>8 DEF vars
<1> QED
  BY <1>0, <1>1, <1>2, <1>3, <1>4, <1>5, <1>6, <1>7, <1>8, Zenon DEF Next

LEMMA RecPresentNext ==
    ASSUME TypeInv, RecPresent, PresentStep, [Next]_vars
    PROVE  RecPresent'
<1>0. ASSUME UNCHANGED rec
      PROVE  RecPresent'
  BY <1>0 DEF TypeInv, TypeOK, RecKeyed, RecPresent, PresentStep
<1>1. CASE Environment
  BY <1>0, <1>1 DEF Environment, Age, ClearContent, ForgetResult, QueueLoss
<1>2. ASSUME NEW c \in Clients, Request(c)
      PROVE  RecPresent'
  BY <1>0, <1>2 DEF Request, AcceptNew, ReviveStale, ReviveUnavailable, Retry, ApiCrash
<1>3. ASSUME NEW c \in Clients, RequestStep(c)
      PROVE  RecPresent'
  BY <1>0, <1>3 DEF RequestStep, Stamp, Publish, PublishTaken, PublishError,
      MarkUnavailable
<1>4. ASSUME NEW k \in Keys, NEW g \in Gens, WorkerStep(k, g) \/ WorkerFault(k, g)
      PROVE  RecPresent'
  BY <1>0, <1>4 DEF WorkerStep, WorkerFault, Start, StartNoSource, Dedupe, Embed,
      StoreHash, Final, FailOnClash, FailOnError, Abandon, WorkerCrash,
      StoreFailure, EndRun
<1>5. ASSUME NEW k \in Keys, Scan(k)
      PROVE  RecPresent'
  BY <1>5 DEF Scan, Stale, TypeInv, TypeOK, RecKeyed, RecPresent, PresentStep
<1>6. CASE RecoveryStep
  <2>1. CASE LockSkip
    BY <2>1 DEF LockSkip, IdleRec, TypeInv, TypeOK, RecKeyed, RecPresent, PresentStep
  <2>2. CASE LockDeadLetter
    BY <2>2 DEF LockDeadLetter, IdleRec, TypeInv, TypeOK, RecKeyed, RecPresent,
        PresentStep
  <2>3. CASE LockRecord
    BY <2>3 DEF LockRecord, IdleRec, TypeInv, TypeOK, RecKeyed, RecPresent, PresentStep
  <2>4. CASE RecPublish
    BY <2>4 DEF RecPublish, IdleRec, TypeInv, TypeOK, RecKeyed, RecPresent, PresentStep
  <2>5. CASE RecPublishTaken
    BY <2>5 DEF RecPublishTaken, IdleRec, TypeInv, TypeOK, RecKeyed, RecPresent,
        PresentStep
  <2>6. CASE RecPublishError
    BY <2>6 DEF RecPublishError, IdleRec, TypeInv, TypeOK, RecKeyed, RecPresent,
        PresentStep
  <2>7. CASE RecAbort
    BY <2>7 DEF RecAbort, IdleRec, TypeInv, TypeOK, RecKeyed, RecPresent, PresentStep
  <2>8. CASE RecWrite
    BY <2>8 DEF RecWrite, IdleRec, TypeInv, TypeOK, RecKeyed, RecPresent, PresentStep
  <2>9. CASE RecWriteRefused
    BY <2>9 DEF RecWriteRefused, IdleRec, TypeInv, TypeOK, RecKeyed, RecPresent,
        PresentStep
  <2> QED
    BY <1>0, <1>6, <2>1, <2>2, <2>3, <2>4, <2>5, <2>6, <2>7, <2>8, <2>9 DEF RecoveryStep
<1>7. CASE RecCrash
  BY <1>7 DEF RecCrash, IdleRec, TypeInv, TypeOK, RecKeyed, RecPresent, PresentStep
<1>8. CASE UNCHANGED vars
  BY <1>0, <1>8 DEF vars
<1> QED
  BY <1>0, <1>1, <1>2, <1>3, <1>4, <1>5, <1>6, <1>7, <1>8, Zenon DEF Next

LEMMA AbsentNext ==
    ASSUME TypeInv, AbsentEmpty, RecPresent, PresentStep, [Next]_vars
    PROVE  AbsentEmpty'
<1>0. ASSUME UNCHANGED <<item, run>>
      PROVE  AbsentEmpty'
  BY <1>0 DEF AbsentEmpty, PresentStep
<1>1. CASE Environment
  <2>1. ASSUME NEW k \in Keys, ClearContent(k)
        PROVE  AbsentEmpty'
    BY <2>1 DEF ClearContent, TypeInv, TypeOK, AbsentEmpty, PresentStep
  <2>2. ASSUME NEW k \in Keys,
               Age(k)
        PROVE  UNCHANGED <<item, run>>
    BY <2>2 DEF Age
  <2>3. ASSUME NEW k \in Keys, NEW g \in Gens,
               ForgetResult(k, g) \/ QueueLoss(k, g)
        PROVE  UNCHANGED <<item, run>>
    BY <2>3 DEF ForgetResult, QueueLoss
  <2> QED
    BY <1>0, <1>1, <2>1, <2>2, <2>3 DEF Environment
<1>2. ASSUME NEW c \in Clients, Request(c)
      PROVE  AbsentEmpty'
  <2>1. ASSUME NEW k \in Keys, AcceptNew(c, k)
        PROVE  AbsentEmpty'
    BY <1>2, <2>1 DEF AcceptNew, TypeInv, TypeOK, AbsentEmpty, PresentStep
  <2>2. ASSUME NEW k \in Keys, ReviveStale(c, k)
        PROVE  AbsentEmpty'
    BY <1>2, <2>2 DEF ReviveStale, Stale, TypeInv, TypeOK, AbsentEmpty, PresentStep
  <2>3. ASSUME NEW k \in Keys, ReviveUnavailable(c, k)
        PROVE  AbsentEmpty'
    BY <1>2, <2>3 DEF ReviveUnavailable, TypeInv, TypeOK, AbsentEmpty, PresentStep
  <2>4. ASSUME NEW k \in Keys, Retry(c, k)
        PROVE  AbsentEmpty'
    BY <1>2, <2>4 DEF Retry, TypeInv, TypeOK, AbsentEmpty, PresentStep
  <2>5. ASSUME ApiCrash(c)
        PROVE  UNCHANGED <<item, run>>
    BY <2>5 DEF ApiCrash
  <2> QED
    BY <1>0, <1>2, <2>1, <2>2, <2>3, <2>4, <2>5 DEF Request
<1>3. ASSUME NEW c \in Clients, RequestStep(c)
      PROVE  AbsentEmpty'
  BY <1>0, <1>3 DEF RequestStep, Stamp, Publish, PublishTaken, PublishError,
      MarkUnavailable
<1>4. ASSUME NEW k \in Keys, NEW g \in Gens, WorkerStep(k, g) \/ WorkerFault(k, g)
      PROVE  AbsentEmpty'
  <2>1. CASE Start(k, g)
    BY <1>4, <2>1 DEF Start, TypeInv, TypeOK, AbsentEmpty, PresentStep
  <2>2. CASE Dedupe(k, g)
    BY <1>4, <2>2 DEF Dedupe, EndRun, TypeInv, TypeOK, AbsentEmpty, PresentStep
  <2>3. CASE Embed(k, g)
    BY <1>4, <2>3 DEF Embed, TypeInv, TypeOK, AbsentEmpty, PresentStep
  <2>4. CASE StoreHash(k, g)
    BY <1>4, <2>4 DEF StoreHash, TypeInv, TypeOK, AbsentEmpty, PresentStep
  <2>5. CASE Final(k, g)
    BY <1>4, <2>5 DEF Final, EndRun, TypeInv, TypeOK, AbsentEmpty, PresentStep
  <2>6. CASE FailOnClash(k, g)
    BY <1>4, <2>6 DEF FailOnClash, StoreFailure, EndRun, TypeInv, TypeOK, AbsentEmpty,
        PresentStep
  <2>7. CASE FailOnError(k, g)
    BY <1>4, <2>7 DEF FailOnError, StoreFailure, EndRun, TypeInv, TypeOK, AbsentEmpty,
        PresentStep
  <2>8. CASE Abandon(k, g)
    BY <1>4, <2>8 DEF Abandon, EndRun, TypeInv, TypeOK, AbsentEmpty, PresentStep
  <2>9. CASE WorkerCrash(k, g)
    BY <1>4, <2>9 DEF WorkerCrash, TypeInv, TypeOK, AbsentEmpty, PresentStep
  <2>10. ASSUME StartNoSource(k, g)
        PROVE  UNCHANGED <<item, run>>
    BY <2>10 DEF StartNoSource, StoreFailure, EndRun
  <2> QED
    BY <1>0, <1>4, <2>1, <2>2, <2>3, <2>4, <2>5, <2>6, <2>7, <2>8, <2>9, <2>10 DEF WorkerStep, WorkerFault
<1>5. ASSUME NEW k \in Keys, Scan(k)
      PROVE  AbsentEmpty'
  BY <1>0, <1>5 DEF Scan
<1>6. CASE RecoveryStep
  <2>1. CASE RecWrite
    BY <2>1 DEF RecWrite, RecPresent, RecKeyed, TypeInv, TypeOK, AbsentEmpty,
        PresentStep
  <2>2. ASSUME \/ LockSkip \/ LockDeadLetter \/ LockRecord \/ RecPublish
               \/ RecPublishTaken \/ RecPublishError \/ RecAbort
               \/ RecWriteRefused
        PROVE  UNCHANGED <<item, run>>
    BY <2>2 DEF LockSkip, LockDeadLetter, LockRecord, RecPublish, RecPublishTaken,
        RecPublishError, RecAbort, RecWriteRefused
  <2> QED
    BY <1>0, <1>6, <2>1, <2>2 DEF RecoveryStep
<1>7. CASE RecCrash
  BY <1>0, <1>7 DEF RecCrash
<1>8. CASE UNCHANGED vars
  BY <1>0, <1>8 DEF vars
<1> QED
  BY <1>0, <1>1, <1>2, <1>3, <1>4, <1>5, <1>6, <1>7, <1>8, Zenon DEF Next

LEMMA ReadyHashedNext ==
    ASSUME TypeInv, ReadyHashed, RunHashed, [Next]_vars
    PROVE  ReadyHashed'
<1>0. ASSUME UNCHANGED item
      PROVE  ReadyHashed'
  BY <1>0 DEF ReadyHashed
<1>1. CASE Environment
  <2>1. ASSUME NEW k \in Keys, ClearContent(k)
        PROVE  ReadyHashed'
    BY <2>1 DEF ClearContent, TypeInv, TypeOK, Item, ReadyHashed
  <2>2. ASSUME NEW k \in Keys,
               Age(k)
        PROVE  UNCHANGED item
    BY <2>2 DEF Age
  <2>3. ASSUME NEW k \in Keys, NEW g \in Gens,
               ForgetResult(k, g) \/ QueueLoss(k, g)
        PROVE  UNCHANGED item
    BY <2>3 DEF ForgetResult, QueueLoss
  <2> QED
    BY <1>0, <1>1, <2>1, <2>2, <2>3 DEF Environment
<1>2. ASSUME NEW c \in Clients, Request(c)
      PROVE  ReadyHashed'
  <2>1. ASSUME NEW k \in Keys, AcceptNew(c, k)
        PROVE  ReadyHashed'
    BY <1>2, <2>1 DEF AcceptNew, TypeInv, TypeOK, Item, ReadyHashed
  <2>2. ASSUME NEW k \in Keys, ReviveStale(c, k)
        PROVE  ReadyHashed'
    BY <1>2, <2>2 DEF ReviveStale, TypeInv, TypeOK, Item, ReadyHashed
  <2>3. ASSUME NEW k \in Keys, ReviveUnavailable(c, k)
        PROVE  ReadyHashed'
    BY <1>2, <2>3 DEF ReviveUnavailable, TypeInv, TypeOK, Item, ReadyHashed
  <2>4. ASSUME NEW k \in Keys, Retry(c, k)
        PROVE  ReadyHashed'
    BY <1>2, <2>4 DEF Retry, TypeInv, TypeOK, Item, ReadyHashed
  <2>5. ASSUME ApiCrash(c)
        PROVE  UNCHANGED item
    BY <2>5 DEF ApiCrash
  <2> QED
    BY <1>0, <1>2, <2>1, <2>2, <2>3, <2>4, <2>5 DEF Request
<1>3. ASSUME NEW c \in Clients, RequestStep(c)
      PROVE  ReadyHashed'
  BY <1>0, <1>3 DEF RequestStep, Stamp, Publish, PublishTaken, PublishError,
      MarkUnavailable
<1>4. ASSUME NEW k \in Keys, NEW g \in Gens, WorkerStep(k, g) \/ WorkerFault(k, g)
      PROVE  ReadyHashed'
  <2>1. CASE Dedupe(k, g)
    BY <1>4, <2>1 DEF Dedupe, TypeInv, TypeOK, Item, ReadyHashed
  <2>2. CASE StoreHash(k, g)
    BY <1>4, <2>2 DEF StoreHash, TypeInv, TypeOK, Item, ReadyHashed
  <2>3. CASE Final(k, g)
    BY <1>4, <2>3 DEF Final, RunHashed, TypeInv, TypeOK, Item, ReadyHashed
  <2>4. CASE FailOnClash(k, g)
    BY <1>4, <2>4 DEF FailOnClash, StoreFailure, TypeInv, TypeOK, Item, ReadyHashed
  <2>5. CASE FailOnError(k, g)
    BY <1>4, <2>5 DEF FailOnError, StoreFailure, TypeInv, TypeOK, Item, ReadyHashed
  <2>6. ASSUME \/ Start(k, g) \/ StartNoSource(k, g) \/ Embed(k, g)
               \/ Abandon(k, g) \/ WorkerCrash(k, g)
        PROVE  UNCHANGED item
    BY <2>6 DEF Start, StartNoSource, Embed, Abandon, WorkerCrash, StoreFailure,
        EndRun
  <2> QED
    BY <1>0, <1>4, <2>1, <2>2, <2>3, <2>4, <2>5, <2>6 DEF WorkerStep, WorkerFault
<1>5. ASSUME NEW k \in Keys, Scan(k)
      PROVE  ReadyHashed'
  BY <1>0, <1>5 DEF Scan
<1>6. CASE RecoveryStep
  <2>1. CASE RecWrite
    BY <2>1 DEF RecWrite, RecWriteItem, TypeInv, TypeOK, Item, ReadyHashed
  <2>2. ASSUME \/ LockSkip \/ LockDeadLetter \/ LockRecord \/ RecPublish
               \/ RecPublishTaken \/ RecPublishError \/ RecAbort
               \/ RecWriteRefused
        PROVE  UNCHANGED item
    BY <2>2 DEF LockSkip, LockDeadLetter, LockRecord, RecPublish, RecPublishTaken,
        RecPublishError, RecAbort, RecWriteRefused
  <2> QED
    BY <1>0, <1>6, <2>1, <2>2 DEF RecoveryStep
<1>7. CASE RecCrash
  BY <1>0, <1>7 DEF RecCrash
<1>8. CASE UNCHANGED vars
  BY <1>0, <1>8 DEF vars
<1> QED
  BY <1>0, <1>1, <1>2, <1>3, <1>4, <1>5, <1>6, <1>7, <1>8, Zenon DEF Next

LEMMA RunHashedNext ==
    ASSUME TypeInv, RunHashed, AbsentEmpty, [Next]_vars
    PROVE  RunHashed'
<1>0. ASSUME UNCHANGED <<item, run>>
      PROVE  RunHashed'
  BY <1>0 DEF RunHashed
<1>1. CASE Environment
  <2>1. ASSUME NEW k \in Keys, ClearContent(k)
        PROVE  RunHashed'
    BY <2>1 DEF ClearContent, TypeInv, TypeOK, Item, Run, RunHashed
  <2>2. ASSUME NEW k \in Keys,
               Age(k)
        PROVE  UNCHANGED <<item, run>>
    BY <2>2 DEF Age
  <2>3. ASSUME NEW k \in Keys, NEW g \in Gens,
               ForgetResult(k, g) \/ QueueLoss(k, g)
        PROVE  UNCHANGED <<item, run>>
    BY <2>3 DEF ForgetResult, QueueLoss
  <2> QED
    BY <1>0, <1>1, <2>1, <2>2, <2>3 DEF Environment
<1>2. ASSUME NEW c \in Clients, Request(c)
      PROVE  RunHashed'
  <2>1. ASSUME NEW k \in Keys, AcceptNew(c, k)
        PROVE  RunHashed'
    BY <1>2, <2>1 DEF AcceptNew, AbsentEmpty, TypeInv, TypeOK, Item, Run, RunHashed
  <2>2. ASSUME NEW k \in Keys, ReviveStale(c, k)
        PROVE  RunHashed'
    BY <1>2, <2>2 DEF ReviveStale, TypeInv, TypeOK, Item, Run, RunHashed
  <2>3. ASSUME NEW k \in Keys, ReviveUnavailable(c, k)
        PROVE  RunHashed'
    BY <1>2, <2>3 DEF ReviveUnavailable, TypeInv, TypeOK, Item, Run, RunHashed
  <2>4. ASSUME NEW k \in Keys, Retry(c, k)
        PROVE  RunHashed'
    BY <1>2, <2>4 DEF Retry, TypeInv, TypeOK, Item, Run, RunHashed
  <2>5. ASSUME ApiCrash(c)
        PROVE  UNCHANGED <<item, run>>
    BY <2>5 DEF ApiCrash
  <2> QED
    BY <1>0, <1>2, <2>1, <2>2, <2>3, <2>4, <2>5 DEF Request
<1>3. ASSUME NEW c \in Clients, RequestStep(c)
      PROVE  RunHashed'
  BY <1>0, <1>3 DEF RequestStep, Stamp, Publish, PublishTaken, PublishError,
      MarkUnavailable
<1>4. ASSUME NEW k \in Keys, NEW g \in Gens, WorkerStep(k, g) \/ WorkerFault(k, g)
      PROVE  RunHashed'
  <2>1. CASE Start(k, g)
    BY <1>4, <2>1 DEF Start, TypeInv, TypeOK, Item, Run, RunHashed
  <2>2. CASE Dedupe(k, g)
    BY <1>4, <2>2 DEF Dedupe, EndRun, IdleRun, TypeInv, TypeOK, Item, Run, RunHashed
  <2>3. CASE Embed(k, g)
    BY <1>4, <2>3 DEF Embed, TypeInv, TypeOK, Item, Run, RunHashed
  <2>4. CASE StoreHash(k, g)
    BY <1>4, <2>4 DEF StoreHash, TypeInv, TypeOK, Item, Run, RunHashed
  <2>5. CASE Final(k, g)
    BY <1>4, <2>5 DEF Final, EndRun, IdleRun, TypeInv, TypeOK, Item, Run, RunHashed
  <2>6. CASE FailOnClash(k, g)
    BY <1>4, <2>6 DEF FailOnClash, StoreFailure, EndRun, IdleRun, TypeInv, TypeOK, Item, Run,
        RunHashed
  <2>7. CASE FailOnError(k, g)
    BY <1>4, <2>7 DEF FailOnError, StoreFailure, EndRun, IdleRun, TypeInv, TypeOK, Item, Run,
        RunHashed
  <2>8. CASE Abandon(k, g)
    BY <1>4, <2>8 DEF Abandon, EndRun, IdleRun, TypeInv, TypeOK, Item, Run, RunHashed
  <2>9. CASE WorkerCrash(k, g)
    BY <1>4, <2>9 DEF WorkerCrash, IdleRun, TypeInv, TypeOK, Item, Run, RunHashed
  <2>10. ASSUME StartNoSource(k, g)
        PROVE  UNCHANGED <<item, run>>
    BY <2>10 DEF StartNoSource, StoreFailure, EndRun
  <2> QED
    BY <1>0, <1>4, <2>1, <2>2, <2>3, <2>4, <2>5, <2>6, <2>7, <2>8, <2>9, <2>10 DEF WorkerStep, WorkerFault
<1>5. ASSUME NEW k \in Keys, Scan(k)
      PROVE  RunHashed'
  BY <1>0, <1>5 DEF Scan
<1>6. CASE RecoveryStep
  <2>1. CASE RecWrite
    BY <2>1 DEF RecWrite, TypeInv, TypeOK, Item, Run, RunHashed
  <2>2. ASSUME \/ LockSkip \/ LockDeadLetter \/ LockRecord \/ RecPublish
               \/ RecPublishTaken \/ RecPublishError \/ RecAbort
               \/ RecWriteRefused
        PROVE  UNCHANGED <<item, run>>
    BY <2>2 DEF LockSkip, LockDeadLetter, LockRecord, RecPublish, RecPublishTaken,
        RecPublishError, RecAbort, RecWriteRefused
  <2> QED
    BY <1>0, <1>6, <2>1, <2>2 DEF RecoveryStep
<1>7. CASE RecCrash
  BY <1>0, <1>7 DEF RecCrash
<1>8. CASE UNCHANGED vars
  BY <1>0, <1>8 DEF vars
<1> QED
  BY <1>0, <1>1, <1>2, <1>3, <1>4, <1>5, <1>6, <1>7, <1>8, Zenon DEF Next

\* One row changes, and is in the index only if it was or if it has no rival.
LEMMA UniqueUpdate ==
    ASSUME item \in [Keys -> Item], UniqueHash, NEW k \in Keys, NEW new \in Item,
           item' = [item EXCEPT ![k] = new],
           new.hash /\ new.status \notin {"absent", "failed"} => Indexed(k) \/ Rivals(k) = {}
    PROVE  UniqueHash'
<1>1. \A r \in Keys \ {k} : item'[r] = item[r]
  OBVIOUS
<1>2. item'[k] = new
  OBVIOUS
<1>3. \A r \in Keys \ {k} : Indexed(r)' = Indexed(r)
  BY <1>1 DEF Indexed
<1>4. Indexed(k)' => Indexed(k) \/ Rivals(k) = {}
  BY <1>2 DEF Indexed
<1> QED
  BY <1>3, <1>4 DEF UniqueHash, Rivals

LEMMA UniqueNext ==
    ASSUME TypeInv, UniqueHash, AbsentEmpty, [Next]_vars
    PROVE  UniqueHash'
<1>0. ASSUME UNCHANGED item
      PROVE  UniqueHash'
  BY <1>0 DEF UniqueHash, Indexed
<1>1. CASE Environment
  <2>1. ASSUME NEW k \in Keys, ClearContent(k)
        PROVE  UniqueHash'
    <3> DEFINE new == [status |-> "ready", src |-> FALSE, hash |-> FALSE, vec |-> FALSE]
    <3>1. item' = [item EXCEPT ![k] = new]
      BY <2>1 DEF ClearContent
    <3>2. new \in Item
      BY DEF TypeInv, TypeOK, Item, ItemStatus
    <3>3. new.hash /\ new.status \notin {"absent", "failed"} => Indexed(k) \/ Rivals(k) = {}
      BY DEF Item
    <3> QED
      BY <3>1, <3>2, <3>3, UniqueUpdate DEF TypeInv, TypeOK
  <2>2. ASSUME NEW k \in Keys,
               Age(k)
        PROVE  UNCHANGED item
    BY <2>2 DEF Age
  <2>3. ASSUME NEW k \in Keys, NEW g \in Gens,
               ForgetResult(k, g) \/ QueueLoss(k, g)
        PROVE  UNCHANGED item
    BY <2>3 DEF ForgetResult, QueueLoss
  <2> QED
    BY <1>0, <1>1, <2>1, <2>2, <2>3 DEF Environment
<1>2. ASSUME NEW c \in Clients, Request(c)
      PROVE  UniqueHash'
  <2>1. ASSUME NEW k \in Keys, AcceptNew(c, k)
        PROVE  UniqueHash'
    <3> DEFINE new == [item[k] EXCEPT !.status = "processing", !.src = TRUE]
    <3>1. item' = [item EXCEPT ![k] = new]
      BY <1>2, <2>1 DEF AcceptNew
    <3>2. new \in Item
      BY DEF TypeInv, TypeOK, Item, ItemStatus
    <3>3. new.hash /\ new.status \notin {"absent", "failed"} => Indexed(k) \/ Rivals(k) = {}
      BY <1>2, <2>1 DEF AcceptNew, AbsentEmpty, TypeInv, TypeOK, Item
    <3> QED
      BY <3>1, <3>2, <3>3, UniqueUpdate DEF TypeInv, TypeOK
  <2>2. ASSUME NEW k \in Keys, ReviveStale(c, k)
        PROVE  UniqueHash'
    <3> DEFINE new == [item[k] EXCEPT !.status = "processing"]
    <3>1. item' = [item EXCEPT ![k] = new]
      BY <1>2, <2>2 DEF ReviveStale
    <3>2. new \in Item
      BY DEF TypeInv, TypeOK, Item, ItemStatus
    <3>3. new.hash /\ new.status \notin {"absent", "failed"} => Indexed(k) \/ Rivals(k) = {}
      BY <1>2, <2>2 DEF ReviveStale, Clash, TypeInv, TypeOK, Item
    <3> QED
      BY <3>1, <3>2, <3>3, UniqueUpdate DEF TypeInv, TypeOK
  <2>3. ASSUME NEW k \in Keys, ReviveUnavailable(c, k)
        PROVE  UniqueHash'
    <3> DEFINE new == [item[k] EXCEPT !.status = "processing"]
    <3>1. item' = [item EXCEPT ![k] = new]
      BY <1>2, <2>3 DEF ReviveUnavailable
    <3>2. new \in Item
      BY DEF TypeInv, TypeOK, Item, ItemStatus
    <3>3. new.hash /\ new.status \notin {"absent", "failed"} => Indexed(k) \/ Rivals(k) = {}
      BY <1>2, <2>3 DEF ReviveUnavailable, Clash, TypeInv, TypeOK, Item
    <3> QED
      BY <3>1, <3>2, <3>3, UniqueUpdate DEF TypeInv, TypeOK
  <2>4. ASSUME NEW k \in Keys, Retry(c, k)
        PROVE  UniqueHash'
    <3> DEFINE new == [item[k] EXCEPT !.status = "processing"]
    <3>1. item' = [item EXCEPT ![k] = new]
      BY <1>2, <2>4 DEF Retry
    <3>2. new \in Item
      BY DEF TypeInv, TypeOK, Item, ItemStatus
    <3>3. new.hash /\ new.status \notin {"absent", "failed"} => Indexed(k) \/ Rivals(k) = {}
      BY <1>2, <2>4 DEF Retry, Clash, TypeInv, TypeOK, Item
    <3> QED
      BY <3>1, <3>2, <3>3, UniqueUpdate DEF TypeInv, TypeOK
  <2>5. ASSUME ApiCrash(c)
        PROVE  UNCHANGED item
    BY <2>5 DEF ApiCrash
  <2> QED
    BY <1>0, <1>2, <2>1, <2>2, <2>3, <2>4, <2>5 DEF Request
<1>3. ASSUME NEW c \in Clients, RequestStep(c)
      PROVE  UniqueHash'
  BY <1>0, <1>3 DEF RequestStep, Stamp, Publish, PublishTaken, PublishError,
      MarkUnavailable
<1>4. ASSUME NEW k \in Keys, NEW g \in Gens, WorkerStep(k, g) \/ WorkerFault(k, g)
      PROVE  UniqueHash'
  <2>1. CASE Dedupe(k, g)
    <3>1. CASE item' = item
      BY <1>0, <3>1
    <3>2. CASE item' # item
      <4> DEFINE new == [item[k] EXCEPT !.status = "failed"]
      <4>1. item' = [item EXCEPT ![k] = new]
        BY <1>4, <2>1, <3>2 DEF Dedupe
      <4>2. new \in Item /\ new.status = "failed"
        BY DEF TypeInv, TypeOK, Item, ItemStatus
      <4> QED
        BY <4>1, <4>2, UniqueUpdate DEF TypeInv, TypeOK
    <3> QED
      BY <3>1, <3>2
  <2>2. CASE StoreHash(k, g)
    <3>1. CASE item' = item
      BY <1>0, <3>1
    <3>2. CASE item' # item
      <4> DEFINE new == [item[k] EXCEPT !.hash = TRUE]
      <4>1. item' = [item EXCEPT ![k] = new]
        BY <1>4, <2>2, <3>2 DEF StoreHash
      <4>2. Rivals(k) = {} \/ item[k].status = "failed"
        BY <1>4, <2>2, <3>2 DEF StoreHash
      <4>3. new \in Item /\ new.status = item[k].status
        BY DEF TypeInv, TypeOK, Item
      <4> QED
        BY <4>1, <4>2, <4>3, UniqueUpdate DEF TypeInv, TypeOK
    <3> QED
      BY <3>1, <3>2
  <2>3. CASE Final(k, g)
    <3> DEFINE new == [item[k] EXCEPT !.status = ReadyItem(k, g), !.vec = TRUE]
    <3>1. item' = [item EXCEPT ![k] = new]
      BY <1>4, <2>3 DEF Final
    <3>2. item[k] \in Item /\ ReadyItem(k, g) \in ItemStatus
      BY DEF TypeInv, TypeOK, ReadyItem, Item, ItemStatus
    <3>3. new \in Item /\ new.status = ReadyItem(k, g) /\ new.hash = item[k].hash
      BY <3>2 DEF Item
    <3>4. ~(item[k].hash /\ ReadyItem(k, g) # "failed" /\ Rivals(k) # {})
      BY <1>4, <2>3 DEF Final, FinalClash
    <3> HIDE DEF new
    <3> QED
      BY <3>1, <3>3, <3>4, UniqueUpdate DEF TypeInv, TypeOK
  <2>4. CASE FailOnClash(k, g)
    <3> DEFINE new == [item[k] EXCEPT !.status = "failed"]
    <3>1. item' = [item EXCEPT ![k] = new]
      BY <1>4, <2>4 DEF FailOnClash, StoreFailure
    <3>2. new \in Item
      BY DEF TypeInv, TypeOK, Item, ItemStatus
    <3>3. new.hash /\ new.status \notin {"absent", "failed"} => Indexed(k) \/ Rivals(k) = {}
      BY DEF TypeInv, TypeOK, Item
    <3> QED
      BY <3>1, <3>2, <3>3, UniqueUpdate DEF TypeInv, TypeOK
  <2>5. CASE FailOnError(k, g)
    <3> DEFINE new == [item[k] EXCEPT !.status = "failed"]
    <3>1. item' = [item EXCEPT ![k] = new]
      BY <1>4, <2>5 DEF FailOnError, StoreFailure
    <3>2. new \in Item
      BY DEF TypeInv, TypeOK, Item, ItemStatus
    <3>3. new.hash /\ new.status \notin {"absent", "failed"} => Indexed(k) \/ Rivals(k) = {}
      BY DEF TypeInv, TypeOK, Item
    <3> QED
      BY <3>1, <3>2, <3>3, UniqueUpdate DEF TypeInv, TypeOK
  <2>6. ASSUME \/ Start(k, g) \/ StartNoSource(k, g) \/ Embed(k, g)
               \/ Abandon(k, g) \/ WorkerCrash(k, g)
        PROVE  UNCHANGED item
    BY <2>6 DEF Start, StartNoSource, Embed, Abandon, WorkerCrash, StoreFailure,
        EndRun
  <2> QED
    BY <1>0, <1>4, <2>1, <2>2, <2>3, <2>4, <2>5, <2>6 DEF WorkerStep, WorkerFault
<1>5. ASSUME NEW k \in Keys, Scan(k)
      PROVE  UniqueHash'
  BY <1>0, <1>5 DEF Scan
<1>6. CASE RecoveryStep
  <2>1. CASE RecWrite
    <3> DEFINE k   == rec.key
               new == [item[k] EXCEPT !.status = RecWriteItem(k)]
    <3>0. k \in Keys
      BY <2>1 DEF RecWrite, TypeInv, RecKeyed
    <3>1. item' = [item EXCEPT ![k] = new]
      BY <2>1 DEF RecWrite
    <3>2. item[k] \in Item /\ RecWriteItem(k) \in ItemStatus
      BY <3>0 DEF TypeInv, TypeOK, RecWriteItem, Item, ItemStatus
    <3>3. new \in Item /\ new.status = RecWriteItem(k) /\ new.hash = item[k].hash
      BY <3>2 DEF Item
    <3>4. ~(item[k].hash /\ RecWriteItem(k) # "failed" /\ Rivals(k) # {})
      BY <2>1 DEF RecWrite, RecWriteClash
    <3> HIDE DEF new, k
    <3> QED
      BY <3>0, <3>1, <3>3, <3>4, UniqueUpdate DEF TypeInv, TypeOK
  <2>2. ASSUME \/ LockSkip \/ LockDeadLetter \/ LockRecord \/ RecPublish
               \/ RecPublishTaken \/ RecPublishError \/ RecAbort
               \/ RecWriteRefused
        PROVE  UNCHANGED item
    BY <2>2 DEF LockSkip, LockDeadLetter, LockRecord, RecPublish, RecPublishTaken,
        RecPublishError, RecAbort, RecWriteRefused
  <2> QED
    BY <1>0, <1>6, <2>1, <2>2 DEF RecoveryStep
<1>7. CASE RecCrash
  BY <1>0, <1>7 DEF RecCrash
<1>8. CASE UNCHANGED vars
  BY <1>0, <1>8 DEF vars
<1> QED
  BY <1>0, <1>1, <1>2, <1>3, <1>4, <1>5, <1>6, <1>7, <1>8, Zenon DEF Next

\* HashInv holds in every reachable state.
LEMMA HashInvariant == Spec => []HashInv
<1>1. Init => HashInv
  <2> SUFFICES ASSUME Init
               PROVE  HashInv
    OBVIOUS
  <2>1. /\ \A k \in Keys : item[k].status = "absent" /\ ~item[k].src /\ ~item[k].hash
        /\ \A k \in Keys, g \in Gens : run[k][g].pc = "idle"
        /\ rec.pc = "idle"
    BY DEF Init, IdleRun, IdleRec
  <2> QED
    BY <2>1 DEF HashInv, UniqueHash, Indexed, ReadyHashed, RunHashed, AbsentEmpty, RecPresent
<1>2. TypeInv /\ HashInv /\ [Next]_vars => HashInv'
  <2> SUFFICES ASSUME TypeInv, HashInv, [Next]_vars
               PROVE  HashInv'
    OBVIOUS
  <2> USE DEF HashInv
  <2>1. PresentStep
    BY PresentNext
  <2>2. RecPresent' /\ AbsentEmpty'
    BY <2>1, RecPresentNext, AbsentNext
  <2>3. ReadyHashed' /\ RunHashed'
    BY ReadyHashedNext, RunHashedNext
  <2>4. UniqueHash'
    BY UniqueNext
  <2> QED
    BY <2>2, <2>3, <2>4
<1> QED
  BY <1>1, <1>2, TypeInvariant, PTL DEF Spec

\* Two entries with one body are never both ready with a body, for any number
\* of keys and workers.
THEOREM OneReadyItemPerBody == Spec => []OneReadyPerBody
<1>1. HashInv => OneReadyPerBody
  BY DEF HashInv, UniqueHash, Indexed, ReadyHashed, OneReadyPerBody
<1> QED
  BY <1>1, HashInvariant, PTL

-----------------------------------------------------------------------------
(* The holder of a body                                                      *)

\* A job is closed as a duplicate only of an item that holds its body.
DuplicateStep ==
    \A k \in Keys :
        job'[k].status = "duplicate" =>
            \/ job[k].status = "duplicate" /\ job'[k].dup = job[k].dup
            \/ job'[k].dup \in Rivals(k)

BodyStep == HolderStep /\ DuplicateStep /\ faults' >= faults

\* What a step may do to the rows of one key.
KeyStep(k) ==
    /\ Indexed(k) =>
          /\ \/ Indexed(k)'
             \/ /\ faults' > faults
                /\ job'[k].status = "failed" \/ ~item'[k].src
          /\ job[k].status # "duplicate" => job'[k].status # "duplicate"
    /\ job'[k].status = "duplicate" =>
          \/ job[k].status = "duplicate" /\ job'[k].dup = job[k].dup
          \/ job'[k].dup \in Rivals(k)

\* A step that leaves the rows of the other keys alone.
LEMMA BodyUpdate ==
    ASSUME NEW k \in Keys, faults' >= faults, KeyStep(k),
           \A r \in Keys \ {k} : item'[r] = item[r] /\ job'[r] = job[r]
    PROVE  BodyStep
BY DEF BodyStep, KeyStep, HolderStep, DuplicateStep, Indexed

\* A step that leaves both tables alone.
LEMMA BodySame ==
    ASSUME item' = item, job' = job, faults' >= faults
    PROVE  BodyStep
BY DEF BodyStep, HolderStep, DuplicateStep, Indexed

\* The faults are counted up.
LEMMA FaultCounted ==
    ASSUME TypeInv, Fault
    PROVE  faults' > faults /\ faults' >= faults
BY BoundAssumption DEF TypeInv, TypeOK, Fault

LEMMA FaultKept ==
    ASSUME TypeInv, faults' = faults
    PROVE  faults' >= faults
BY BoundAssumption DEF TypeInv, TypeOK

\* An item with rivals is not in the index.
LEMMA RivalsExclude ==
    ASSUME UniqueHash, NEW k \in Keys, Rivals(k) # {}
    PROVE  ~Indexed(k)
BY DEF UniqueHash, Rivals

\* Every step treats every holder and every duplicate as BodyStep allows.
LEMMA BodyNext ==
    ASSUME TypeInv, UniqueHash, [Next]_vars
    PROVE  BodyStep
<1>0. ASSUME item' = item, job' = job, UNCHANGED faults \/ Fault
      PROVE  BodyStep
  BY <1>0, BodySame, FaultCounted, FaultKept
<1>t. job \in [Keys -> Job] /\ item \in [Keys -> Item]
  BY DEF TypeInv, TypeOK
<1>1. CASE Environment
  <2>1. ASSUME NEW k \in Keys, ClearContent(k)
        PROVE  BodyStep
    <3>1. faults' > faults /\ faults' >= faults
      BY <2>1, FaultCounted DEF ClearContent
    <3>2. /\ job' = job
          /\ \A r \in Keys \ {k} : item'[r] = item[r]
          /\ ~item'[k].src
      BY <1>t, <2>1 DEF ClearContent
    <3>3. KeyStep(k)
      BY <3>1, <3>2 DEF KeyStep
    <3> QED
      BY <3>1, <3>2, <3>3, BodyUpdate
  <2>2. ASSUME NEW k \in Keys, Age(k)
        PROVE  BodyStep
    BY <1>0, <2>2 DEF Age
  <2>3. ASSUME NEW k \in Keys, NEW g \in Gens, ForgetResult(k, g) \/ QueueLoss(k, g)
        PROVE  BodyStep
    BY <1>0, <2>3 DEF ForgetResult, QueueLoss
  <2> QED
    BY <1>1, <2>1, <2>2, <2>3 DEF Environment
<1>2. ASSUME NEW c \in Clients, Request(c)
      PROVE  BodyStep
  <2>1. ASSUME NEW k \in Keys, AcceptNew(c, k)
        PROVE  BodyStep
    <3>1. /\ \A r \in Keys \ {k} : item'[r] = item[r] /\ job'[r] = job[r]
          /\ job'[k].status = "queued"
          /\ item'[k].status = "processing" /\ item'[k].hash = item[k].hash
      BY <1>t, <2>1 DEF AcceptNew, Job, Item
    <3>2. faults' >= faults
      BY <2>1, FaultKept DEF AcceptNew
    <3>3. KeyStep(k)
      BY <3>1 DEF KeyStep, Indexed
    <3> QED
      BY <3>1, <3>2, <3>3, BodyUpdate
  <2>2. ASSUME NEW k \in Keys, ReviveStale(c, k)
        PROVE  BodyStep
    <3>1. /\ \A r \in Keys \ {k} : item'[r] = item[r] /\ job'[r] = job[r]
          /\ job'[k].status = "queued"
          /\ item'[k].status = "processing" /\ item'[k].hash = item[k].hash
      BY <1>t, <2>2 DEF ReviveStale, Job, Item
    <3>2. faults' >= faults
      BY <2>2, FaultKept DEF ReviveStale
    <3>3. KeyStep(k)
      BY <3>1 DEF KeyStep, Indexed
    <3> QED
      BY <3>1, <3>2, <3>3, BodyUpdate
  <2>3. ASSUME NEW k \in Keys, ReviveUnavailable(c, k)
        PROVE  BodyStep
    <3>1. /\ \A r \in Keys \ {k} : item'[r] = item[r] /\ job'[r] = job[r]
          /\ job'[k].status = "queued"
          /\ item'[k].status = "processing" /\ item'[k].hash = item[k].hash
      BY <1>t, <2>3 DEF ReviveUnavailable, Job, Item
    <3>2. faults' >= faults
      BY <2>3, FaultKept DEF ReviveUnavailable
    <3>3. KeyStep(k)
      BY <3>1 DEF KeyStep, Indexed
    <3> QED
      BY <3>1, <3>2, <3>3, BodyUpdate
  <2>4. ASSUME NEW k \in Keys, Retry(c, k)
        PROVE  BodyStep
    <3>1. /\ \A r \in Keys \ {k} : item'[r] = item[r] /\ job'[r] = job[r]
          /\ job'[k].status = "queued"
          /\ item'[k].status = "processing" /\ item'[k].hash = item[k].hash
      BY <1>t, <2>4 DEF Retry, Job, Item
    <3>2. faults' >= faults
      BY <2>4, FaultKept DEF Retry
    <3>3. KeyStep(k)
      BY <3>1 DEF KeyStep, Indexed
    <3> QED
      BY <3>1, <3>2, <3>3, BodyUpdate
  <2>5. ASSUME ApiCrash(c)
        PROVE  BodyStep
    BY <1>0, <2>5 DEF ApiCrash
  <2> QED
    BY <1>2, <2>1, <2>2, <2>3, <2>4, <2>5, Zenon DEF Request
<1>3. ASSUME NEW c \in Clients, RequestStep(c)
      PROVE  BodyStep
  <2>1. ASSUME NEW k, Stamp(c) /\ k = api[c].key
        PROVE  BodyStep
    <3>1. /\ item' = item
          /\ \A r \in Keys : job'[r].status = job[r].status /\ job'[r].dup = job[r].dup
      BY <1>t, <2>1 DEF Stamp, Job
    <3>2. faults' >= faults
      BY <2>1, FaultKept DEF Stamp
    <3> QED
      BY <3>1, <3>2 DEF BodyStep, HolderStep, DuplicateStep, Indexed
  <2>2. CASE MarkUnavailable(c)
    <3>1. /\ item' = item
          /\ \A r \in Keys : \/ job'[r] = job[r]
                             \/ job'[r].status = "failed"
      BY <1>t, <2>2 DEF MarkUnavailable, Job
    <3>2. faults' >= faults
      BY <2>2, FaultKept DEF MarkUnavailable
    <3> QED
      BY <3>1, <3>2 DEF BodyStep, HolderStep, DuplicateStep, Indexed
  <2>3. ASSUME Publish(c) \/ PublishTaken(c) \/ PublishError(c)
        PROVE  BodyStep
    BY <1>0, <2>3 DEF Publish, PublishTaken, PublishError
  <2> QED
    BY <1>3, <2>1, <2>2, <2>3 DEF RequestStep
<1>4. ASSUME NEW k \in Keys, NEW g \in Gens, WorkerStep(k, g) \/ WorkerFault(k, g)
      PROVE  BodyStep
  <2>1. CASE Start(k, g)
    <3>1. /\ item' = item
          /\ \A r \in Keys \ {k} : job'[r] = job[r]
          /\ job'[k].status = "processing"
      BY <1>t, <2>1 DEF Start, Job
    <3>2. faults' >= faults
      BY <2>1, FaultKept DEF Start
    <3>3. KeyStep(k)
      BY <3>1 DEF KeyStep, Indexed
    <3> QED
      BY <3>1, <3>2, <3>3, BodyUpdate
  <2>2. CASE Dedupe(k, g)
    <3>1. PICK r \in Rivals(k) : job' = [job EXCEPT ![k].status = "duplicate", ![k].dup = r]
      BY <2>2 DEF Dedupe
    <3>2. ~Indexed(k)
      BY <3>1, RivalsExclude
    <3>3. /\ \A q \in Keys \ {k} : item'[q] = item[q] /\ job'[q] = job[q]
          /\ job'[k].dup = r
      BY <1>t, <2>2, <3>1 DEF Dedupe, Job
    <3>4. faults' >= faults
      BY <2>2, FaultKept DEF Dedupe
    <3>5. KeyStep(k)
      BY <3>1, <3>2, <3>3 DEF KeyStep
    <3> QED
      BY <3>3, <3>4, <3>5, BodyUpdate
  <2>3. CASE StoreHash(k, g)
    <3>1. /\ job' = job
          /\ \A r \in Keys \ {k} : item'[r] = item[r]
          /\ item'[k].status = item[k].status
          /\ item[k].hash => item'[k].hash
      BY <1>t, <2>3 DEF StoreHash, Item
    <3>2. faults' >= faults
      BY <2>3, FaultKept DEF StoreHash
    <3>3. KeyStep(k)
      BY <3>1 DEF KeyStep, Indexed
    <3> QED
      BY <3>1, <3>2, <3>3, BodyUpdate
  <2>4. CASE Final(k, g)
    <3>1. /\ \A r \in Keys \ {k} : item'[r] = item[r] /\ job'[r] = job[r]
          /\ item'[k].status \in {item[k].status, "ready"}
          /\ item'[k].hash = item[k].hash
          /\ job'[k].status = "completed"
      BY <1>t, <2>4 DEF Final, ReadyItem, Job, Item
    <3>2. faults' >= faults
      BY <2>4, FaultKept DEF Final
    <3>3. KeyStep(k)
      BY <3>1 DEF KeyStep, Indexed
    <3> QED
      BY <3>1, <3>2, <3>3, BodyUpdate
  <2>5. ASSUME StoreFailure(k, g)
        PROVE  /\ \A r \in Keys \ {k} : item'[r] = item[r] /\ job'[r] = job[r]
               /\ job'[k].status = "failed"
    BY <1>t, <2>5 DEF StoreFailure, Job, Item
  <2>6. CASE FailOnClash(k, g)
    <3>1. ~Indexed(k)
      BY <2>6, RivalsExclude DEF FailOnClash, FinalClash
    <3>2. StoreFailure(k, g) /\ faults' >= faults
      BY <2>6, FaultKept DEF FailOnClash
    <3>3. KeyStep(k)
      BY <2>5, <3>1, <3>2 DEF KeyStep
    <3> QED
      BY <2>5, <3>2, <3>3, BodyUpdate
  <2>7. CASE FailOnError(k, g)
    <3>1. StoreFailure(k, g) /\ faults' > faults /\ faults' >= faults
      BY <2>7, FaultCounted DEF FailOnError
    <3>2. KeyStep(k)
      BY <2>5, <3>1 DEF KeyStep
    <3> QED
      BY <2>5, <3>1, <3>2, BodyUpdate
  <2>8. ASSUME StartNoSource(k, g) \/ Embed(k, g) \/ Abandon(k, g) \/ WorkerCrash(k, g)
        PROVE  BodyStep
    BY <1>0, <2>8 DEF StartNoSource, Embed, Abandon, WorkerCrash
  <2> QED
    BY <1>4, <2>1, <2>2, <2>3, <2>4, <2>6, <2>7, <2>8 DEF WorkerStep, WorkerFault
<1>5. ASSUME NEW k \in Keys, Scan(k)
      PROVE  BodyStep
  BY <1>0, <1>5 DEF Scan
<1>6. CASE RecoveryStep
  <2>1. CASE RecWrite
    <3>0. PICK k \in Keys : k = rec.key
      BY <2>1 DEF RecWrite, TypeInv, RecKeyed
    <3>1. /\ job' = [job EXCEPT ![k] = RecWriteJob(k)]
          /\ item' = [item EXCEPT ![k].status = RecWriteItem(k)]
      BY <2>1, <3>0 DEF RecWrite
    <3>2. /\ \A r \in Keys \ {k} : item'[r] = item[r] /\ job'[r] = job[r]
          /\ item'[k].status \in {item[k].status, "processing"}
          /\ item'[k].hash = item[k].hash
          /\ job'[k].status \in {job[k].status, "queued"}
          /\ job'[k].dup = job[k].dup
      BY <1>t, <3>0, <3>1 DEF RecWriteItem, RecWriteJob, Job, Item
    <3>3. faults' >= faults
      BY <2>1, FaultKept DEF RecWrite
    <3>4. KeyStep(k)
      BY <3>2 DEF KeyStep, Indexed
    <3> QED
      BY <3>0, <3>2, <3>3, <3>4, BodyUpdate
  <2>2. CASE LockDeadLetter
    <3>1. /\ item' = item
          /\ \A r \in Keys : \/ job'[r] = job[r]
                             \/ job'[r].status = "failed"
      BY <1>t, <2>2 DEF LockDeadLetter, Job
    <3>2. faults' >= faults
      BY <2>2, FaultKept DEF LockDeadLetter
    <3> QED
      BY <3>1, <3>2 DEF BodyStep, HolderStep, DuplicateStep, Indexed
  <2>3. ASSUME \/ LockSkip \/ LockRecord \/ RecPublish \/ RecPublishTaken
               \/ RecPublishError \/ RecAbort \/ RecWriteRefused
        PROVE  BodyStep
    BY <1>0, <2>3 DEF LockSkip, LockRecord, RecPublish, RecPublishTaken,
        RecPublishError, RecAbort, RecWriteRefused
  <2> QED
    BY <1>6, <2>1, <2>2, <2>3 DEF RecoveryStep
<1>7. CASE RecCrash
  BY <1>0, <1>7 DEF RecCrash
<1>8. CASE UNCHANGED vars
  BY <1>0, <1>8 DEF vars
<1> QED
  BY <1>1, <1>2, <1>3, <1>4, <1>5, <1>6, <1>7, <1>8, Zenon DEF Next

\* The item that holds a body in the index keeps it against every other copy,
\* and its job is not closed as a duplicate: only an error of its own worker
\* or an edit takes the body away, for any number of keys and workers.
THEOREM HoldersKeepTheirBodies == Spec => HolderKeepsBody
<1>1. TypeInv /\ HashInv /\ [Next]_vars => [HolderStep]_vars
  BY BodyNext DEF BodyStep, HashInv
<1> QED
  BY <1>1, TypeInvariant, HashInvariant, PTL DEF Spec, HolderKeepsBody

\* While nothing has failed, the job that a duplicate points to holds the body
\* in the index and is no duplicate itself.
DuplicatesHeld ==
    faults = 0 =>
        \A k \in Keys :
            job[k].status = "duplicate" => /\ job[k].dup \in Rivals(k)
                                           /\ job[job[k].dup].status # "duplicate"

\* The part of DuplicatesHeld that a step carries over.
HeldByRival ==
    faults = 0 => \A k \in Keys : job[k].status = "duplicate" => job[k].dup \in Rivals(k)

LEMMA HeldByRivalNext ==
    ASSUME TypeInv, UniqueHash, HeldByRival, [Next]_vars
    PROVE  HeldByRival'
<1> SUFFICES ASSUME faults' = 0, NEW k \in Keys, job'[k].status = "duplicate"
             PROVE  (job[k].dup \in Rivals(k))'
  BY DEF HeldByRival
<1>1. BodyStep
  BY BodyNext
<1>2. faults = 0 /\ ~(faults' > faults)
  BY <1>1, BoundAssumption DEF BodyStep, TypeInv, TypeOK
<1>3. PICK r \in Rivals(k) : r = job'[k].dup
  BY <1>1, <1>2 DEF BodyStep, DuplicateStep, HeldByRival
<1>4. r \in Keys \ {k} /\ ContentOf[r] = ContentOf[k] /\ Indexed(r)
  BY DEF Rivals
<1>5. Indexed(r)'
  BY <1>1, <1>2, <1>4 DEF BodyStep, HolderStep
<1>6. r \in Rivals(k)'
  BY <1>4, <1>5 DEF Rivals, Indexed
<1> QED
  BY <1>3, <1>6 DEF Rivals, Indexed

THEOREM DuplicatesPointAtHolders == Spec => []DuplicatesHeld
<1>1. Init => HeldByRival
  BY DEF Init, HeldByRival
<1>2. TypeInv /\ HashInv /\ HeldByRival /\ [Next]_vars => HeldByRival'
  BY HeldByRivalNext DEF HashInv
<1>3. HashInv /\ HeldByRival => DuplicatesHeld
  BY DEF HashInv, UniqueHash, HeldByRival, DuplicatesHeld, Rivals
<1> QED
  BY <1>1, <1>2, <1>3, TypeInvariant, HashInvariant, PTL DEF Spec


=============================================================================
