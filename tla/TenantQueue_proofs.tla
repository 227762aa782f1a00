------------------------- MODULE TenantQueue_proofs -------------------------
(***************************************************************************)
(* Theorems about TenantQueue, for all requests and every fault bound.     *)
(***************************************************************************)
EXTENDS TenantQueue, TLAPS

-----------------------------------------------------------------------------
(* Types *)

LEMMA LockType ==
    ASSUME lock \in Procs \cup {"free"}, [Next]_vars
    PROVE  lock' \in Procs \cup {"free"}
<1>0. ASSUME UNCHANGED lock
      PROVE  lock' \in Procs \cup {"free"}
  BY <1>0
<1>1. ASSUME NEW e \in Enqueuers, EnqStep(e) \/ EnqError(e) \/ JobStep(e)
      PROVE  lock' \in Procs \cup {"free"}
  BY <1>0, <1>1 DEF EnqStep, JobStep, EnqCommit, EnqCheck, EnqPut, EnqError, JobStart,
      JobEnd, db, files
<1>2. ASSUME NEW p \in Procs, Crash(p) \/ LockStep(p) \/ LockFault(p)
      PROVE  lock' \in Procs \cup {"free"}
  <2>1. CASE Acquire(p)
    BY <1>2, <2>1 DEF Acquire, Procs
  <2>2. CASE Release(p)
    BY <1>2, <2>2 DEF Release, Procs
  <2>3. ASSUME AcquireTimeout(p) \/ ReleaseError(p) \/ Crash(p)
        PROVE  UNCHANGED lock
    BY <2>3 DEF AcquireTimeout, ReleaseError, Crash, db, files
  <2> QED
    BY <1>0, <1>2, <2>1, <2>2, <2>3 DEF LockStep, LockFault
<1>3. ASSUME NEW p \in Erasers \cup Deleters, BarrierStep(p) \/ CloseError(p) \/ ReopenError(p) \/ VerifyError(p)
      PROVE  lock' \in Procs \cup {"free"}
  BY <1>0, <1>3 DEF BarrierStep, Close, Reopen, CloseError, ReopenError, VerifyError, db,
      files
<1>4. ASSUME NEW a \in Erasers, EraBegin(a) \/ EraStep(a) \/ EraFault(a)
      PROVE  lock' \in Procs \cup {"free"}
  BY <1>0, <1>4 DEF EraStep, EraFault, EraBegin, EraFind, EraLock, EraStage, EraCommit,
      EraVerify, EraRestore, EraPurge, EraDelete, EraFindError, EraRollback, EraCommitError,
      EraPurgeError, db, files
<1>5. ASSUME NEW d \in Deleters, DelBegin(d) \/ DelStep(d) \/ DelFault(d)
      PROVE  lock' \in Procs \cup {"free"}
  BY <1>0, <1>5 DEF DelStep, DelFault, DelBegin, DelFlock, DelFind, DelNoDirectory,
      DelCommit, DelMissing, DelVerify, DelPurge, DelDelete, DelError, DelCommitError,
      DelPurgeError, db, files
<1>6. CASE LockExpire
  BY <1>6 DEF LockExpire, Procs
<1>7. CASE Overrun
  BY <1>7 DEF Overrun, Procs
<1> QED
  BY <1>0, <1>1, <1>2, <1>3, <1>4, <1>5, <1>6, <1>7, Zenon DEF Next, vars

LEMMA OverranType ==
    ASSUME overran \in BOOLEAN, [Next]_vars
    PROVE  overran' \in BOOLEAN
<1>0. ASSUME UNCHANGED overran
      PROVE  overran' \in BOOLEAN
  BY <1>0
<1>1. ASSUME NEW e \in Enqueuers, EnqStep(e) \/ EnqError(e) \/ JobStep(e)
      PROVE  overran' \in BOOLEAN
  BY <1>0, <1>1 DEF EnqStep, JobStep, EnqCommit, EnqCheck, EnqPut, EnqError, JobStart,
      JobEnd, db, files
<1>2. ASSUME NEW p \in Procs, Crash(p) \/ LockStep(p) \/ LockFault(p)
      PROVE  overran' \in BOOLEAN
  BY <1>0, <1>2 DEF LockStep, LockFault, Acquire, Release, AcquireTimeout, ReleaseError,
      Crash, db, files
<1>3. ASSUME NEW p \in Erasers \cup Deleters, BarrierStep(p) \/ CloseError(p) \/ ReopenError(p) \/ VerifyError(p)
      PROVE  overran' \in BOOLEAN
  BY <1>0, <1>3 DEF BarrierStep, Close, Reopen, CloseError, ReopenError, VerifyError, db,
      files
<1>4. ASSUME NEW a \in Erasers, EraBegin(a) \/ EraStep(a) \/ EraFault(a)
      PROVE  overran' \in BOOLEAN
  BY <1>0, <1>4 DEF EraStep, EraFault, EraBegin, EraFind, EraLock, EraStage, EraCommit,
      EraVerify, EraRestore, EraPurge, EraDelete, EraFindError, EraRollback, EraCommitError,
      EraPurgeError, db, files
<1>5. ASSUME NEW d \in Deleters, DelBegin(d) \/ DelStep(d) \/ DelFault(d)
      PROVE  overran' \in BOOLEAN
  BY <1>0, <1>5 DEF DelStep, DelFault, DelBegin, DelFlock, DelFind, DelNoDirectory,
      DelCommit, DelMissing, DelVerify, DelPurge, DelDelete, DelError, DelCommitError,
      DelPurgeError, db, files
<1>6. CASE LockExpire
  BY <1>0, <1>6 DEF LockExpire, db, files
<1>7. CASE Overrun
  BY <1>7 DEF Overrun
<1> QED
  BY <1>0, <1>1, <1>2, <1>3, <1>4, <1>5, <1>6, <1>7, Zenon DEF Next, vars

LEMMA ClosedType ==
    ASSUME closed \in BOOLEAN, [Next]_vars
    PROVE  closed' \in BOOLEAN
<1>0. ASSUME UNCHANGED closed
      PROVE  closed' \in BOOLEAN
  BY <1>0
<1>1. ASSUME NEW e \in Enqueuers, EnqStep(e) \/ EnqError(e) \/ JobStep(e)
      PROVE  closed' \in BOOLEAN
  BY <1>0, <1>1 DEF EnqStep, JobStep, EnqCommit, EnqCheck, EnqPut, EnqError, JobStart,
      JobEnd, db, files
<1>2. ASSUME NEW p \in Procs, Crash(p) \/ LockStep(p) \/ LockFault(p)
      PROVE  closed' \in BOOLEAN
  BY <1>0, <1>2 DEF LockStep, LockFault, Acquire, Release, AcquireTimeout, ReleaseError,
      Crash, db, files
<1>3. ASSUME NEW p \in Erasers \cup Deleters, BarrierStep(p) \/ CloseError(p) \/ ReopenError(p) \/ VerifyError(p)
      PROVE  closed' \in BOOLEAN
  <2>1. CASE Close(p)
    BY <1>3, <2>1 DEF Close
  <2>2. CASE Reopen(p)
    BY <1>3, <2>2 DEF Reopen
  <2>3. CASE CloseError(p)
    BY <1>3, <2>3 DEF CloseError
  <2>4. CASE ReopenError(p)
    BY <1>3, <2>4 DEF ReopenError
  <2>5. ASSUME VerifyError(p)
        PROVE  UNCHANGED closed
    BY <2>5 DEF VerifyError, db, files
  <2> QED
    BY <1>0, <1>3, <2>1, <2>2, <2>3, <2>4, <2>5 DEF BarrierStep
<1>4. ASSUME NEW a \in Erasers, EraBegin(a) \/ EraStep(a) \/ EraFault(a)
      PROVE  closed' \in BOOLEAN
  BY <1>0, <1>4 DEF EraStep, EraFault, EraBegin, EraFind, EraLock, EraStage, EraCommit,
      EraVerify, EraRestore, EraPurge, EraDelete, EraFindError, EraRollback, EraCommitError,
      EraPurgeError, db, files
<1>5. ASSUME NEW d \in Deleters, DelBegin(d) \/ DelStep(d) \/ DelFault(d)
      PROVE  closed' \in BOOLEAN
  BY <1>0, <1>5 DEF DelStep, DelFault, DelBegin, DelFlock, DelFind, DelNoDirectory,
      DelCommit, DelMissing, DelVerify, DelPurge, DelDelete, DelError, DelCommitError,
      DelPurgeError, db, files
<1>6. CASE LockExpire
  BY <1>0, <1>6 DEF LockExpire, db, files
<1>7. CASE Overrun
  BY <1>0, <1>7 DEF Overrun, db, files
<1> QED
  BY <1>0, <1>1, <1>2, <1>3, <1>4, <1>5, <1>6, <1>7, Zenon DEF Next, vars

LEMMA ErasedType ==
    ASSUME erased \in BOOLEAN, [Next]_vars
    PROVE  erased' \in BOOLEAN
<1>0. ASSUME UNCHANGED erased
      PROVE  erased' \in BOOLEAN
  BY <1>0
<1>1. ASSUME NEW e \in Enqueuers, EnqStep(e) \/ EnqError(e) \/ JobStep(e)
      PROVE  erased' \in BOOLEAN
  BY <1>0, <1>1 DEF EnqStep, JobStep, EnqCommit, EnqCheck, EnqPut, EnqError, JobStart,
      JobEnd, db, files
<1>2. ASSUME NEW p \in Procs, Crash(p) \/ LockStep(p) \/ LockFault(p)
      PROVE  erased' \in BOOLEAN
  BY <1>0, <1>2 DEF LockStep, LockFault, Acquire, Release, AcquireTimeout, ReleaseError,
      Crash, db, files
<1>3. ASSUME NEW p \in Erasers \cup Deleters, BarrierStep(p) \/ CloseError(p) \/ ReopenError(p) \/ VerifyError(p)
      PROVE  erased' \in BOOLEAN
  BY <1>0, <1>3 DEF BarrierStep, Close, Reopen, CloseError, ReopenError, VerifyError, db,
      files
<1>4. ASSUME NEW a \in Erasers, EraBegin(a) \/ EraStep(a) \/ EraFault(a)
      PROVE  erased' \in BOOLEAN
  <2>1. CASE EraCommit(a)
    BY <1>4, <2>1 DEF EraCommit, EraseRows
  <2>2. CASE EraCommitError(a)
    BY <1>4, <2>2 DEF EraCommitError, EraseRows
  <2>3. ASSUME EraBegin(a) \/ EraFind(a) \/ EraLock(a) \/ EraStage(a) \/ EraVerify(a) \/
             EraRestore(a) \/ EraPurge(a) \/ EraDelete(a) \/ EraFindError(a) \/ EraRollback(a) \/
             EraPurgeError(a)
        PROVE  UNCHANGED erased
    BY <2>3 DEF EraBegin, EraFind, EraLock, EraStage, EraVerify, EraRestore, EraPurge,
        EraDelete, EraFindError, EraRollback, EraPurgeError, db, files
  <2> QED
    BY <1>0, <1>4, <2>1, <2>2, <2>3 DEF EraStep, EraFault
<1>5. ASSUME NEW d \in Deleters, DelBegin(d) \/ DelStep(d) \/ DelFault(d)
      PROVE  erased' \in BOOLEAN
  BY <1>0, <1>5 DEF DelStep, DelFault, DelBegin, DelFlock, DelFind, DelNoDirectory,
      DelCommit, DelMissing, DelVerify, DelPurge, DelDelete, DelError, DelCommitError,
      DelPurgeError, db, files
<1>6. CASE LockExpire
  BY <1>0, <1>6 DEF LockExpire, db, files
<1>7. CASE Overrun
  BY <1>0, <1>7 DEF Overrun, db, files
<1> QED
  BY <1>0, <1>1, <1>2, <1>3, <1>4, <1>5, <1>6, <1>7, Zenon DEF Next, vars

LEMMA DbLockType ==
    ASSUME dbLock \in Erasers \cup {"free"}, [Next]_vars
    PROVE  dbLock' \in Erasers \cup {"free"}
<1>0. ASSUME UNCHANGED dbLock
      PROVE  dbLock' \in Erasers \cup {"free"}
  BY <1>0
<1>1. ASSUME NEW e \in Enqueuers, EnqStep(e) \/ EnqError(e) \/ JobStep(e)
      PROVE  dbLock' \in Erasers \cup {"free"}
  BY <1>0, <1>1 DEF EnqStep, JobStep, EnqCommit, EnqCheck, EnqPut, EnqError, JobStart,
      JobEnd, db, files
<1>2. ASSUME NEW p \in Procs, Crash(p) \/ LockStep(p) \/ LockFault(p)
      PROVE  dbLock' \in Erasers \cup {"free"}
  <2>1. CASE Crash(p)
    BY <1>2, <2>1 DEF Crash
  <2>2. ASSUME Acquire(p) \/ Release(p) \/ AcquireTimeout(p) \/ ReleaseError(p)
        PROVE  UNCHANGED dbLock
    BY <2>2 DEF Acquire, Release, AcquireTimeout, ReleaseError, db, files
  <2> QED
    BY <1>0, <1>2, <2>1, <2>2 DEF LockStep, LockFault
<1>3. ASSUME NEW p \in Erasers \cup Deleters, BarrierStep(p) \/ CloseError(p) \/ ReopenError(p) \/ VerifyError(p)
      PROVE  dbLock' \in Erasers \cup {"free"}
  BY <1>0, <1>3 DEF BarrierStep, Close, Reopen, CloseError, ReopenError, VerifyError, db,
      files
<1>4. ASSUME NEW a \in Erasers, EraBegin(a) \/ EraStep(a) \/ EraFault(a)
      PROVE  dbLock' \in Erasers \cup {"free"}
  <2>1. CASE EraLock(a)
    BY <1>4, <2>1 DEF EraLock
  <2>2. CASE EraCommit(a)
    BY <1>4, <2>2 DEF EraCommit
  <2>3. CASE EraRollback(a)
    BY <1>4, <2>3 DEF EraRollback
  <2>4. CASE EraCommitError(a)
    BY <1>4, <2>4 DEF EraCommitError
  <2>5. ASSUME EraBegin(a) \/ EraFind(a) \/ EraStage(a) \/ EraVerify(a) \/ EraRestore(a) \/
             EraPurge(a) \/ EraDelete(a) \/ EraFindError(a) \/ EraPurgeError(a)
        PROVE  UNCHANGED dbLock
    BY <2>5 DEF EraBegin, EraFind, EraStage, EraVerify, EraRestore, EraPurge, EraDelete,
        EraFindError, EraPurgeError, db, files
  <2> QED
    BY <1>0, <1>4, <2>1, <2>2, <2>3, <2>4, <2>5 DEF EraStep, EraFault
<1>5. ASSUME NEW d \in Deleters, DelBegin(d) \/ DelStep(d) \/ DelFault(d)
      PROVE  dbLock' \in Erasers \cup {"free"}
  BY <1>0, <1>5 DEF DelStep, DelFault, DelBegin, DelFlock, DelFind, DelNoDirectory,
      DelCommit, DelMissing, DelVerify, DelPurge, DelDelete, DelError, DelCommitError,
      DelPurgeError, db, files
<1>6. CASE LockExpire
  BY <1>0, <1>6 DEF LockExpire, db, files
<1>7. CASE Overrun
  BY <1>0, <1>7 DEF Overrun, db, files
<1> QED
  BY <1>0, <1>1, <1>2, <1>3, <1>4, <1>5, <1>6, <1>7, Zenon DEF Next, vars

LEMMA RowType ==
    ASSUME row \in [Enqueuers -> {"none", "live", "deleted"}], [Next]_vars
    PROVE  row' \in [Enqueuers -> {"none", "live", "deleted"}]
<1>0. ASSUME UNCHANGED row
      PROVE  row' \in [Enqueuers -> {"none", "live", "deleted"}]
  BY <1>0
<1>1. ASSUME NEW e \in Enqueuers, EnqStep(e) \/ EnqError(e) \/ JobStep(e)
      PROVE  row' \in [Enqueuers -> {"none", "live", "deleted"}]
  <2>1. CASE EnqCommit(e)
    BY <1>1, <2>1 DEF EnqCommit
  <2>2. ASSUME EnqCheck(e) \/ EnqPut(e) \/ EnqError(e) \/ JobStart(e) \/ JobEnd(e)
        PROVE  UNCHANGED row
    BY <2>2 DEF EnqCheck, EnqPut, EnqError, JobStart, JobEnd, db, files
  <2> QED
    BY <1>0, <1>1, <2>1, <2>2 DEF EnqStep, JobStep
<1>2. ASSUME NEW p \in Procs, Crash(p) \/ LockStep(p) \/ LockFault(p)
      PROVE  row' \in [Enqueuers -> {"none", "live", "deleted"}]
  BY <1>0, <1>2 DEF LockStep, LockFault, Acquire, Release, AcquireTimeout, ReleaseError,
      Crash, db, files
<1>3. ASSUME NEW p \in Erasers \cup Deleters, BarrierStep(p) \/ CloseError(p) \/ ReopenError(p) \/ VerifyError(p)
      PROVE  row' \in [Enqueuers -> {"none", "live", "deleted"}]
  BY <1>0, <1>3 DEF BarrierStep, Close, Reopen, CloseError, ReopenError, VerifyError, db,
      files
<1>4. ASSUME NEW a \in Erasers, EraBegin(a) \/ EraStep(a) \/ EraFault(a)
      PROVE  row' \in [Enqueuers -> {"none", "live", "deleted"}]
  <2>1. CASE EraCommit(a)
    BY <1>4, <2>1 DEF EraCommit, EraseRows
  <2>2. CASE EraCommitError(a)
    BY <1>4, <2>2 DEF EraCommitError, EraseRows
  <2>3. ASSUME EraBegin(a) \/ EraFind(a) \/ EraLock(a) \/ EraStage(a) \/ EraVerify(a) \/
             EraRestore(a) \/ EraPurge(a) \/ EraDelete(a) \/ EraFindError(a) \/ EraRollback(a) \/
             EraPurgeError(a)
        PROVE  UNCHANGED row
    BY <2>3 DEF EraBegin, EraFind, EraLock, EraStage, EraVerify, EraRestore, EraPurge,
        EraDelete, EraFindError, EraRollback, EraPurgeError, db, files
  <2> QED
    BY <1>0, <1>4, <2>1, <2>2, <2>3 DEF EraStep, EraFault
<1>5. ASSUME NEW d \in Deleters, DelBegin(d) \/ DelStep(d) \/ DelFault(d)
      PROVE  row' \in [Enqueuers -> {"none", "live", "deleted"}]
  <2>1. CASE DelCommit(d)
    BY <1>5, <2>1 DEF DelCommit, DeleteRow
  <2>2. CASE DelCommitError(d)
    BY <1>5, <2>2 DEF DelCommitError, DeleteRow
  <2>3. ASSUME DelBegin(d) \/ DelFlock(d) \/ DelFind(d) \/ DelNoDirectory(d) \/ DelMissing(d) \/
             DelVerify(d) \/ DelPurge(d) \/ DelDelete(d) \/ DelError(d) \/ DelPurgeError(d)
        PROVE  UNCHANGED row
    BY <2>3 DEF DelBegin, DelFlock, DelFind, DelNoDirectory, DelMissing, DelVerify,
        DelPurge, DelDelete, DelError, DelPurgeError, db, files
  <2> QED
    BY <1>0, <1>5, <2>1, <2>2, <2>3 DEF DelStep, DelFault
<1>6. CASE LockExpire
  BY <1>0, <1>6 DEF LockExpire, db, files
<1>7. CASE Overrun
  BY <1>0, <1>7 DEF Overrun, db, files
<1> QED
  BY <1>0, <1>1, <1>2, <1>3, <1>4, <1>5, <1>6, <1>7, Zenon DEF Next, vars

LEMMA QueueType ==
    ASSUME queue \in [Enqueuers -> {"none", "queued", "running"}], [Next]_vars
    PROVE  queue' \in [Enqueuers -> {"none", "queued", "running"}]
<1>0. ASSUME UNCHANGED queue
      PROVE  queue' \in [Enqueuers -> {"none", "queued", "running"}]
  BY <1>0
<1>1. ASSUME NEW e \in Enqueuers, EnqStep(e) \/ EnqError(e) \/ JobStep(e)
      PROVE  queue' \in [Enqueuers -> {"none", "queued", "running"}]
  <2>1. CASE EnqPut(e)
    BY <1>1, <2>1 DEF EnqPut
  <2>2. CASE JobStart(e)
    BY <1>1, <2>2 DEF JobStart
  <2>3. CASE JobEnd(e)
    BY <1>1, <2>3 DEF JobEnd
  <2>4. ASSUME EnqCommit(e) \/ EnqCheck(e) \/ EnqError(e)
        PROVE  UNCHANGED queue
    BY <2>4 DEF EnqCommit, EnqCheck, EnqError, db, files
  <2> QED
    BY <1>0, <1>1, <2>1, <2>2, <2>3, <2>4 DEF EnqStep, JobStep
<1>2. ASSUME NEW p \in Procs, Crash(p) \/ LockStep(p) \/ LockFault(p)
      PROVE  queue' \in [Enqueuers -> {"none", "queued", "running"}]
  BY <1>0, <1>2 DEF LockStep, LockFault, Acquire, Release, AcquireTimeout, ReleaseError,
      Crash, db, files
<1>3. ASSUME NEW p \in Erasers \cup Deleters, BarrierStep(p) \/ CloseError(p) \/ ReopenError(p) \/ VerifyError(p)
      PROVE  queue' \in [Enqueuers -> {"none", "queued", "running"}]
  BY <1>0, <1>3 DEF BarrierStep, Close, Reopen, CloseError, ReopenError, VerifyError, db,
      files
<1>4. ASSUME NEW a \in Erasers, EraBegin(a) \/ EraStep(a) \/ EraFault(a)
      PROVE  queue' \in [Enqueuers -> {"none", "queued", "running"}]
  <2>1. CASE EraPurge(a)
    BY <1>4, <2>1 DEF EraPurge
  <2>2. ASSUME EraBegin(a) \/ EraFind(a) \/ EraLock(a) \/ EraStage(a) \/ EraCommit(a) \/ EraVerify(a) \/
             EraRestore(a) \/ EraDelete(a) \/ EraFindError(a) \/ EraRollback(a) \/
             EraCommitError(a) \/ EraPurgeError(a)
        PROVE  UNCHANGED queue
    BY <2>2 DEF EraBegin, EraFind, EraLock, EraStage, EraCommit, EraVerify, EraRestore,
        EraDelete, EraFindError, EraRollback, EraCommitError, EraPurgeError, db, files
  <2> QED
    BY <1>0, <1>4, <2>1, <2>2 DEF EraStep, EraFault
<1>5. ASSUME NEW d \in Deleters, DelBegin(d) \/ DelStep(d) \/ DelFault(d)
      PROVE  queue' \in [Enqueuers -> {"none", "queued", "running"}]
  <2>1. CASE DelPurge(d)
    BY <1>5, <2>1 DEF DelPurge
  <2>2. ASSUME DelBegin(d) \/ DelFlock(d) \/ DelFind(d) \/ DelNoDirectory(d) \/ DelCommit(d) \/
             DelMissing(d) \/ DelVerify(d) \/ DelDelete(d) \/ DelError(d) \/ DelCommitError(d) \/
             DelPurgeError(d)
        PROVE  UNCHANGED queue
    BY <2>2 DEF DelBegin, DelFlock, DelFind, DelNoDirectory, DelCommit, DelMissing,
        DelVerify, DelDelete, DelError, DelCommitError, DelPurgeError, db, files
  <2> QED
    BY <1>0, <1>5, <2>1, <2>2 DEF DelStep, DelFault
<1>6. CASE LockExpire
  BY <1>0, <1>6 DEF LockExpire, db, files
<1>7. CASE Overrun
  BY <1>0, <1>7 DEF Overrun, db, files
<1> QED
  BY <1>0, <1>1, <1>2, <1>3, <1>4, <1>5, <1>6, <1>7, Zenon DEF Next, vars

LEMMA PathType ==
    ASSUME path \in {"absent", "dir", "file"}, staged \in [Erasers -> {"none", "dir", "file"}], [Next]_vars
    PROVE  path' \in {"absent", "dir", "file"}
<1>0. ASSUME UNCHANGED path
      PROVE  path' \in {"absent", "dir", "file"}
  BY <1>0
<1>1. ASSUME NEW e \in Enqueuers, EnqStep(e) \/ EnqError(e) \/ JobStep(e)
      PROVE  path' \in {"absent", "dir", "file"}
  BY <1>0, <1>1 DEF EnqStep, JobStep, EnqCommit, EnqCheck, EnqPut, EnqError, JobStart,
      JobEnd, db, files
<1>2. ASSUME NEW p \in Procs, Crash(p) \/ LockStep(p) \/ LockFault(p)
      PROVE  path' \in {"absent", "dir", "file"}
  BY <1>0, <1>2 DEF LockStep, LockFault, Acquire, Release, AcquireTimeout, ReleaseError,
      Crash, db, files
<1>3. ASSUME NEW p \in Erasers \cup Deleters, BarrierStep(p) \/ CloseError(p) \/ ReopenError(p) \/ VerifyError(p)
      PROVE  path' \in {"absent", "dir", "file"}
  BY <1>0, <1>3 DEF BarrierStep, Close, Reopen, CloseError, ReopenError, VerifyError, db,
      files
<1>4. ASSUME NEW a \in Erasers, EraBegin(a) \/ EraStep(a) \/ EraFault(a)
      PROVE  path' \in {"absent", "dir", "file"}
  <2>1. CASE EraStage(a)
    BY <1>4, <2>1 DEF EraStage
  <2>2. CASE EraRestore(a)
    BY <1>4, <2>2 DEF EraRestore
  <2>3. ASSUME EraBegin(a) \/ EraFind(a) \/ EraLock(a) \/ EraCommit(a) \/ EraVerify(a) \/ EraPurge(a) \/
             EraDelete(a) \/ EraFindError(a) \/ EraRollback(a) \/ EraCommitError(a) \/
             EraPurgeError(a)
        PROVE  UNCHANGED path
    BY <2>3 DEF EraBegin, EraFind, EraLock, EraCommit, EraVerify, EraPurge, EraDelete,
        EraFindError, EraRollback, EraCommitError, EraPurgeError, db, files
  <2> QED
    BY <1>0, <1>4, <2>1, <2>2, <2>3 DEF EraStep, EraFault
<1>5. ASSUME NEW d \in Deleters, DelBegin(d) \/ DelStep(d) \/ DelFault(d)
      PROVE  path' \in {"absent", "dir", "file"}
  <2>1. CASE DelBegin(d)
    BY <1>5, <2>1 DEF DelBegin
  <2>2. CASE DelFind(d)
    BY <1>5, <2>2 DEF DelFind
  <2>3. ASSUME DelFlock(d) \/ DelNoDirectory(d) \/ DelCommit(d) \/ DelMissing(d) \/ DelVerify(d) \/
             DelPurge(d) \/ DelDelete(d) \/ DelError(d) \/ DelCommitError(d) \/ DelPurgeError(d)
        PROVE  UNCHANGED path
    BY <2>3 DEF DelFlock, DelNoDirectory, DelCommit, DelMissing, DelVerify, DelPurge,
        DelDelete, DelError, DelCommitError, DelPurgeError, db, files
  <2> QED
    BY <1>0, <1>5, <2>1, <2>2, <2>3 DEF DelStep, DelFault
<1>6. CASE LockExpire
  BY <1>0, <1>6 DEF LockExpire, db, files
<1>7. CASE Overrun
  BY <1>0, <1>7 DEF Overrun, db, files
<1> QED
  BY <1>0, <1>1, <1>2, <1>3, <1>4, <1>5, <1>6, <1>7, Zenon DEF Next, vars

LEMMA AuditedType ==
    ASSUME audited \in SUBSET (Erasers \cup Deleters), [Next]_vars
    PROVE  audited' \in SUBSET (Erasers \cup Deleters)
<1>0. ASSUME UNCHANGED audited
      PROVE  audited' \in SUBSET (Erasers \cup Deleters)
  BY <1>0
<1>1. ASSUME NEW e \in Enqueuers, EnqStep(e) \/ EnqError(e) \/ JobStep(e)
      PROVE  audited' \in SUBSET (Erasers \cup Deleters)
  BY <1>0, <1>1 DEF EnqStep, JobStep, EnqCommit, EnqCheck, EnqPut, EnqError, JobStart,
      JobEnd, db, files
<1>2. ASSUME NEW p \in Procs, Crash(p) \/ LockStep(p) \/ LockFault(p)
      PROVE  audited' \in SUBSET (Erasers \cup Deleters)
  BY <1>0, <1>2 DEF LockStep, LockFault, Acquire, Release, AcquireTimeout, ReleaseError,
      Crash, db, files
<1>3. ASSUME NEW p \in Erasers \cup Deleters, BarrierStep(p) \/ CloseError(p) \/ ReopenError(p) \/ VerifyError(p)
      PROVE  audited' \in SUBSET (Erasers \cup Deleters)
  BY <1>0, <1>3 DEF BarrierStep, Close, Reopen, CloseError, ReopenError, VerifyError, db,
      files
<1>4. ASSUME NEW a \in Erasers, EraBegin(a) \/ EraStep(a) \/ EraFault(a)
      PROVE  audited' \in SUBSET (Erasers \cup Deleters)
  <2>1. CASE EraCommit(a)
    BY <1>4, <2>1 DEF EraCommit, EraseRows
  <2>2. CASE EraCommitError(a)
    BY <1>4, <2>2 DEF EraCommitError, EraseRows
  <2>3. ASSUME EraBegin(a) \/ EraFind(a) \/ EraLock(a) \/ EraStage(a) \/ EraVerify(a) \/
             EraRestore(a) \/ EraPurge(a) \/ EraDelete(a) \/ EraFindError(a) \/ EraRollback(a) \/
             EraPurgeError(a)
        PROVE  UNCHANGED audited
    BY <2>3 DEF EraBegin, EraFind, EraLock, EraStage, EraVerify, EraRestore, EraPurge,
        EraDelete, EraFindError, EraRollback, EraPurgeError, db, files
  <2> QED
    BY <1>0, <1>4, <2>1, <2>2, <2>3 DEF EraStep, EraFault
<1>5. ASSUME NEW d \in Deleters, DelBegin(d) \/ DelStep(d) \/ DelFault(d)
      PROVE  audited' \in SUBSET (Erasers \cup Deleters)
  <2>1. CASE DelCommit(d)
    BY <1>5, <2>1 DEF DelCommit, DeleteRow
  <2>2. CASE DelCommitError(d)
    BY <1>5, <2>2 DEF DelCommitError, DeleteRow
  <2>3. ASSUME DelBegin(d) \/ DelFlock(d) \/ DelFind(d) \/ DelNoDirectory(d) \/ DelMissing(d) \/
             DelVerify(d) \/ DelPurge(d) \/ DelDelete(d) \/ DelError(d) \/ DelPurgeError(d)
        PROVE  UNCHANGED audited
    BY <2>3 DEF DelBegin, DelFlock, DelFind, DelNoDirectory, DelMissing, DelVerify,
        DelPurge, DelDelete, DelError, DelPurgeError, db, files
  <2> QED
    BY <1>0, <1>5, <2>1, <2>2, <2>3 DEF DelStep, DelFault
<1>6. CASE LockExpire
  BY <1>0, <1>6 DEF LockExpire, db, files
<1>7. CASE Overrun
  BY <1>0, <1>7 DEF Overrun, db, files
<1> QED
  BY <1>0, <1>1, <1>2, <1>3, <1>4, <1>5, <1>6, <1>7, Zenon DEF Next, vars

LEMMA FoundType ==
    ASSUME found \in [Erasers \cup Deleters -> SUBSET Enqueuers], [Next]_vars
    PROVE  found' \in [Erasers \cup Deleters -> SUBSET Enqueuers]
<1>0. ASSUME UNCHANGED found
      PROVE  found' \in [Erasers \cup Deleters -> SUBSET Enqueuers]
  BY <1>0
<1>1. ASSUME NEW e \in Enqueuers, EnqStep(e) \/ EnqError(e) \/ JobStep(e)
      PROVE  found' \in [Erasers \cup Deleters -> SUBSET Enqueuers]
  BY <1>0, <1>1 DEF EnqStep, JobStep, EnqCommit, EnqCheck, EnqPut, EnqError, JobStart,
      JobEnd, db, files
<1>2. ASSUME NEW p \in Procs, Crash(p) \/ LockStep(p) \/ LockFault(p)
      PROVE  found' \in [Erasers \cup Deleters -> SUBSET Enqueuers]
  BY <1>0, <1>2 DEF LockStep, LockFault, Acquire, Release, AcquireTimeout, ReleaseError,
      Crash, db, files
<1>3. ASSUME NEW p \in Erasers \cup Deleters, BarrierStep(p) \/ CloseError(p) \/ ReopenError(p) \/ VerifyError(p)
      PROVE  found' \in [Erasers \cup Deleters -> SUBSET Enqueuers]
  BY <1>0, <1>3 DEF BarrierStep, Close, Reopen, CloseError, ReopenError, VerifyError, db,
      files
<1>4. ASSUME NEW a \in Erasers, EraBegin(a) \/ EraStep(a) \/ EraFault(a)
      PROVE  found' \in [Erasers \cup Deleters -> SUBSET Enqueuers]
  <2>1. CASE EraPurge(a)
    BY <1>4, <2>1, ItemAssumption DEF EraPurge
  <2>2. ASSUME EraBegin(a) \/ EraFind(a) \/ EraLock(a) \/ EraStage(a) \/ EraCommit(a) \/ EraVerify(a) \/
             EraRestore(a) \/ EraDelete(a) \/ EraFindError(a) \/ EraRollback(a) \/
             EraCommitError(a) \/ EraPurgeError(a)
        PROVE  UNCHANGED found
    BY <2>2 DEF EraBegin, EraFind, EraLock, EraStage, EraCommit, EraVerify, EraRestore,
        EraDelete, EraFindError, EraRollback, EraCommitError, EraPurgeError, db, files
  <2> QED
    BY <1>0, <1>4, <2>1, <2>2 DEF EraStep, EraFault
<1>5. ASSUME NEW d \in Deleters, DelBegin(d) \/ DelStep(d) \/ DelFault(d)
      PROVE  found' \in [Erasers \cup Deleters -> SUBSET Enqueuers]
  <2>1. CASE DelFind(d)
    BY <1>5, <2>1, ItemAssumption DEF DelFind
  <2>2. ASSUME DelBegin(d) \/ DelFlock(d) \/ DelNoDirectory(d) \/ DelCommit(d) \/ DelMissing(d) \/
             DelVerify(d) \/ DelPurge(d) \/ DelDelete(d) \/ DelError(d) \/ DelCommitError(d) \/
             DelPurgeError(d)
        PROVE  UNCHANGED found
    BY <2>2 DEF DelBegin, DelFlock, DelNoDirectory, DelCommit, DelMissing, DelVerify,
        DelPurge, DelDelete, DelError, DelCommitError, DelPurgeError, db, files
  <2> QED
    BY <1>0, <1>5, <2>1, <2>2 DEF DelStep, DelFault
<1>6. CASE LockExpire
  BY <1>0, <1>6 DEF LockExpire, db, files
<1>7. CASE Overrun
  BY <1>0, <1>7 DEF Overrun, db, files
<1> QED
  BY <1>0, <1>1, <1>2, <1>3, <1>4, <1>5, <1>6, <1>7, Zenon DEF Next, vars

LEMMA PcType ==
    ASSUME pc \in [Procs -> PC], [Next]_vars
    PROVE  pc' \in [Procs -> PC]
<1>0. ASSUME UNCHANGED pc
      PROVE  pc' \in [Procs -> PC]
  BY <1>0
<1>1. ASSUME NEW e \in Enqueuers, EnqStep(e) \/ EnqError(e) \/ JobStep(e)
      PROVE  pc' \in [Procs -> PC]
  <2>1. CASE EnqCommit(e)
    BY <1>1, <2>1 DEF EnqCommit, Goto, PC, EnqPC, ClosePC, ReopenPC, EraPC, DelPC
  <2>2. CASE EnqCheck(e)
    BY <1>1, <2>2 DEF EnqCheck, Goto, PC, EnqPC, ClosePC, ReopenPC, EraPC, DelPC
  <2>3. CASE EnqPut(e)
    BY <1>1, <2>3 DEF EnqPut, Goto, PC, EnqPC, ClosePC, ReopenPC, EraPC, DelPC
  <2>4. CASE EnqError(e)
    BY <1>1, <2>4 DEF EnqError, Goto, PC, EnqPC, ClosePC, ReopenPC, EraPC, DelPC
  <2>5. ASSUME JobStart(e) \/ JobEnd(e)
        PROVE  UNCHANGED pc
    BY <2>5 DEF JobStart, JobEnd, db, files
  <2> QED
    BY <1>0, <1>1, <2>1, <2>2, <2>3, <2>4, <2>5 DEF EnqStep, JobStep
<1>2. ASSUME NEW p \in Procs, Crash(p) \/ LockStep(p) \/ LockFault(p)
      PROVE  pc' \in [Procs -> PC]
  <2>1. CASE Acquire(p)
    BY <1>2, <2>1 DEF Acquire, Goto, AfterAcquire, Waiting, PC, EnqPC, ClosePC, ReopenPC,
        EraPC, DelPC
  <2>2. CASE Release(p)
    BY <1>2, <2>2 DEF Release, Goto, AfterRelease, PC, EnqPC, ClosePC, ReopenPC, EraPC,
        DelPC
  <2>3. CASE AcquireTimeout(p)
    BY <1>2, <2>3 DEF AcquireTimeout, Goto, Waiting, PC, EnqPC, ClosePC, ReopenPC, EraPC,
        DelPC
  <2>4. CASE ReleaseError(p)
    BY <1>2, <2>4 DEF ReleaseError, Goto, PC, EnqPC, ClosePC, ReopenPC, EraPC, DelPC
  <2>5. CASE Crash(p)
    BY <1>2, <2>5 DEF Crash, Goto, PC, EnqPC, ClosePC, ReopenPC, EraPC, DelPC
  <2> QED
    BY <1>0, <1>2, <2>1, <2>2, <2>3, <2>4, <2>5 DEF LockStep, LockFault
<1>3. ASSUME NEW p \in Erasers \cup Deleters, BarrierStep(p) \/ CloseError(p) \/ ReopenError(p) \/ VerifyError(p)
      PROVE  pc' \in [Procs -> PC]
  <2>1. CASE Close(p)
    BY <1>3, <2>1 DEF Close, Goto, PC, EnqPC, ClosePC, ReopenPC, EraPC, DelPC
  <2>2. CASE Reopen(p)
    BY <1>3, <2>2 DEF Reopen, Goto, PC, EnqPC, ClosePC, ReopenPC, EraPC, DelPC
  <2>3. CASE CloseError(p)
    BY <1>3, <2>3 DEF CloseError, Goto, PC, EnqPC, ClosePC, ReopenPC, EraPC, DelPC
  <2>4. CASE ReopenError(p)
    BY <1>3, <2>4 DEF ReopenError, Goto, PC, EnqPC, ClosePC, ReopenPC, EraPC, DelPC
  <2>5. CASE VerifyError(p)
    BY <1>3, <2>5 DEF VerifyError, Goto, PC, EnqPC, ClosePC, ReopenPC, EraPC, DelPC
  <2> QED
    BY <1>0, <1>3, <2>1, <2>2, <2>3, <2>4, <2>5 DEF BarrierStep
<1>4. ASSUME NEW a \in Erasers, EraBegin(a) \/ EraStep(a) \/ EraFault(a)
      PROVE  pc' \in [Procs -> PC]
  <2>1. CASE EraBegin(a)
    BY <1>4, <2>1 DEF EraBegin, Goto, PC, EnqPC, ClosePC, ReopenPC, EraPC, DelPC
  <2>2. CASE EraFind(a)
    BY <1>4, <2>2 DEF EraFind, Goto, PC, EnqPC, ClosePC, ReopenPC, EraPC, DelPC
  <2>3. CASE EraLock(a)
    BY <1>4, <2>3 DEF EraLock, Goto, PC, EnqPC, ClosePC, ReopenPC, EraPC, DelPC
  <2>4. CASE EraStage(a)
    BY <1>4, <2>4 DEF EraStage, Goto, PC, EnqPC, ClosePC, ReopenPC, EraPC, DelPC
  <2>5. CASE EraCommit(a)
    BY <1>4, <2>5 DEF EraCommit, Goto, PC, EnqPC, ClosePC, ReopenPC, EraPC, DelPC
  <2>6. CASE EraVerify(a)
    BY <1>4, <2>6 DEF EraVerify, Goto, PC, EnqPC, ClosePC, ReopenPC, EraPC, DelPC
  <2>7. CASE EraRestore(a)
    BY <1>4, <2>7 DEF EraRestore, Goto, PC, EnqPC, ClosePC, ReopenPC, EraPC, DelPC
  <2>8. CASE EraPurge(a)
    BY <1>4, <2>8 DEF EraPurge, Goto, PC, EnqPC, ClosePC, ReopenPC, EraPC, DelPC
  <2>9. CASE EraDelete(a)
    BY <1>4, <2>9 DEF EraDelete, Goto, PC, EnqPC, ClosePC, ReopenPC, EraPC, DelPC
  <2>10. CASE EraFindError(a)
    BY <1>4, <2>10 DEF EraFindError, Goto, PC, EnqPC, ClosePC, ReopenPC, EraPC, DelPC
  <2>11. CASE EraRollback(a)
    BY <1>4, <2>11 DEF EraRollback, Goto, PC, EnqPC, ClosePC, ReopenPC, EraPC, DelPC
  <2>12. CASE EraCommitError(a)
    BY <1>4, <2>12 DEF EraCommitError, Goto, PC, EnqPC, ClosePC, ReopenPC, EraPC, DelPC
  <2>13. CASE EraPurgeError(a)
    BY <1>4, <2>13 DEF EraPurgeError, Goto, PC, EnqPC, ClosePC, ReopenPC, EraPC, DelPC
  <2> QED
    BY <1>0, <1>4, <2>1, <2>2, <2>3, <2>4, <2>5, <2>6, <2>7, <2>8, <2>9, <2>10, <2>11, <2>12, <2>13 DEF
        EraStep, EraFault
<1>5. ASSUME NEW d \in Deleters, DelBegin(d) \/ DelStep(d) \/ DelFault(d)
      PROVE  pc' \in [Procs -> PC]
  <2>1. CASE DelBegin(d)
    BY <1>5, <2>1 DEF DelBegin, Goto, PC, EnqPC, ClosePC, ReopenPC, EraPC, DelPC
  <2>2. CASE DelFlock(d)
    BY <1>5, <2>2 DEF DelFlock, Goto, PC, EnqPC, ClosePC, ReopenPC, EraPC, DelPC
  <2>3. CASE DelFind(d)
    BY <1>5, <2>3 DEF DelFind, Goto, PC, EnqPC, ClosePC, ReopenPC, EraPC, DelPC
  <2>4. CASE DelNoDirectory(d)
    BY <1>5, <2>4 DEF DelNoDirectory, Goto, PC, EnqPC, ClosePC, ReopenPC, EraPC, DelPC
  <2>5. CASE DelCommit(d)
    BY <1>5, <2>5 DEF DelCommit, Goto, PC, EnqPC, ClosePC, ReopenPC, EraPC, DelPC
  <2>6. CASE DelMissing(d)
    BY <1>5, <2>6 DEF DelMissing, Goto, PC, EnqPC, ClosePC, ReopenPC, EraPC, DelPC
  <2>7. CASE DelVerify(d)
    BY <1>5, <2>7 DEF DelVerify, Goto, PC, EnqPC, ClosePC, ReopenPC, EraPC, DelPC
  <2>8. CASE DelPurge(d)
    BY <1>5, <2>8 DEF DelPurge, Goto, PC, EnqPC, ClosePC, ReopenPC, EraPC, DelPC
  <2>9. CASE DelDelete(d)
    BY <1>5, <2>9 DEF DelDelete, Goto, PC, EnqPC, ClosePC, ReopenPC, EraPC, DelPC
  <2>10. CASE DelError(d)
    BY <1>5, <2>10 DEF DelError, Goto, PC, EnqPC, ClosePC, ReopenPC, EraPC, DelPC
  <2>11. CASE DelCommitError(d)
    BY <1>5, <2>11 DEF DelCommitError, Goto, PC, EnqPC, ClosePC, ReopenPC, EraPC, DelPC
  <2>12. CASE DelPurgeError(d)
    BY <1>5, <2>12 DEF DelPurgeError, Goto, PC, EnqPC, ClosePC, ReopenPC, EraPC, DelPC
  <2> QED
    BY <1>0, <1>5, <2>1, <2>2, <2>3, <2>4, <2>5, <2>6, <2>7, <2>8, <2>9, <2>10, <2>11, <2>12 DEF
        DelStep, DelFault
<1>6. CASE LockExpire
  BY <1>0, <1>6 DEF LockExpire, db, files
<1>7. CASE Overrun
  BY <1>0, <1>7 DEF Overrun, db, files
<1> QED
  BY <1>0, <1>1, <1>2, <1>3, <1>4, <1>5, <1>6, <1>7, Zenon DEF Next, vars

LEMMA FaultsType ==
    ASSUME faults \in 0..MaxFaults, [Next]_vars
    PROVE  faults' \in 0..MaxFaults
<1>0. ASSUME UNCHANGED faults
      PROVE  faults' \in 0..MaxFaults
  BY <1>0
<1>1. ASSUME NEW e \in Enqueuers, EnqStep(e) \/ EnqError(e) \/ JobStep(e)
      PROVE  faults' \in 0..MaxFaults
  <2>1. CASE EnqError(e)
    BY <1>1, <2>1, BoundAssumption DEF EnqError, Fault
  <2>2. ASSUME EnqCommit(e) \/ EnqCheck(e) \/ EnqPut(e) \/ JobStart(e) \/ JobEnd(e)
        PROVE  UNCHANGED faults
    BY <2>2 DEF EnqCommit, EnqCheck, EnqPut, JobStart, JobEnd, db, files
  <2> QED
    BY <1>0, <1>1, <2>1, <2>2 DEF EnqStep, JobStep
<1>2. ASSUME NEW p \in Procs, Crash(p) \/ LockStep(p) \/ LockFault(p)
      PROVE  faults' \in 0..MaxFaults
  <2>1. CASE AcquireTimeout(p)
    BY <1>2, <2>1, BoundAssumption DEF AcquireTimeout, Fault
  <2>2. CASE ReleaseError(p)
    BY <1>2, <2>2, BoundAssumption DEF ReleaseError, Fault
  <2>3. CASE Crash(p)
    BY <1>2, <2>3, BoundAssumption DEF Crash, Fault
  <2>4. ASSUME Acquire(p) \/ Release(p)
        PROVE  UNCHANGED faults
    BY <2>4 DEF Acquire, Release, db, files
  <2> QED
    BY <1>0, <1>2, <2>1, <2>2, <2>3, <2>4 DEF LockStep, LockFault
<1>3. ASSUME NEW p \in Erasers \cup Deleters, BarrierStep(p) \/ CloseError(p) \/ ReopenError(p) \/ VerifyError(p)
      PROVE  faults' \in 0..MaxFaults
  <2>1. CASE CloseError(p)
    BY <1>3, <2>1, BoundAssumption DEF CloseError, Fault
  <2>2. CASE ReopenError(p)
    BY <1>3, <2>2, BoundAssumption DEF ReopenError, Fault
  <2>3. CASE VerifyError(p)
    BY <1>3, <2>3, BoundAssumption DEF VerifyError, Fault
  <2>4. ASSUME Close(p) \/ Reopen(p)
        PROVE  UNCHANGED faults
    BY <2>4 DEF Close, Reopen, db, files
  <2> QED
    BY <1>0, <1>3, <2>1, <2>2, <2>3, <2>4 DEF BarrierStep
<1>4. ASSUME NEW a \in Erasers, EraBegin(a) \/ EraStep(a) \/ EraFault(a)
      PROVE  faults' \in 0..MaxFaults
  <2>1. CASE EraFindError(a)
    BY <1>4, <2>1, BoundAssumption DEF EraFindError, Fault
  <2>2. CASE EraRollback(a)
    BY <1>4, <2>2, BoundAssumption DEF EraRollback, Fault
  <2>3. CASE EraCommitError(a)
    BY <1>4, <2>3, BoundAssumption DEF EraCommitError, Fault
  <2>4. CASE EraPurgeError(a)
    BY <1>4, <2>4, BoundAssumption DEF EraPurgeError, Fault
  <2>5. ASSUME EraBegin(a) \/ EraFind(a) \/ EraLock(a) \/ EraStage(a) \/ EraCommit(a) \/ EraVerify(a) \/
             EraRestore(a) \/ EraPurge(a) \/ EraDelete(a)
        PROVE  UNCHANGED faults
    BY <2>5 DEF EraBegin, EraFind, EraLock, EraStage, EraCommit, EraVerify, EraRestore,
        EraPurge, EraDelete, db, files
  <2> QED
    BY <1>0, <1>4, <2>1, <2>2, <2>3, <2>4, <2>5 DEF EraStep, EraFault
<1>5. ASSUME NEW d \in Deleters, DelBegin(d) \/ DelStep(d) \/ DelFault(d)
      PROVE  faults' \in 0..MaxFaults
  <2>1. CASE DelError(d)
    BY <1>5, <2>1, BoundAssumption DEF DelError, Fault
  <2>2. CASE DelCommitError(d)
    BY <1>5, <2>2, BoundAssumption DEF DelCommitError, Fault
  <2>3. CASE DelPurgeError(d)
    BY <1>5, <2>3, BoundAssumption DEF DelPurgeError, Fault
  <2>4. ASSUME DelBegin(d) \/ DelFlock(d) \/ DelFind(d) \/ DelNoDirectory(d) \/ DelCommit(d) \/
             DelMissing(d) \/ DelVerify(d) \/ DelPurge(d) \/ DelDelete(d)
        PROVE  UNCHANGED faults
    BY <2>4 DEF DelBegin, DelFlock, DelFind, DelNoDirectory, DelCommit, DelMissing,
        DelVerify, DelPurge, DelDelete, db, files
  <2> QED
    BY <1>0, <1>5, <2>1, <2>2, <2>3, <2>4 DEF DelStep, DelFault
<1>6. CASE LockExpire
  BY <1>0, <1>6 DEF LockExpire, db, files
<1>7. CASE Overrun
  BY <1>7, BoundAssumption DEF Overrun, Fault
<1> QED
  BY <1>0, <1>1, <1>2, <1>3, <1>4, <1>5, <1>6, <1>7, Zenon DEF Next, vars

LEMMA StagedType ==
    ASSUME path \in {"absent", "dir", "file"}, staged \in [Erasers -> {"none", "dir", "file"}], [Next]_vars
    PROVE  staged' \in [Erasers -> {"none", "dir", "file"}]
<1>0. ASSUME UNCHANGED staged
      PROVE  staged' \in [Erasers -> {"none", "dir", "file"}]
  BY <1>0
<1>1. ASSUME NEW e \in Enqueuers, EnqStep(e) \/ EnqError(e) \/ JobStep(e)
      PROVE  staged' \in [Erasers -> {"none", "dir", "file"}]
  BY <1>0, <1>1 DEF EnqStep, JobStep, EnqCommit, EnqCheck, EnqPut, EnqError, JobStart,
      JobEnd, db, files
<1>2. ASSUME NEW p \in Procs, Crash(p) \/ LockStep(p) \/ LockFault(p)
      PROVE  staged' \in [Erasers -> {"none", "dir", "file"}]
  BY <1>0, <1>2 DEF LockStep, LockFault, Acquire, Release, AcquireTimeout, ReleaseError,
      Crash, db, files
<1>3. ASSUME NEW p \in Erasers \cup Deleters, BarrierStep(p) \/ CloseError(p) \/ ReopenError(p) \/ VerifyError(p)
      PROVE  staged' \in [Erasers -> {"none", "dir", "file"}]
  BY <1>0, <1>3 DEF BarrierStep, Close, Reopen, CloseError, ReopenError, VerifyError, db,
      files
<1>4. ASSUME NEW a \in Erasers, EraBegin(a) \/ EraStep(a) \/ EraFault(a)
      PROVE  staged' \in [Erasers -> {"none", "dir", "file"}]
  <2>1. CASE EraStage(a)
    BY <1>4, <2>1 DEF EraStage
  <2>2. CASE EraRestore(a)
    BY <1>4, <2>2 DEF EraRestore
  <2>3. CASE EraDelete(a)
    BY <1>4, <2>3 DEF EraDelete
  <2>4. CASE EraPurgeError(a)
    BY <1>4, <2>4 DEF EraPurgeError
  <2>5. ASSUME EraBegin(a) \/ EraFind(a) \/ EraLock(a) \/ EraCommit(a) \/ EraVerify(a) \/ EraPurge(a) \/
             EraFindError(a) \/ EraRollback(a) \/ EraCommitError(a)
        PROVE  UNCHANGED staged
    BY <2>5 DEF EraBegin, EraFind, EraLock, EraCommit, EraVerify, EraPurge, EraFindError,
        EraRollback, EraCommitError, db, files
  <2> QED
    BY <1>0, <1>4, <2>1, <2>2, <2>3, <2>4, <2>5 DEF EraStep, EraFault
<1>5. ASSUME NEW d \in Deleters, DelBegin(d) \/ DelStep(d) \/ DelFault(d)
      PROVE  staged' \in [Erasers -> {"none", "dir", "file"}]
  BY <1>0, <1>5 DEF DelStep, DelFault, DelBegin, DelFlock, DelFind, DelNoDirectory,
      DelCommit, DelMissing, DelVerify, DelPurge, DelDelete, DelError, DelCommitError,
      DelPurgeError, db, files
<1>6. CASE LockExpire
  BY <1>0, <1>6 DEF LockExpire, db, files
<1>7. CASE Overrun
  BY <1>0, <1>7 DEF Overrun, db, files
<1> QED
  BY <1>0, <1>1, <1>2, <1>3, <1>4, <1>5, <1>6, <1>7, Zenon DEF Next, vars

\* TypeOK holds in every reachable state.
THEOREM TypeCorrect == Spec => []TypeOK
<1>1. Init => TypeOK
  <2>1. Init => pc \in [Procs -> PC]
    BY DEF Init, PC, EnqPC
  <2>2. Init => faults \in 0..MaxFaults
    BY BoundAssumption DEF Init
  <2>3. Init => audited \in SUBSET (Erasers \cup Deleters)
    BY DEF Init
  <2>4. Init => found \in [Erasers \cup Deleters -> SUBSET Enqueuers]
    BY DEF Init
  <2>5. Init => row \in [Enqueuers -> {"none", "live", "deleted"}]
    BY DEF Init
  <2>6. Init => queue \in [Enqueuers -> {"none", "queued", "running"}]
    BY DEF Init
  <2>7. Init => staged \in [Erasers -> {"none", "dir", "file"}]
    BY DEF Init
  <2>8. Init => /\ lock \in Procs \cup {"free"} /\ dbLock \in Erasers \cup {"free"}
                /\ closed \in BOOLEAN /\ overran \in BOOLEAN /\ erased \in BOOLEAN
                /\ path \in {"absent", "dir", "file"}
    BY DEF Init
  <2> QED
    BY <2>1, <2>2, <2>3, <2>4, <2>5, <2>6, <2>7, <2>8, Zenon DEF TypeOK
<1>2. TypeOK /\ [Next]_vars => TypeOK'
  BY LockType, OverranType, ClosedType, ErasedType, DbLockType, RowType, QueueType,
      PathType, StagedType, FoundType, AuditedType, PcType, FaultsType DEF TypeOK
<1> QED
  BY <1>1, <1>2, PTL DEF Spec

-----------------------------------------------------------------------------
(* The barrier.  NoEnqueueWhileClosed rests on mutual exclusion: whoever is  *)
(* between taking and releasing the lock has it, as long as nobody outlasts  *)
(* the time to live, so the marker cannot appear between the check of an     *)
(* enqueuer and its call of enqueue_job.                                     *)

HolderOnly == ~overran => \A p \in Procs : pc[p] \in Held => lock = p

PutOpen == ~overran => \A e \in Enqueuers : pc[e] = "put" => ~closed

Barrier == HolderOnly /\ PutOpen

LEMMA HolderOnlyNext ==
    ASSUME TypeOK, HolderOnly, [Next]_vars
    PROVE  HolderOnly'
<1>0. ASSUME UNCHANGED <<lock, overran, pc>>
      PROVE  HolderOnly'
  BY <1>0 DEF HolderOnly
<1>1. ASSUME NEW e \in Enqueuers, EnqStep(e) \/ EnqError(e) \/ JobStep(e)
      PROVE  HolderOnly'
  <2>1. CASE EnqCommit(e)
    BY <1>1, <2>1, ProcAssumption DEF EnqCommit, Goto, Held, HolderOnly, Procs, TypeOK
  <2>2. CASE EnqCheck(e)
    BY <1>1, <2>2, ProcAssumption DEF EnqCheck, Goto, Held, HolderOnly, Procs, TypeOK
  <2>3. CASE EnqPut(e)
    BY <1>1, <2>3, ProcAssumption DEF EnqPut, Goto, Held, HolderOnly, Procs, TypeOK
  <2>4. CASE EnqError(e)
    BY <1>1, <2>4, ProcAssumption DEF EnqError, Goto, Held, HolderOnly, Procs, TypeOK
  <2>5. ASSUME JobStart(e) \/ JobEnd(e)
        PROVE  UNCHANGED <<lock, overran, pc>>
    BY <2>5 DEF JobStart, JobEnd, db, files
  <2> QED
    BY <1>0, <1>1, <2>1, <2>2, <2>3, <2>4, <2>5 DEF EnqStep, JobStep
<1>2. ASSUME NEW p \in Procs, Crash(p) \/ LockStep(p) \/ LockFault(p)
      PROVE  HolderOnly'
  <2>1. CASE Acquire(p)
    BY <1>2, <2>1, ProcAssumption DEF Acquire, Goto, AfterAcquire, Waiting, Held,
        HolderOnly, Procs, TypeOK
  <2>2. CASE Release(p)
    BY <1>2, <2>2, ProcAssumption DEF Release, Goto, AfterRelease, Held, HolderOnly, Procs,
        TypeOK
  <2>3. CASE AcquireTimeout(p)
    BY <1>2, <2>3, ProcAssumption DEF AcquireTimeout, Goto, Waiting, Held, HolderOnly,
        Procs, TypeOK
  <2>4. CASE ReleaseError(p)
    BY <1>2, <2>4, ProcAssumption DEF ReleaseError, Goto, Held, HolderOnly, Procs, TypeOK
  <2>5. CASE Crash(p)
    BY <1>2, <2>5, ProcAssumption DEF Crash, Goto, Held, HolderOnly, Procs, TypeOK
  <2> QED
    BY <1>0, <1>2, <2>1, <2>2, <2>3, <2>4, <2>5 DEF LockStep, LockFault
<1>3. ASSUME NEW p \in Erasers \cup Deleters, BarrierStep(p) \/ CloseError(p) \/ ReopenError(p) \/ VerifyError(p)
      PROVE  HolderOnly'
  <2>1. CASE Close(p)
    BY <1>3, <2>1, ProcAssumption DEF Close, Goto, Held, HolderOnly, Procs, TypeOK
  <2>2. CASE Reopen(p)
    BY <1>3, <2>2, ProcAssumption DEF Reopen, Goto, Held, HolderOnly, Procs, TypeOK
  <2>3. CASE CloseError(p)
    BY <1>3, <2>3, ProcAssumption DEF CloseError, Goto, Held, HolderOnly, Procs, TypeOK
  <2>4. CASE ReopenError(p)
    BY <1>3, <2>4, ProcAssumption DEF ReopenError, Goto, Held, HolderOnly, Procs, TypeOK
  <2>5. CASE VerifyError(p)
    BY <1>3, <2>5, ProcAssumption DEF VerifyError, Goto, Held, HolderOnly, Procs, TypeOK
  <2> QED
    BY <1>0, <1>3, <2>1, <2>2, <2>3, <2>4, <2>5 DEF BarrierStep
<1>4. ASSUME NEW a \in Erasers, EraBegin(a) \/ EraStep(a) \/ EraFault(a)
      PROVE  HolderOnly'
  <2>1. CASE EraBegin(a)
    BY <1>4, <2>1, ProcAssumption DEF EraBegin, Goto, Held, HolderOnly, Procs, TypeOK
  <2>2. CASE EraFind(a)
    BY <1>4, <2>2, ProcAssumption DEF EraFind, Goto, Held, HolderOnly, Procs, TypeOK
  <2>3. CASE EraLock(a)
    BY <1>4, <2>3, ProcAssumption DEF EraLock, Goto, Held, HolderOnly, Procs, TypeOK
  <2>4. CASE EraStage(a)
    BY <1>4, <2>4, ProcAssumption DEF EraStage, Goto, Held, HolderOnly, Procs, TypeOK
  <2>5. CASE EraCommit(a)
    BY <1>4, <2>5, ProcAssumption DEF EraCommit, Goto, Held, HolderOnly, Procs, TypeOK
  <2>6. CASE EraVerify(a)
    BY <1>4, <2>6, ProcAssumption DEF EraVerify, Goto, Held, HolderOnly, Procs, TypeOK
  <2>7. CASE EraRestore(a)
    BY <1>4, <2>7, ProcAssumption DEF EraRestore, Goto, Held, HolderOnly, Procs, TypeOK
  <2>8. CASE EraPurge(a)
    BY <1>4, <2>8, ProcAssumption DEF EraPurge, Goto, Held, HolderOnly, Procs, TypeOK
  <2>9. CASE EraDelete(a)
    BY <1>4, <2>9, ProcAssumption DEF EraDelete, Goto, Held, HolderOnly, Procs, TypeOK
  <2>10. CASE EraFindError(a)
    BY <1>4, <2>10, ProcAssumption DEF EraFindError, Goto, Held, HolderOnly, Procs, TypeOK
  <2>11. CASE EraRollback(a)
    BY <1>4, <2>11, ProcAssumption DEF EraRollback, Goto, Held, HolderOnly, Procs, TypeOK
  <2>12. CASE EraCommitError(a)
    BY <1>4, <2>12, ProcAssumption DEF EraCommitError, Goto, Held, HolderOnly, Procs, TypeOK
  <2>13. CASE EraPurgeError(a)
    BY <1>4, <2>13, ProcAssumption DEF EraPurgeError, Goto, Held, HolderOnly, Procs, TypeOK
  <2> QED
    BY <1>0, <1>4, <2>1, <2>2, <2>3, <2>4, <2>5, <2>6, <2>7, <2>8, <2>9, <2>10, <2>11, <2>12, <2>13 DEF
        EraStep, EraFault
<1>5. ASSUME NEW d \in Deleters, DelBegin(d) \/ DelStep(d) \/ DelFault(d)
      PROVE  HolderOnly'
  <2>1. CASE DelBegin(d)
    BY <1>5, <2>1, ProcAssumption DEF DelBegin, Goto, Held, HolderOnly, Procs, TypeOK
  <2>2. CASE DelFlock(d)
    BY <1>5, <2>2, ProcAssumption DEF DelFlock, Goto, Held, HolderOnly, Procs, TypeOK
  <2>3. CASE DelFind(d)
    BY <1>5, <2>3, ProcAssumption DEF DelFind, Goto, Held, HolderOnly, Procs, TypeOK
  <2>4. CASE DelNoDirectory(d)
    BY <1>5, <2>4, ProcAssumption DEF DelNoDirectory, Goto, Held, HolderOnly, Procs, TypeOK
  <2>5. CASE DelCommit(d)
    BY <1>5, <2>5, ProcAssumption DEF DelCommit, Goto, Held, HolderOnly, Procs, TypeOK
  <2>6. CASE DelMissing(d)
    BY <1>5, <2>6, ProcAssumption DEF DelMissing, Goto, Held, HolderOnly, Procs, TypeOK
  <2>7. CASE DelVerify(d)
    BY <1>5, <2>7, ProcAssumption DEF DelVerify, Goto, Held, HolderOnly, Procs, TypeOK
  <2>8. CASE DelPurge(d)
    BY <1>5, <2>8, ProcAssumption DEF DelPurge, Goto, Held, HolderOnly, Procs, TypeOK
  <2>9. CASE DelDelete(d)
    BY <1>5, <2>9, ProcAssumption DEF DelDelete, Goto, Held, HolderOnly, Procs, TypeOK
  <2>10. CASE DelError(d)
    BY <1>5, <2>10, ProcAssumption DEF DelError, Goto, Held, HolderOnly, Procs, TypeOK
  <2>11. CASE DelCommitError(d)
    BY <1>5, <2>11, ProcAssumption DEF DelCommitError, Goto, Held, HolderOnly, Procs, TypeOK
  <2>12. CASE DelPurgeError(d)
    BY <1>5, <2>12, ProcAssumption DEF DelPurgeError, Goto, Held, HolderOnly, Procs, TypeOK
  <2> QED
    BY <1>0, <1>5, <2>1, <2>2, <2>3, <2>4, <2>5, <2>6, <2>7, <2>8, <2>9, <2>10, <2>11, <2>12 DEF
        DelStep, DelFault
<1>6. CASE LockExpire
  BY <1>6, ProcAssumption DEF LockExpire, Held, HolderOnly, Procs, TypeOK
<1>7. CASE Overrun
  BY <1>7, ProcAssumption DEF Overrun, Held, HolderOnly, Procs, TypeOK
<1> QED
  BY <1>0, <1>1, <1>2, <1>3, <1>4, <1>5, <1>6, <1>7, Zenon DEF Next, vars

LEMMA PutOpenNext ==
    ASSUME TypeOK, HolderOnly, PutOpen, [Next]_vars
    PROVE  PutOpen'
<1>0. ASSUME UNCHANGED <<overran, closed, pc>>
      PROVE  PutOpen'
  BY <1>0 DEF PutOpen
<1>1. ASSUME NEW e \in Enqueuers, EnqStep(e) \/ EnqError(e) \/ JobStep(e)
      PROVE  PutOpen'
  <2>1. CASE EnqCommit(e)
    BY <1>1, <2>1, ProcAssumption DEF EnqCommit, Goto, PutOpen, Procs, TypeOK
  <2>2. CASE EnqCheck(e)
    BY <1>1, <2>2, ProcAssumption DEF EnqCheck, Goto, PutOpen, Procs, TypeOK
  <2>3. CASE EnqPut(e)
    BY <1>1, <2>3, ProcAssumption DEF EnqPut, Goto, PutOpen, Procs, TypeOK
  <2>4. CASE EnqError(e)
    BY <1>1, <2>4, ProcAssumption DEF EnqError, Goto, PutOpen, Procs, TypeOK
  <2>5. ASSUME JobStart(e) \/ JobEnd(e)
        PROVE  UNCHANGED <<overran, closed, pc>>
    BY <2>5 DEF JobStart, JobEnd, db, files
  <2> QED
    BY <1>0, <1>1, <2>1, <2>2, <2>3, <2>4, <2>5 DEF EnqStep, JobStep
<1>2. ASSUME NEW p \in Procs, Crash(p) \/ LockStep(p) \/ LockFault(p)
      PROVE  PutOpen'
  <2>1. CASE Acquire(p)
    BY <1>2, <2>1, ProcAssumption DEF Acquire, Goto, AfterAcquire, Waiting, PutOpen, Procs,
        TypeOK
  <2>2. CASE Release(p)
    BY <1>2, <2>2, ProcAssumption DEF Release, Goto, AfterRelease, PutOpen, Procs, TypeOK
  <2>3. CASE AcquireTimeout(p)
    BY <1>2, <2>3, ProcAssumption DEF AcquireTimeout, Goto, Waiting, PutOpen, Procs, TypeOK
  <2>4. CASE ReleaseError(p)
    BY <1>2, <2>4, ProcAssumption DEF ReleaseError, Goto, PutOpen, Procs, TypeOK
  <2>5. CASE Crash(p)
    BY <1>2, <2>5, ProcAssumption DEF Crash, Goto, PutOpen, Procs, TypeOK
  <2> QED
    BY <1>0, <1>2, <2>1, <2>2, <2>3, <2>4, <2>5 DEF LockStep, LockFault
<1>3. ASSUME NEW p \in Erasers \cup Deleters, BarrierStep(p) \/ CloseError(p) \/ ReopenError(p) \/ VerifyError(p)
      PROVE  PutOpen'
  <2>1. CASE Close(p)
    BY <1>3, <2>1, ProcAssumption DEF Close, Goto, PutOpen, Procs, TypeOK, Held, HolderOnly
  <2>2. CASE Reopen(p)
    BY <1>3, <2>2, ProcAssumption DEF Reopen, Goto, PutOpen, Procs, TypeOK
  <2>3. CASE CloseError(p)
    BY <1>3, <2>3, ProcAssumption DEF CloseError, Goto, PutOpen, Procs, TypeOK, Held,
        HolderOnly
  <2>4. CASE ReopenError(p)
    BY <1>3, <2>4, ProcAssumption DEF ReopenError, Goto, PutOpen, Procs, TypeOK
  <2>5. CASE VerifyError(p)
    BY <1>3, <2>5, ProcAssumption DEF VerifyError, Goto, PutOpen, Procs, TypeOK
  <2> QED
    BY <1>0, <1>3, <2>1, <2>2, <2>3, <2>4, <2>5 DEF BarrierStep
<1>4. ASSUME NEW a \in Erasers, EraBegin(a) \/ EraStep(a) \/ EraFault(a)
      PROVE  PutOpen'
  <2>1. CASE EraBegin(a)
    BY <1>4, <2>1, ProcAssumption DEF EraBegin, Goto, PutOpen, Procs, TypeOK
  <2>2. CASE EraFind(a)
    BY <1>4, <2>2, ProcAssumption DEF EraFind, Goto, PutOpen, Procs, TypeOK
  <2>3. CASE EraLock(a)
    BY <1>4, <2>3, ProcAssumption DEF EraLock, Goto, PutOpen, Procs, TypeOK
  <2>4. CASE EraStage(a)
    BY <1>4, <2>4, ProcAssumption DEF EraStage, Goto, PutOpen, Procs, TypeOK
  <2>5. CASE EraCommit(a)
    BY <1>4, <2>5, ProcAssumption DEF EraCommit, Goto, PutOpen, Procs, TypeOK
  <2>6. CASE EraVerify(a)
    BY <1>4, <2>6, ProcAssumption DEF EraVerify, Goto, PutOpen, Procs, TypeOK
  <2>7. CASE EraRestore(a)
    BY <1>4, <2>7, ProcAssumption DEF EraRestore, Goto, PutOpen, Procs, TypeOK
  <2>8. CASE EraPurge(a)
    BY <1>4, <2>8, ProcAssumption DEF EraPurge, Goto, PutOpen, Procs, TypeOK
  <2>9. CASE EraDelete(a)
    BY <1>4, <2>9, ProcAssumption DEF EraDelete, Goto, PutOpen, Procs, TypeOK
  <2>10. CASE EraFindError(a)
    BY <1>4, <2>10, ProcAssumption DEF EraFindError, Goto, PutOpen, Procs, TypeOK
  <2>11. CASE EraRollback(a)
    BY <1>4, <2>11, ProcAssumption DEF EraRollback, Goto, PutOpen, Procs, TypeOK
  <2>12. CASE EraCommitError(a)
    BY <1>4, <2>12, ProcAssumption DEF EraCommitError, Goto, PutOpen, Procs, TypeOK
  <2>13. CASE EraPurgeError(a)
    BY <1>4, <2>13, ProcAssumption DEF EraPurgeError, Goto, PutOpen, Procs, TypeOK
  <2> QED
    BY <1>0, <1>4, <2>1, <2>2, <2>3, <2>4, <2>5, <2>6, <2>7, <2>8, <2>9, <2>10, <2>11, <2>12, <2>13 DEF
        EraStep, EraFault
<1>5. ASSUME NEW d \in Deleters, DelBegin(d) \/ DelStep(d) \/ DelFault(d)
      PROVE  PutOpen'
  <2>1. CASE DelBegin(d)
    BY <1>5, <2>1, ProcAssumption DEF DelBegin, Goto, PutOpen, Procs, TypeOK
  <2>2. CASE DelFlock(d)
    BY <1>5, <2>2, ProcAssumption DEF DelFlock, Goto, PutOpen, Procs, TypeOK
  <2>3. CASE DelFind(d)
    BY <1>5, <2>3, ProcAssumption DEF DelFind, Goto, PutOpen, Procs, TypeOK
  <2>4. CASE DelNoDirectory(d)
    BY <1>5, <2>4, ProcAssumption DEF DelNoDirectory, Goto, PutOpen, Procs, TypeOK
  <2>5. CASE DelCommit(d)
    BY <1>5, <2>5, ProcAssumption DEF DelCommit, Goto, PutOpen, Procs, TypeOK
  <2>6. CASE DelMissing(d)
    BY <1>5, <2>6, ProcAssumption DEF DelMissing, Goto, PutOpen, Procs, TypeOK
  <2>7. CASE DelVerify(d)
    BY <1>5, <2>7, ProcAssumption DEF DelVerify, Goto, PutOpen, Procs, TypeOK
  <2>8. CASE DelPurge(d)
    BY <1>5, <2>8, ProcAssumption DEF DelPurge, Goto, PutOpen, Procs, TypeOK
  <2>9. CASE DelDelete(d)
    BY <1>5, <2>9, ProcAssumption DEF DelDelete, Goto, PutOpen, Procs, TypeOK
  <2>10. CASE DelError(d)
    BY <1>5, <2>10, ProcAssumption DEF DelError, Goto, PutOpen, Procs, TypeOK
  <2>11. CASE DelCommitError(d)
    BY <1>5, <2>11, ProcAssumption DEF DelCommitError, Goto, PutOpen, Procs, TypeOK
  <2>12. CASE DelPurgeError(d)
    BY <1>5, <2>12, ProcAssumption DEF DelPurgeError, Goto, PutOpen, Procs, TypeOK
  <2> QED
    BY <1>0, <1>5, <2>1, <2>2, <2>3, <2>4, <2>5, <2>6, <2>7, <2>8, <2>9, <2>10, <2>11, <2>12 DEF
        DelStep, DelFault
<1>6. CASE LockExpire
  BY <1>0, <1>6 DEF LockExpire, db, files
<1>7. CASE Overrun
  BY <1>7, ProcAssumption DEF Overrun, PutOpen, Procs, TypeOK
<1> QED
  BY <1>0, <1>1, <1>2, <1>3, <1>4, <1>5, <1>6, <1>7, Zenon DEF Next, vars

LEMMA NoEnqueueNext ==
    ASSUME TypeOK, PutOpen, [Next]_vars
    PROVE  NoEnqueue
<1>0. ASSUME UNCHANGED queue
      PROVE  NoEnqueue
  BY <1>0 DEF NoEnqueue
<1>1. ASSUME NEW e \in Enqueuers, EnqStep(e) \/ EnqError(e) \/ JobStep(e)
      PROVE  NoEnqueue
  <2>1. CASE EnqPut(e)
    BY <1>1, <2>1 DEF EnqPut, TypeOK, NoEnqueue, PutOpen
  <2>2. CASE JobStart(e)
    BY <1>1, <2>2 DEF JobStart, TypeOK, NoEnqueue
  <2>3. CASE JobEnd(e)
    BY <1>1, <2>3 DEF JobEnd, TypeOK, NoEnqueue
  <2>4. ASSUME EnqCommit(e) \/ EnqCheck(e) \/ EnqError(e)
        PROVE  UNCHANGED queue
    BY <2>4 DEF EnqCommit, EnqCheck, EnqError, db, files
  <2> QED
    BY <1>0, <1>1, <2>1, <2>2, <2>3, <2>4 DEF EnqStep, JobStep
<1>2. ASSUME NEW p \in Procs, Crash(p) \/ LockStep(p) \/ LockFault(p)
      PROVE  NoEnqueue
  BY <1>0, <1>2 DEF LockStep, LockFault, Acquire, Release, AcquireTimeout, ReleaseError,
      Crash, db, files
<1>3. ASSUME NEW p \in Erasers \cup Deleters, BarrierStep(p) \/ CloseError(p) \/ ReopenError(p) \/ VerifyError(p)
      PROVE  NoEnqueue
  BY <1>0, <1>3 DEF BarrierStep, Close, Reopen, CloseError, ReopenError, VerifyError, db,
      files
<1>4. ASSUME NEW a \in Erasers, EraBegin(a) \/ EraStep(a) \/ EraFault(a)
      PROVE  NoEnqueue
  <2>1. CASE EraPurge(a)
    BY <1>4, <2>1 DEF EraPurge, TypeOK, NoEnqueue
  <2>2. ASSUME EraBegin(a) \/ EraFind(a) \/ EraLock(a) \/ EraStage(a) \/ EraCommit(a) \/ EraVerify(a) \/
             EraRestore(a) \/ EraDelete(a) \/ EraFindError(a) \/ EraRollback(a) \/
             EraCommitError(a) \/ EraPurgeError(a)
        PROVE  UNCHANGED queue
    BY <2>2 DEF EraBegin, EraFind, EraLock, EraStage, EraCommit, EraVerify, EraRestore,
        EraDelete, EraFindError, EraRollback, EraCommitError, EraPurgeError, db, files
  <2> QED
    BY <1>0, <1>4, <2>1, <2>2 DEF EraStep, EraFault
<1>5. ASSUME NEW d \in Deleters, DelBegin(d) \/ DelStep(d) \/ DelFault(d)
      PROVE  NoEnqueue
  <2>1. CASE DelPurge(d)
    BY <1>5, <2>1 DEF DelPurge, TypeOK, NoEnqueue
  <2>2. ASSUME DelBegin(d) \/ DelFlock(d) \/ DelFind(d) \/ DelNoDirectory(d) \/ DelCommit(d) \/
             DelMissing(d) \/ DelVerify(d) \/ DelDelete(d) \/ DelError(d) \/ DelCommitError(d) \/
             DelPurgeError(d)
        PROVE  UNCHANGED queue
    BY <2>2 DEF DelBegin, DelFlock, DelFind, DelNoDirectory, DelCommit, DelMissing,
        DelVerify, DelDelete, DelError, DelCommitError, DelPurgeError, db, files
  <2> QED
    BY <1>0, <1>5, <2>1, <2>2 DEF DelStep, DelFault
<1>6. CASE LockExpire
  BY <1>0, <1>6 DEF LockExpire, db, files
<1>7. CASE Overrun
  BY <1>0, <1>7 DEF Overrun, db, files
<1> QED
  BY <1>0, <1>1, <1>2, <1>3, <1>4, <1>5, <1>6, <1>7, Zenon DEF Next, vars

\* The lock excludes, and an enqueuer about to enqueue has the queue open.
THEOREM BarrierInvariant == Spec => []Barrier
<1>1. Init => Barrier
  BY DEF Init, Barrier, HolderOnly, PutOpen, Held, Procs
<1>2. TypeOK /\ Barrier /\ [Next]_vars => Barrier'
  BY HolderOnlyNext, PutOpenNext DEF Barrier
<1> QED
  BY <1>1, <1>2, TypeCorrect, PTL DEF Spec

\* Nothing enters the queue of a tenant while it is closed, for any number of
\* enqueuers, erasures, hard deletions, faults and crashes, as long as no
\* holder of the lock has outlasted its time to live.
THEOREM EnqueueExclusion == Spec => NoEnqueueWhileClosed
<1>1. TypeOK /\ Barrier /\ [Next]_vars => [NoEnqueue]_vars
  BY NoEnqueueNext DEF Barrier
<1> QED
  BY <1>1, TypeCorrect, BarrierInvariant, PTL DEF Spec, NoEnqueueWhileClosed

-----------------------------------------------------------------------------
(* An erasure that is alone.  ErasedTenantHasNoWork needs that the queue     *)
(* stays closed from the marker on, and that after the purge only jobs that  *)
(* the purge saw are left.                                                   *)

NotEnqueuing == \A a \in Erasers : pc[a] \notin {"wait", "check", "put", "free"}

KeptClosed ==
    \A a \in Erasers : pc[a] \in {"close:free", "done"} \cup EraPC /\ Alone(a) => closed

OnlyStopping ==
    \A a \in Erasers : pc[a] = "delete" /\ Alone(a) /\ ~overran =>
        \A e \in Enqueuers : queue[e] = "none" \/ (queue[e] = "running" /\ e \in found[a])

ErasureInv == NotEnqueuing /\ KeptClosed /\ OnlyStopping /\ ErasedTenantHasNoWork

\* Whoever takes a step has begun.
AloneStep == \A a \in Erasers : Alone(a)' => Alone(a)

LEMMA AloneNext ==
    ASSUME TypeOK, [Next]_vars
    PROVE  AloneStep
<1>0. ASSUME UNCHANGED pc
      PROVE  AloneStep
  BY <1>0 DEF AloneStep, Alone
<1>1. ASSUME NEW e \in Enqueuers, EnqStep(e) \/ EnqError(e) \/ JobStep(e)
      PROVE  AloneStep
  <2>1. CASE EnqCommit(e)
    BY <1>1, <2>1, ProcAssumption DEF EnqCommit, Goto, AloneStep, Alone, TypeOK, Procs
  <2>2. CASE EnqCheck(e)
    BY <1>1, <2>2, ProcAssumption DEF EnqCheck, Goto, AloneStep, Alone, TypeOK, Procs
  <2>3. CASE EnqPut(e)
    BY <1>1, <2>3, ProcAssumption DEF EnqPut, Goto, AloneStep, Alone, TypeOK, Procs
  <2>4. CASE EnqError(e)
    BY <1>1, <2>4, ProcAssumption DEF EnqError, Goto, AloneStep, Alone, TypeOK, Procs
  <2>5. ASSUME JobStart(e) \/ JobEnd(e)
        PROVE  UNCHANGED pc
    BY <2>5 DEF JobStart, JobEnd, db, files
  <2> QED
    BY <1>0, <1>1, <2>1, <2>2, <2>3, <2>4, <2>5 DEF EnqStep, JobStep
<1>2. ASSUME NEW p \in Procs, Crash(p) \/ LockStep(p) \/ LockFault(p)
      PROVE  AloneStep
  <2>1. CASE Acquire(p)
    BY <1>2, <2>1, ProcAssumption DEF Acquire, Goto, AfterAcquire, Waiting, AloneStep,
        Alone, TypeOK, Procs
  <2>2. CASE Release(p)
    BY <1>2, <2>2, ProcAssumption DEF Release, Goto, AfterRelease, AloneStep, Alone, TypeOK,
        Procs
  <2>3. CASE AcquireTimeout(p)
    BY <1>2, <2>3, ProcAssumption DEF AcquireTimeout, Goto, Waiting, AloneStep, Alone,
        TypeOK, Procs
  <2>4. CASE ReleaseError(p)
    BY <1>2, <2>4, ProcAssumption DEF ReleaseError, Goto, AloneStep, Alone, TypeOK, Procs
  <2>5. CASE Crash(p)
    BY <1>2, <2>5, ProcAssumption DEF Crash, Goto, AloneStep, Alone, TypeOK, Procs
  <2> QED
    BY <1>0, <1>2, <2>1, <2>2, <2>3, <2>4, <2>5 DEF LockStep, LockFault
<1>3. ASSUME NEW p \in Erasers \cup Deleters, BarrierStep(p) \/ CloseError(p) \/ ReopenError(p) \/ VerifyError(p)
      PROVE  AloneStep
  <2>1. CASE Close(p)
    BY <1>3, <2>1, ProcAssumption DEF Close, Goto, AloneStep, Alone, TypeOK, Procs
  <2>2. CASE Reopen(p)
    BY <1>3, <2>2, ProcAssumption DEF Reopen, Goto, AloneStep, Alone, TypeOK, Procs
  <2>3. CASE CloseError(p)
    BY <1>3, <2>3, ProcAssumption DEF CloseError, Goto, AloneStep, Alone, TypeOK, Procs
  <2>4. CASE ReopenError(p)
    BY <1>3, <2>4, ProcAssumption DEF ReopenError, Goto, AloneStep, Alone, TypeOK, Procs
  <2>5. CASE VerifyError(p)
    BY <1>3, <2>5, ProcAssumption DEF VerifyError, Goto, AloneStep, Alone, TypeOK, Procs
  <2> QED
    BY <1>0, <1>3, <2>1, <2>2, <2>3, <2>4, <2>5 DEF BarrierStep
<1>4. ASSUME NEW a \in Erasers, EraBegin(a) \/ EraStep(a) \/ EraFault(a)
      PROVE  AloneStep
  <2>1. CASE EraBegin(a)
    BY <1>4, <2>1, ProcAssumption DEF EraBegin, Goto, AloneStep, Alone, TypeOK, Procs
  <2>2. CASE EraFind(a)
    BY <1>4, <2>2, ProcAssumption DEF EraFind, Goto, AloneStep, Alone, TypeOK, Procs
  <2>3. CASE EraLock(a)
    BY <1>4, <2>3, ProcAssumption DEF EraLock, Goto, AloneStep, Alone, TypeOK, Procs
  <2>4. CASE EraStage(a)
    BY <1>4, <2>4, ProcAssumption DEF EraStage, Goto, AloneStep, Alone, TypeOK, Procs
  <2>5. CASE EraCommit(a)
    BY <1>4, <2>5, ProcAssumption DEF EraCommit, Goto, AloneStep, Alone, TypeOK, Procs
  <2>6. CASE EraVerify(a)
    BY <1>4, <2>6, ProcAssumption DEF EraVerify, Goto, AloneStep, Alone, TypeOK, Procs
  <2>7. CASE EraRestore(a)
    BY <1>4, <2>7, ProcAssumption DEF EraRestore, Goto, AloneStep, Alone, TypeOK, Procs
  <2>8. CASE EraPurge(a)
    BY <1>4, <2>8, ProcAssumption DEF EraPurge, Goto, AloneStep, Alone, TypeOK, Procs
  <2>9. CASE EraDelete(a)
    BY <1>4, <2>9, ProcAssumption DEF EraDelete, Goto, AloneStep, Alone, TypeOK, Procs
  <2>10. CASE EraFindError(a)
    BY <1>4, <2>10, ProcAssumption DEF EraFindError, Goto, AloneStep, Alone, TypeOK, Procs
  <2>11. CASE EraRollback(a)
    BY <1>4, <2>11, ProcAssumption DEF EraRollback, Goto, AloneStep, Alone, TypeOK, Procs
  <2>12. CASE EraCommitError(a)
    BY <1>4, <2>12, ProcAssumption DEF EraCommitError, Goto, AloneStep, Alone, TypeOK, Procs
  <2>13. CASE EraPurgeError(a)
    BY <1>4, <2>13, ProcAssumption DEF EraPurgeError, Goto, AloneStep, Alone, TypeOK, Procs
  <2> QED
    BY <1>0, <1>4, <2>1, <2>2, <2>3, <2>4, <2>5, <2>6, <2>7, <2>8, <2>9, <2>10, <2>11, <2>12, <2>13 DEF
        EraStep, EraFault
<1>5. ASSUME NEW d \in Deleters, DelBegin(d) \/ DelStep(d) \/ DelFault(d)
      PROVE  AloneStep
  <2>1. CASE DelBegin(d)
    BY <1>5, <2>1, ProcAssumption DEF DelBegin, Goto, AloneStep, Alone, TypeOK, Procs
  <2>2. CASE DelFlock(d)
    BY <1>5, <2>2, ProcAssumption DEF DelFlock, Goto, AloneStep, Alone, TypeOK, Procs
  <2>3. CASE DelFind(d)
    BY <1>5, <2>3, ProcAssumption DEF DelFind, Goto, AloneStep, Alone, TypeOK, Procs
  <2>4. CASE DelNoDirectory(d)
    BY <1>5, <2>4, ProcAssumption DEF DelNoDirectory, Goto, AloneStep, Alone, TypeOK, Procs
  <2>5. CASE DelCommit(d)
    BY <1>5, <2>5, ProcAssumption DEF DelCommit, Goto, AloneStep, Alone, TypeOK, Procs
  <2>6. CASE DelMissing(d)
    BY <1>5, <2>6, ProcAssumption DEF DelMissing, Goto, AloneStep, Alone, TypeOK, Procs
  <2>7. CASE DelVerify(d)
    BY <1>5, <2>7, ProcAssumption DEF DelVerify, Goto, AloneStep, Alone, TypeOK, Procs
  <2>8. CASE DelPurge(d)
    BY <1>5, <2>8, ProcAssumption DEF DelPurge, Goto, AloneStep, Alone, TypeOK, Procs
  <2>9. CASE DelDelete(d)
    BY <1>5, <2>9, ProcAssumption DEF DelDelete, Goto, AloneStep, Alone, TypeOK, Procs
  <2>10. CASE DelError(d)
    BY <1>5, <2>10, ProcAssumption DEF DelError, Goto, AloneStep, Alone, TypeOK, Procs
  <2>11. CASE DelCommitError(d)
    BY <1>5, <2>11, ProcAssumption DEF DelCommitError, Goto, AloneStep, Alone, TypeOK, Procs
  <2>12. CASE DelPurgeError(d)
    BY <1>5, <2>12, ProcAssumption DEF DelPurgeError, Goto, AloneStep, Alone, TypeOK, Procs
  <2> QED
    BY <1>0, <1>5, <2>1, <2>2, <2>3, <2>4, <2>5, <2>6, <2>7, <2>8, <2>9, <2>10, <2>11, <2>12 DEF
        DelStep, DelFault
<1>6. CASE LockExpire
  BY <1>0, <1>6 DEF LockExpire, db, files
<1>7. CASE Overrun
  BY <1>0, <1>7 DEF Overrun, db, files
<1> QED
  BY <1>0, <1>1, <1>2, <1>3, <1>4, <1>5, <1>6, <1>7, Zenon DEF Next, vars

LEMMA NotEnqueuingNext ==
    ASSUME TypeOK, NotEnqueuing, [Next]_vars
    PROVE  NotEnqueuing'
<1>0. ASSUME UNCHANGED pc
      PROVE  NotEnqueuing'
  BY <1>0 DEF NotEnqueuing
<1>1. ASSUME NEW e \in Enqueuers, EnqStep(e) \/ EnqError(e) \/ JobStep(e)
      PROVE  NotEnqueuing'
  <2>1. CASE EnqCommit(e)
    BY <1>1, <2>1, ProcAssumption DEF EnqCommit, Goto, NotEnqueuing, TypeOK, Procs
  <2>2. CASE EnqCheck(e)
    BY <1>1, <2>2, ProcAssumption DEF EnqCheck, Goto, NotEnqueuing, TypeOK, Procs
  <2>3. CASE EnqPut(e)
    BY <1>1, <2>3, ProcAssumption DEF EnqPut, Goto, NotEnqueuing, TypeOK, Procs
  <2>4. CASE EnqError(e)
    BY <1>1, <2>4, ProcAssumption DEF EnqError, Goto, NotEnqueuing, TypeOK, Procs
  <2>5. ASSUME JobStart(e) \/ JobEnd(e)
        PROVE  UNCHANGED pc
    BY <2>5 DEF JobStart, JobEnd, db, files
  <2> QED
    BY <1>0, <1>1, <2>1, <2>2, <2>3, <2>4, <2>5 DEF EnqStep, JobStep
<1>2. ASSUME NEW p \in Procs, Crash(p) \/ LockStep(p) \/ LockFault(p)
      PROVE  NotEnqueuing'
  <2>1. CASE Acquire(p)
    BY <1>2, <2>1, ProcAssumption DEF Acquire, Goto, AfterAcquire, Waiting, NotEnqueuing,
        TypeOK, Procs
  <2>2. CASE Release(p)
    BY <1>2, <2>2, ProcAssumption DEF Release, Goto, AfterRelease, NotEnqueuing, TypeOK,
        Procs
  <2>3. CASE AcquireTimeout(p)
    BY <1>2, <2>3, ProcAssumption DEF AcquireTimeout, Goto, Waiting, NotEnqueuing, TypeOK,
        Procs
  <2>4. CASE ReleaseError(p)
    BY <1>2, <2>4, ProcAssumption DEF ReleaseError, Goto, NotEnqueuing, TypeOK, Procs
  <2>5. CASE Crash(p)
    BY <1>2, <2>5, ProcAssumption DEF Crash, Goto, NotEnqueuing, TypeOK, Procs
  <2> QED
    BY <1>0, <1>2, <2>1, <2>2, <2>3, <2>4, <2>5 DEF LockStep, LockFault
<1>3. ASSUME NEW p \in Erasers \cup Deleters, BarrierStep(p) \/ CloseError(p) \/ ReopenError(p) \/ VerifyError(p)
      PROVE  NotEnqueuing'
  <2>1. CASE Close(p)
    BY <1>3, <2>1, ProcAssumption DEF Close, Goto, NotEnqueuing, TypeOK, Procs
  <2>2. CASE Reopen(p)
    BY <1>3, <2>2, ProcAssumption DEF Reopen, Goto, NotEnqueuing, TypeOK, Procs
  <2>3. CASE CloseError(p)
    BY <1>3, <2>3, ProcAssumption DEF CloseError, Goto, NotEnqueuing, TypeOK, Procs
  <2>4. CASE ReopenError(p)
    BY <1>3, <2>4, ProcAssumption DEF ReopenError, Goto, NotEnqueuing, TypeOK, Procs
  <2>5. CASE VerifyError(p)
    BY <1>3, <2>5, ProcAssumption DEF VerifyError, Goto, NotEnqueuing, TypeOK, Procs
  <2> QED
    BY <1>0, <1>3, <2>1, <2>2, <2>3, <2>4, <2>5 DEF BarrierStep
<1>4. ASSUME NEW a \in Erasers, EraBegin(a) \/ EraStep(a) \/ EraFault(a)
      PROVE  NotEnqueuing'
  <2>1. CASE EraBegin(a)
    BY <1>4, <2>1, ProcAssumption DEF EraBegin, Goto, NotEnqueuing, TypeOK, Procs
  <2>2. CASE EraFind(a)
    BY <1>4, <2>2, ProcAssumption DEF EraFind, Goto, NotEnqueuing, TypeOK, Procs
  <2>3. CASE EraLock(a)
    BY <1>4, <2>3, ProcAssumption DEF EraLock, Goto, NotEnqueuing, TypeOK, Procs
  <2>4. CASE EraStage(a)
    BY <1>4, <2>4, ProcAssumption DEF EraStage, Goto, NotEnqueuing, TypeOK, Procs
  <2>5. CASE EraCommit(a)
    BY <1>4, <2>5, ProcAssumption DEF EraCommit, Goto, NotEnqueuing, TypeOK, Procs
  <2>6. CASE EraVerify(a)
    BY <1>4, <2>6, ProcAssumption DEF EraVerify, Goto, NotEnqueuing, TypeOK, Procs
  <2>7. CASE EraRestore(a)
    BY <1>4, <2>7, ProcAssumption DEF EraRestore, Goto, NotEnqueuing, TypeOK, Procs
  <2>8. CASE EraPurge(a)
    BY <1>4, <2>8, ProcAssumption DEF EraPurge, Goto, NotEnqueuing, TypeOK, Procs
  <2>9. CASE EraDelete(a)
    BY <1>4, <2>9, ProcAssumption DEF EraDelete, Goto, NotEnqueuing, TypeOK, Procs
  <2>10. CASE EraFindError(a)
    BY <1>4, <2>10, ProcAssumption DEF EraFindError, Goto, NotEnqueuing, TypeOK, Procs
  <2>11. CASE EraRollback(a)
    BY <1>4, <2>11, ProcAssumption DEF EraRollback, Goto, NotEnqueuing, TypeOK, Procs
  <2>12. CASE EraCommitError(a)
    BY <1>4, <2>12, ProcAssumption DEF EraCommitError, Goto, NotEnqueuing, TypeOK, Procs
  <2>13. CASE EraPurgeError(a)
    BY <1>4, <2>13, ProcAssumption DEF EraPurgeError, Goto, NotEnqueuing, TypeOK, Procs
  <2> QED
    BY <1>0, <1>4, <2>1, <2>2, <2>3, <2>4, <2>5, <2>6, <2>7, <2>8, <2>9, <2>10, <2>11, <2>12, <2>13 DEF
        EraStep, EraFault
<1>5. ASSUME NEW d \in Deleters, DelBegin(d) \/ DelStep(d) \/ DelFault(d)
      PROVE  NotEnqueuing'
  <2>1. CASE DelBegin(d)
    BY <1>5, <2>1, ProcAssumption DEF DelBegin, Goto, NotEnqueuing, TypeOK, Procs
  <2>2. CASE DelFlock(d)
    BY <1>5, <2>2, ProcAssumption DEF DelFlock, Goto, NotEnqueuing, TypeOK, Procs
  <2>3. CASE DelFind(d)
    BY <1>5, <2>3, ProcAssumption DEF DelFind, Goto, NotEnqueuing, TypeOK, Procs
  <2>4. CASE DelNoDirectory(d)
    BY <1>5, <2>4, ProcAssumption DEF DelNoDirectory, Goto, NotEnqueuing, TypeOK, Procs
  <2>5. CASE DelCommit(d)
    BY <1>5, <2>5, ProcAssumption DEF DelCommit, Goto, NotEnqueuing, TypeOK, Procs
  <2>6. CASE DelMissing(d)
    BY <1>5, <2>6, ProcAssumption DEF DelMissing, Goto, NotEnqueuing, TypeOK, Procs
  <2>7. CASE DelVerify(d)
    BY <1>5, <2>7, ProcAssumption DEF DelVerify, Goto, NotEnqueuing, TypeOK, Procs
  <2>8. CASE DelPurge(d)
    BY <1>5, <2>8, ProcAssumption DEF DelPurge, Goto, NotEnqueuing, TypeOK, Procs
  <2>9. CASE DelDelete(d)
    BY <1>5, <2>9, ProcAssumption DEF DelDelete, Goto, NotEnqueuing, TypeOK, Procs
  <2>10. CASE DelError(d)
    BY <1>5, <2>10, ProcAssumption DEF DelError, Goto, NotEnqueuing, TypeOK, Procs
  <2>11. CASE DelCommitError(d)
    BY <1>5, <2>11, ProcAssumption DEF DelCommitError, Goto, NotEnqueuing, TypeOK, Procs
  <2>12. CASE DelPurgeError(d)
    BY <1>5, <2>12, ProcAssumption DEF DelPurgeError, Goto, NotEnqueuing, TypeOK, Procs
  <2> QED
    BY <1>0, <1>5, <2>1, <2>2, <2>3, <2>4, <2>5, <2>6, <2>7, <2>8, <2>9, <2>10, <2>11, <2>12 DEF
        DelStep, DelFault
<1>6. CASE LockExpire
  BY <1>0, <1>6 DEF LockExpire, db, files
<1>7. CASE Overrun
  BY <1>0, <1>7 DEF Overrun, db, files
<1> QED
  BY <1>0, <1>1, <1>2, <1>3, <1>4, <1>5, <1>6, <1>7, Zenon DEF Next, vars

LEMMA KeptClosedNext ==
    ASSUME TypeOK, NotEnqueuing, KeptClosed, AloneStep, [Next]_vars
    PROVE  KeptClosed'
<1>0. ASSUME UNCHANGED <<closed, pc>>
      PROVE  KeptClosed'
  BY <1>0 DEF KeptClosed, AloneStep
<1>1. ASSUME NEW e \in Enqueuers, EnqStep(e) \/ EnqError(e) \/ JobStep(e)
      PROVE  KeptClosed'
  <2>1. CASE EnqCommit(e)
    BY <1>1, <2>1, ProcAssumption DEF EnqCommit, Goto, KeptClosed, AloneStep, EraPC, TypeOK,
        Procs
  <2>2. CASE EnqCheck(e)
    BY <1>1, <2>2, ProcAssumption DEF EnqCheck, Goto, KeptClosed, AloneStep, EraPC, TypeOK,
        Procs
  <2>3. CASE EnqPut(e)
    BY <1>1, <2>3, ProcAssumption DEF EnqPut, Goto, KeptClosed, AloneStep, EraPC, TypeOK,
        Procs
  <2>4. CASE EnqError(e)
    BY <1>1, <2>4, ProcAssumption DEF EnqError, Goto, KeptClosed, AloneStep, EraPC, TypeOK,
        Procs
  <2>5. ASSUME JobStart(e) \/ JobEnd(e)
        PROVE  UNCHANGED <<closed, pc>>
    BY <2>5 DEF JobStart, JobEnd, db, files
  <2> QED
    BY <1>0, <1>1, <2>1, <2>2, <2>3, <2>4, <2>5 DEF EnqStep, JobStep
<1>2. ASSUME NEW p \in Procs, Crash(p) \/ LockStep(p) \/ LockFault(p)
      PROVE  KeptClosed'
  <2>1. CASE Acquire(p)
    BY <1>2, <2>1, ProcAssumption DEF Acquire, Goto, AfterAcquire, Waiting, KeptClosed,
        AloneStep, EraPC, TypeOK, Procs, NotEnqueuing
  <2>2. CASE Release(p)
    BY <1>2, <2>2, ProcAssumption DEF Release, Goto, AfterRelease, KeptClosed, AloneStep,
        EraPC, TypeOK, Procs, NotEnqueuing
  <2>3. CASE AcquireTimeout(p)
    BY <1>2, <2>3, ProcAssumption DEF AcquireTimeout, Goto, Waiting, KeptClosed, AloneStep,
        EraPC, TypeOK, Procs
  <2>4. CASE ReleaseError(p)
    BY <1>2, <2>4, ProcAssumption DEF ReleaseError, Goto, KeptClosed, AloneStep, EraPC,
        TypeOK, Procs
  <2>5. CASE Crash(p)
    BY <1>2, <2>5, ProcAssumption DEF Crash, Goto, KeptClosed, AloneStep, EraPC, TypeOK,
        Procs
  <2> QED
    BY <1>0, <1>2, <2>1, <2>2, <2>3, <2>4, <2>5 DEF LockStep, LockFault
<1>3. ASSUME NEW p \in Erasers \cup Deleters, BarrierStep(p) \/ CloseError(p) \/ ReopenError(p) \/ VerifyError(p)
      PROVE  KeptClosed'
  <2>1. CASE Close(p)
    BY <1>3, <2>1, ProcAssumption DEF Close, Goto, KeptClosed, AloneStep, EraPC, TypeOK,
        Procs, Alone
  <2>2. CASE Reopen(p)
    BY <1>3, <2>2, ProcAssumption DEF Reopen, Goto, KeptClosed, AloneStep, EraPC, TypeOK,
        Procs, Alone
  <2>3. CASE CloseError(p)
    BY <1>3, <2>3, ProcAssumption DEF CloseError, Goto, KeptClosed, AloneStep, EraPC,
        TypeOK, Procs, Alone
  <2>4. CASE ReopenError(p)
    BY <1>3, <2>4, ProcAssumption DEF ReopenError, Goto, KeptClosed, AloneStep, EraPC,
        TypeOK, Procs, Alone
  <2>5. CASE VerifyError(p)
    BY <1>3, <2>5, ProcAssumption DEF VerifyError, Goto, KeptClosed, AloneStep, EraPC,
        TypeOK, Procs, Alone
  <2> QED
    BY <1>0, <1>3, <2>1, <2>2, <2>3, <2>4, <2>5 DEF BarrierStep
<1>4. ASSUME NEW a \in Erasers, EraBegin(a) \/ EraStep(a) \/ EraFault(a)
      PROVE  KeptClosed'
  <2>1. CASE EraBegin(a)
    BY <1>4, <2>1, ProcAssumption DEF EraBegin, Goto, KeptClosed, AloneStep, EraPC, TypeOK,
        Procs
  <2>2. CASE EraFind(a)
    BY <1>4, <2>2, ProcAssumption DEF EraFind, Goto, KeptClosed, AloneStep, EraPC, TypeOK,
        Procs
  <2>3. CASE EraLock(a)
    BY <1>4, <2>3, ProcAssumption DEF EraLock, Goto, KeptClosed, AloneStep, EraPC, TypeOK,
        Procs
  <2>4. CASE EraStage(a)
    BY <1>4, <2>4, ProcAssumption DEF EraStage, Goto, KeptClosed, AloneStep, EraPC, TypeOK,
        Procs
  <2>5. CASE EraCommit(a)
    BY <1>4, <2>5, ProcAssumption DEF EraCommit, Goto, KeptClosed, AloneStep, EraPC, TypeOK,
        Procs
  <2>6. CASE EraVerify(a)
    BY <1>4, <2>6, ProcAssumption DEF EraVerify, Goto, KeptClosed, AloneStep, EraPC, TypeOK,
        Procs
  <2>7. CASE EraRestore(a)
    BY <1>4, <2>7, ProcAssumption DEF EraRestore, Goto, KeptClosed, AloneStep, EraPC,
        TypeOK, Procs
  <2>8. CASE EraPurge(a)
    BY <1>4, <2>8, ProcAssumption DEF EraPurge, Goto, KeptClosed, AloneStep, EraPC, TypeOK,
        Procs
  <2>9. CASE EraDelete(a)
    BY <1>4, <2>9, ProcAssumption DEF EraDelete, Goto, KeptClosed, AloneStep, EraPC, TypeOK,
        Procs
  <2>10. CASE EraFindError(a)
    BY <1>4, <2>10, ProcAssumption DEF EraFindError, Goto, KeptClosed, AloneStep, EraPC,
        TypeOK, Procs
  <2>11. CASE EraRollback(a)
    BY <1>4, <2>11, ProcAssumption DEF EraRollback, Goto, KeptClosed, AloneStep, EraPC,
        TypeOK, Procs
  <2>12. CASE EraCommitError(a)
    BY <1>4, <2>12, ProcAssumption DEF EraCommitError, Goto, KeptClosed, AloneStep, EraPC,
        TypeOK, Procs
  <2>13. CASE EraPurgeError(a)
    BY <1>4, <2>13, ProcAssumption DEF EraPurgeError, Goto, KeptClosed, AloneStep, EraPC,
        TypeOK, Procs
  <2> QED
    BY <1>0, <1>4, <2>1, <2>2, <2>3, <2>4, <2>5, <2>6, <2>7, <2>8, <2>9, <2>10, <2>11, <2>12, <2>13 DEF
        EraStep, EraFault
<1>5. ASSUME NEW d \in Deleters, DelBegin(d) \/ DelStep(d) \/ DelFault(d)
      PROVE  KeptClosed'
  <2>1. CASE DelBegin(d)
    BY <1>5, <2>1, ProcAssumption DEF DelBegin, Goto, KeptClosed, AloneStep, EraPC, TypeOK,
        Procs, Alone
  <2>2. CASE DelFlock(d)
    BY <1>5, <2>2, ProcAssumption DEF DelFlock, Goto, KeptClosed, AloneStep, EraPC, TypeOK,
        Procs, Alone
  <2>3. CASE DelFind(d)
    BY <1>5, <2>3, ProcAssumption DEF DelFind, Goto, KeptClosed, AloneStep, EraPC, TypeOK,
        Procs, Alone
  <2>4. CASE DelNoDirectory(d)
    BY <1>5, <2>4, ProcAssumption DEF DelNoDirectory, Goto, KeptClosed, AloneStep, EraPC,
        TypeOK, Procs, Alone
  <2>5. CASE DelCommit(d)
    BY <1>5, <2>5, ProcAssumption DEF DelCommit, Goto, KeptClosed, AloneStep, EraPC, TypeOK,
        Procs, Alone
  <2>6. CASE DelMissing(d)
    BY <1>5, <2>6, ProcAssumption DEF DelMissing, Goto, KeptClosed, AloneStep, EraPC,
        TypeOK, Procs, Alone
  <2>7. CASE DelVerify(d)
    BY <1>5, <2>7, ProcAssumption DEF DelVerify, Goto, KeptClosed, AloneStep, EraPC, TypeOK,
        Procs, Alone
  <2>8. CASE DelPurge(d)
    BY <1>5, <2>8, ProcAssumption DEF DelPurge, Goto, KeptClosed, AloneStep, EraPC, TypeOK,
        Procs, Alone
  <2>9. CASE DelDelete(d)
    BY <1>5, <2>9, ProcAssumption DEF DelDelete, Goto, KeptClosed, AloneStep, EraPC, TypeOK,
        Procs, Alone
  <2>10. CASE DelError(d)
    BY <1>5, <2>10, ProcAssumption DEF DelError, Goto, KeptClosed, AloneStep, EraPC, TypeOK,
        Procs, Alone
  <2>11. CASE DelCommitError(d)
    BY <1>5, <2>11, ProcAssumption DEF DelCommitError, Goto, KeptClosed, AloneStep, EraPC,
        TypeOK, Procs, Alone
  <2>12. CASE DelPurgeError(d)
    BY <1>5, <2>12, ProcAssumption DEF DelPurgeError, Goto, KeptClosed, AloneStep, EraPC,
        TypeOK, Procs, Alone
  <2> QED
    BY <1>0, <1>5, <2>1, <2>2, <2>3, <2>4, <2>5, <2>6, <2>7, <2>8, <2>9, <2>10, <2>11, <2>12 DEF
        DelStep, DelFault
<1>6. CASE LockExpire
  BY <1>0, <1>6 DEF LockExpire, db, files
<1>7. CASE Overrun
  BY <1>0, <1>7 DEF Overrun, db, files
<1> QED
  BY <1>0, <1>1, <1>2, <1>3, <1>4, <1>5, <1>6, <1>7, Zenon DEF Next, vars

LEMMA OnlyStoppingNext ==
    ASSUME TypeOK, PutOpen, KeptClosed, OnlyStopping, AloneStep, [Next]_vars
    PROVE  OnlyStopping'
<1>0. ASSUME UNCHANGED <<overran, queue, found, pc>>
      PROVE  OnlyStopping'
  BY <1>0 DEF OnlyStopping, AloneStep
<1>1. ASSUME NEW e \in Enqueuers, EnqStep(e) \/ EnqError(e) \/ JobStep(e)
      PROVE  OnlyStopping'
  <2>1. CASE EnqCommit(e)
    BY <1>1, <2>1, ProcAssumption DEF EnqCommit, Goto, OnlyStopping, AloneStep, TypeOK,
        Procs
  <2>2. CASE EnqCheck(e)
    BY <1>1, <2>2, ProcAssumption DEF EnqCheck, Goto, OnlyStopping, AloneStep, TypeOK, Procs
  <2>3. CASE EnqPut(e)
    BY <1>1, <2>3, ProcAssumption DEF EnqPut, Goto, OnlyStopping, AloneStep, TypeOK, Procs,
        PutOpen, KeptClosed, EraPC
  <2>4. CASE EnqError(e)
    BY <1>1, <2>4, ProcAssumption DEF EnqError, Goto, OnlyStopping, AloneStep, TypeOK, Procs
  <2>5. CASE JobStart(e)
    BY <1>1, <2>5, ProcAssumption DEF JobStart, OnlyStopping, AloneStep, TypeOK, Procs
  <2>6. CASE JobEnd(e)
    BY <1>1, <2>6, ProcAssumption DEF JobEnd, OnlyStopping, AloneStep, TypeOK, Procs
  <2> QED
    BY <1>0, <1>1, <2>1, <2>2, <2>3, <2>4, <2>5, <2>6 DEF EnqStep, JobStep
<1>2. ASSUME NEW p \in Procs, Crash(p) \/ LockStep(p) \/ LockFault(p)
      PROVE  OnlyStopping'
  <2>1. CASE Acquire(p)
    BY <1>2, <2>1, ProcAssumption DEF Acquire, Goto, AfterAcquire, Waiting, OnlyStopping,
        AloneStep, TypeOK, Procs
  <2>2. CASE Release(p)
    BY <1>2, <2>2, ProcAssumption DEF Release, Goto, AfterRelease, OnlyStopping, AloneStep,
        TypeOK, Procs
  <2>3. CASE AcquireTimeout(p)
    BY <1>2, <2>3, ProcAssumption DEF AcquireTimeout, Goto, Waiting, OnlyStopping,
        AloneStep, TypeOK, Procs
  <2>4. CASE ReleaseError(p)
    BY <1>2, <2>4, ProcAssumption DEF ReleaseError, Goto, OnlyStopping, AloneStep, TypeOK,
        Procs
  <2>5. CASE Crash(p)
    BY <1>2, <2>5, ProcAssumption DEF Crash, Goto, OnlyStopping, AloneStep, TypeOK, Procs
  <2> QED
    BY <1>0, <1>2, <2>1, <2>2, <2>3, <2>4, <2>5 DEF LockStep, LockFault
<1>3. ASSUME NEW p \in Erasers \cup Deleters, BarrierStep(p) \/ CloseError(p) \/ ReopenError(p) \/ VerifyError(p)
      PROVE  OnlyStopping'
  <2>1. CASE Close(p)
    BY <1>3, <2>1, ProcAssumption DEF Close, Goto, OnlyStopping, AloneStep, TypeOK, Procs,
        Alone
  <2>2. CASE Reopen(p)
    BY <1>3, <2>2, ProcAssumption DEF Reopen, Goto, OnlyStopping, AloneStep, TypeOK, Procs,
        Alone
  <2>3. CASE CloseError(p)
    BY <1>3, <2>3, ProcAssumption DEF CloseError, Goto, OnlyStopping, AloneStep, TypeOK,
        Procs, Alone
  <2>4. CASE ReopenError(p)
    BY <1>3, <2>4, ProcAssumption DEF ReopenError, Goto, OnlyStopping, AloneStep, TypeOK,
        Procs, Alone
  <2>5. CASE VerifyError(p)
    BY <1>3, <2>5, ProcAssumption DEF VerifyError, Goto, OnlyStopping, AloneStep, TypeOK,
        Procs, Alone
  <2> QED
    BY <1>0, <1>3, <2>1, <2>2, <2>3, <2>4, <2>5 DEF BarrierStep
<1>4. ASSUME NEW a \in Erasers, EraBegin(a) \/ EraStep(a) \/ EraFault(a)
      PROVE  OnlyStopping'
  <2>1. CASE EraBegin(a)
    BY <1>4, <2>1, ProcAssumption DEF EraBegin, Goto, OnlyStopping, AloneStep, TypeOK,
        Procs, Alone
  <2>2. CASE EraFind(a)
    BY <1>4, <2>2, ProcAssumption DEF EraFind, Goto, OnlyStopping, AloneStep, TypeOK, Procs,
        Alone
  <2>3. CASE EraLock(a)
    BY <1>4, <2>3, ProcAssumption DEF EraLock, Goto, OnlyStopping, AloneStep, TypeOK, Procs,
        Alone
  <2>4. CASE EraStage(a)
    BY <1>4, <2>4, ProcAssumption DEF EraStage, Goto, OnlyStopping, AloneStep, TypeOK,
        Procs, Alone
  <2>5. CASE EraCommit(a)
    BY <1>4, <2>5, ProcAssumption DEF EraCommit, Goto, OnlyStopping, AloneStep, TypeOK,
        Procs, Alone
  <2>6. CASE EraVerify(a)
    BY <1>4, <2>6, ProcAssumption DEF EraVerify, Goto, OnlyStopping, AloneStep, TypeOK,
        Procs, Alone
  <2>7. CASE EraRestore(a)
    BY <1>4, <2>7, ProcAssumption DEF EraRestore, Goto, OnlyStopping, AloneStep, TypeOK,
        Procs, Alone
  <2>8. CASE EraPurge(a)
    BY <1>4, <2>8, ProcAssumption DEF EraPurge, Goto, OnlyStopping, AloneStep, TypeOK,
        Procs, Alone
  <2>9. CASE EraDelete(a)
    BY <1>4, <2>9, ProcAssumption DEF EraDelete, Goto, OnlyStopping, AloneStep, TypeOK,
        Procs, Alone
  <2>10. CASE EraFindError(a)
    BY <1>4, <2>10, ProcAssumption DEF EraFindError, Goto, OnlyStopping, AloneStep, TypeOK,
        Procs, Alone
  <2>11. CASE EraRollback(a)
    BY <1>4, <2>11, ProcAssumption DEF EraRollback, Goto, OnlyStopping, AloneStep, TypeOK,
        Procs, Alone
  <2>12. CASE EraCommitError(a)
    BY <1>4, <2>12, ProcAssumption DEF EraCommitError, Goto, OnlyStopping, AloneStep,
        TypeOK, Procs, Alone
  <2>13. CASE EraPurgeError(a)
    BY <1>4, <2>13, ProcAssumption DEF EraPurgeError, Goto, OnlyStopping, AloneStep, TypeOK,
        Procs, Alone
  <2> QED
    BY <1>0, <1>4, <2>1, <2>2, <2>3, <2>4, <2>5, <2>6, <2>7, <2>8, <2>9, <2>10, <2>11, <2>12, <2>13 DEF
        EraStep, EraFault
<1>5. ASSUME NEW d \in Deleters, DelBegin(d) \/ DelStep(d) \/ DelFault(d)
      PROVE  OnlyStopping'
  <2>1. CASE DelBegin(d)
    BY <1>5, <2>1, ProcAssumption DEF DelBegin, Goto, OnlyStopping, AloneStep, TypeOK,
        Procs, Alone
  <2>2. CASE DelFlock(d)
    BY <1>5, <2>2, ProcAssumption DEF DelFlock, Goto, OnlyStopping, AloneStep, TypeOK,
        Procs, Alone
  <2>3. CASE DelFind(d)
    BY <1>5, <2>3, ProcAssumption DEF DelFind, Goto, OnlyStopping, AloneStep, TypeOK, Procs,
        Alone
  <2>4. CASE DelNoDirectory(d)
    BY <1>5, <2>4, ProcAssumption DEF DelNoDirectory, Goto, OnlyStopping, AloneStep, TypeOK,
        Procs, Alone
  <2>5. CASE DelCommit(d)
    BY <1>5, <2>5, ProcAssumption DEF DelCommit, Goto, OnlyStopping, AloneStep, TypeOK,
        Procs, Alone
  <2>6. CASE DelMissing(d)
    BY <1>5, <2>6, ProcAssumption DEF DelMissing, Goto, OnlyStopping, AloneStep, TypeOK,
        Procs, Alone
  <2>7. CASE DelVerify(d)
    BY <1>5, <2>7, ProcAssumption DEF DelVerify, Goto, OnlyStopping, AloneStep, TypeOK,
        Procs, Alone
  <2>8. CASE DelPurge(d)
    BY <1>5, <2>8, ProcAssumption DEF DelPurge, Goto, OnlyStopping, AloneStep, TypeOK,
        Procs, Alone
  <2>9. CASE DelDelete(d)
    BY <1>5, <2>9, ProcAssumption DEF DelDelete, Goto, OnlyStopping, AloneStep, TypeOK,
        Procs, Alone
  <2>10. CASE DelError(d)
    BY <1>5, <2>10, ProcAssumption DEF DelError, Goto, OnlyStopping, AloneStep, TypeOK,
        Procs, Alone
  <2>11. CASE DelCommitError(d)
    BY <1>5, <2>11, ProcAssumption DEF DelCommitError, Goto, OnlyStopping, AloneStep,
        TypeOK, Procs, Alone
  <2>12. CASE DelPurgeError(d)
    BY <1>5, <2>12, ProcAssumption DEF DelPurgeError, Goto, OnlyStopping, AloneStep, TypeOK,
        Procs, Alone
  <2> QED
    BY <1>0, <1>5, <2>1, <2>2, <2>3, <2>4, <2>5, <2>6, <2>7, <2>8, <2>9, <2>10, <2>11, <2>12 DEF
        DelStep, DelFault
<1>6. CASE LockExpire
  BY <1>0, <1>6 DEF LockExpire, db, files
<1>7. CASE Overrun
  BY <1>7, ProcAssumption DEF Overrun, OnlyStopping, AloneStep, TypeOK, Procs
<1> QED
  BY <1>0, <1>1, <1>2, <1>3, <1>4, <1>5, <1>6, <1>7, Zenon DEF Next, vars

LEMMA NoWorkNext ==
    ASSUME TypeOK, PutOpen, NotEnqueuing, KeptClosed, OnlyStopping, ErasedTenantHasNoWork, AloneStep, [Next]_vars
    PROVE  ErasedTenantHasNoWork'
<1>0. ASSUME UNCHANGED <<overran, queue, pc>>
      PROVE  ErasedTenantHasNoWork'
  BY <1>0 DEF ErasedTenantHasNoWork, AloneStep
<1>1. ASSUME NEW e \in Enqueuers, EnqStep(e) \/ EnqError(e) \/ JobStep(e)
      PROVE  ErasedTenantHasNoWork'
  <2>1. CASE EnqCommit(e)
    BY <1>1, <2>1, ProcAssumption DEF EnqCommit, Goto, ErasedTenantHasNoWork, AloneStep,
        TypeOK, Procs
  <2>2. CASE EnqCheck(e)
    BY <1>1, <2>2, ProcAssumption DEF EnqCheck, Goto, ErasedTenantHasNoWork, AloneStep,
        TypeOK, Procs
  <2>3. CASE EnqPut(e)
    BY <1>1, <2>3, ProcAssumption DEF EnqPut, Goto, ErasedTenantHasNoWork, AloneStep,
        TypeOK, Procs, PutOpen, KeptClosed, EraPC
  <2>4. CASE EnqError(e)
    BY <1>1, <2>4, ProcAssumption DEF EnqError, Goto, ErasedTenantHasNoWork, AloneStep,
        TypeOK, Procs
  <2>5. CASE JobStart(e)
    BY <1>1, <2>5, ProcAssumption DEF JobStart, ErasedTenantHasNoWork, AloneStep, TypeOK,
        Procs
  <2>6. CASE JobEnd(e)
    BY <1>1, <2>6, ProcAssumption DEF JobEnd, ErasedTenantHasNoWork, AloneStep, TypeOK,
        Procs
  <2> QED
    BY <1>0, <1>1, <2>1, <2>2, <2>3, <2>4, <2>5, <2>6 DEF EnqStep, JobStep
<1>2. ASSUME NEW p \in Procs, Crash(p) \/ LockStep(p) \/ LockFault(p)
      PROVE  ErasedTenantHasNoWork'
  <2>1. CASE Acquire(p)
    BY <1>2, <2>1, ProcAssumption DEF Acquire, Goto, AfterAcquire, Waiting,
        ErasedTenantHasNoWork, AloneStep, TypeOK, Procs
  <2>2. CASE Release(p)
    BY <1>2, <2>2, ProcAssumption DEF Release, Goto, AfterRelease, ErasedTenantHasNoWork,
        AloneStep, TypeOK, Procs, NotEnqueuing
  <2>3. CASE AcquireTimeout(p)
    BY <1>2, <2>3, ProcAssumption DEF AcquireTimeout, Goto, Waiting, ErasedTenantHasNoWork,
        AloneStep, TypeOK, Procs
  <2>4. CASE ReleaseError(p)
    BY <1>2, <2>4, ProcAssumption DEF ReleaseError, Goto, ErasedTenantHasNoWork, AloneStep,
        TypeOK, Procs
  <2>5. CASE Crash(p)
    BY <1>2, <2>5, ProcAssumption DEF Crash, Goto, ErasedTenantHasNoWork, AloneStep, TypeOK,
        Procs
  <2> QED
    BY <1>0, <1>2, <2>1, <2>2, <2>3, <2>4, <2>5 DEF LockStep, LockFault
<1>3. ASSUME NEW p \in Erasers \cup Deleters, BarrierStep(p) \/ CloseError(p) \/ ReopenError(p) \/ VerifyError(p)
      PROVE  ErasedTenantHasNoWork'
  <2>1. CASE Close(p)
    BY <1>3, <2>1, ProcAssumption DEF Close, Goto, ErasedTenantHasNoWork, AloneStep, TypeOK,
        Procs, Alone
  <2>2. CASE Reopen(p)
    BY <1>3, <2>2, ProcAssumption DEF Reopen, Goto, ErasedTenantHasNoWork, AloneStep,
        TypeOK, Procs, Alone
  <2>3. CASE CloseError(p)
    BY <1>3, <2>3, ProcAssumption DEF CloseError, Goto, ErasedTenantHasNoWork, AloneStep,
        TypeOK, Procs, Alone
  <2>4. CASE ReopenError(p)
    BY <1>3, <2>4, ProcAssumption DEF ReopenError, Goto, ErasedTenantHasNoWork, AloneStep,
        TypeOK, Procs, Alone
  <2>5. CASE VerifyError(p)
    BY <1>3, <2>5, ProcAssumption DEF VerifyError, Goto, ErasedTenantHasNoWork, AloneStep,
        TypeOK, Procs, Alone
  <2> QED
    BY <1>0, <1>3, <2>1, <2>2, <2>3, <2>4, <2>5 DEF BarrierStep
<1>4. ASSUME NEW a \in Erasers, EraBegin(a) \/ EraStep(a) \/ EraFault(a)
      PROVE  ErasedTenantHasNoWork'
  <2>1. CASE EraBegin(a)
    BY <1>4, <2>1, ProcAssumption DEF EraBegin, Goto, ErasedTenantHasNoWork, AloneStep,
        TypeOK, Procs, Alone
  <2>2. CASE EraFind(a)
    BY <1>4, <2>2, ProcAssumption DEF EraFind, Goto, ErasedTenantHasNoWork, AloneStep,
        TypeOK, Procs, Alone
  <2>3. CASE EraLock(a)
    BY <1>4, <2>3, ProcAssumption DEF EraLock, Goto, ErasedTenantHasNoWork, AloneStep,
        TypeOK, Procs, Alone
  <2>4. CASE EraStage(a)
    BY <1>4, <2>4, ProcAssumption DEF EraStage, Goto, ErasedTenantHasNoWork, AloneStep,
        TypeOK, Procs, Alone
  <2>5. CASE EraCommit(a)
    BY <1>4, <2>5, ProcAssumption DEF EraCommit, Goto, ErasedTenantHasNoWork, AloneStep,
        TypeOK, Procs, Alone
  <2>6. CASE EraVerify(a)
    BY <1>4, <2>6, ProcAssumption DEF EraVerify, Goto, ErasedTenantHasNoWork, AloneStep,
        TypeOK, Procs, Alone
  <2>7. CASE EraRestore(a)
    BY <1>4, <2>7, ProcAssumption DEF EraRestore, Goto, ErasedTenantHasNoWork, AloneStep,
        TypeOK, Procs, Alone
  <2>8. CASE EraPurge(a)
    BY <1>4, <2>8, ProcAssumption DEF EraPurge, Goto, ErasedTenantHasNoWork, AloneStep,
        TypeOK, Procs, Alone
  <2>9. CASE EraDelete(a)
    BY <1>4, <2>9, ProcAssumption DEF EraDelete, Goto, ErasedTenantHasNoWork, AloneStep,
        TypeOK, Procs, Stopped, OnlyStopping, Alone
  <2>10. CASE EraFindError(a)
    BY <1>4, <2>10, ProcAssumption DEF EraFindError, Goto, ErasedTenantHasNoWork, AloneStep,
        TypeOK, Procs, Alone
  <2>11. CASE EraRollback(a)
    BY <1>4, <2>11, ProcAssumption DEF EraRollback, Goto, ErasedTenantHasNoWork, AloneStep,
        TypeOK, Procs, Alone
  <2>12. CASE EraCommitError(a)
    BY <1>4, <2>12, ProcAssumption DEF EraCommitError, Goto, ErasedTenantHasNoWork,
        AloneStep, TypeOK, Procs, Alone
  <2>13. CASE EraPurgeError(a)
    BY <1>4, <2>13, ProcAssumption DEF EraPurgeError, Goto, ErasedTenantHasNoWork,
        AloneStep, TypeOK, Procs, Alone
  <2> QED
    BY <1>0, <1>4, <2>1, <2>2, <2>3, <2>4, <2>5, <2>6, <2>7, <2>8, <2>9, <2>10, <2>11, <2>12, <2>13 DEF
        EraStep, EraFault
<1>5. ASSUME NEW d \in Deleters, DelBegin(d) \/ DelStep(d) \/ DelFault(d)
      PROVE  ErasedTenantHasNoWork'
  <2>1. CASE DelBegin(d)
    BY <1>5, <2>1, ProcAssumption DEF DelBegin, Goto, ErasedTenantHasNoWork, AloneStep,
        TypeOK, Procs, Alone
  <2>2. CASE DelFlock(d)
    BY <1>5, <2>2, ProcAssumption DEF DelFlock, Goto, ErasedTenantHasNoWork, AloneStep,
        TypeOK, Procs, Alone
  <2>3. CASE DelFind(d)
    BY <1>5, <2>3, ProcAssumption DEF DelFind, Goto, ErasedTenantHasNoWork, AloneStep,
        TypeOK, Procs, Alone
  <2>4. CASE DelNoDirectory(d)
    BY <1>5, <2>4, ProcAssumption DEF DelNoDirectory, Goto, ErasedTenantHasNoWork,
        AloneStep, TypeOK, Procs, Alone
  <2>5. CASE DelCommit(d)
    BY <1>5, <2>5, ProcAssumption DEF DelCommit, Goto, ErasedTenantHasNoWork, AloneStep,
        TypeOK, Procs, Alone
  <2>6. CASE DelMissing(d)
    BY <1>5, <2>6, ProcAssumption DEF DelMissing, Goto, ErasedTenantHasNoWork, AloneStep,
        TypeOK, Procs, Alone
  <2>7. CASE DelVerify(d)
    BY <1>5, <2>7, ProcAssumption DEF DelVerify, Goto, ErasedTenantHasNoWork, AloneStep,
        TypeOK, Procs, Alone
  <2>8. CASE DelPurge(d)
    BY <1>5, <2>8, ProcAssumption DEF DelPurge, Goto, ErasedTenantHasNoWork, AloneStep,
        TypeOK, Procs, Alone
  <2>9. CASE DelDelete(d)
    BY <1>5, <2>9, ProcAssumption DEF DelDelete, Goto, ErasedTenantHasNoWork, AloneStep,
        TypeOK, Procs, Alone
  <2>10. CASE DelError(d)
    BY <1>5, <2>10, ProcAssumption DEF DelError, Goto, ErasedTenantHasNoWork, AloneStep,
        TypeOK, Procs, Alone
  <2>11. CASE DelCommitError(d)
    BY <1>5, <2>11, ProcAssumption DEF DelCommitError, Goto, ErasedTenantHasNoWork,
        AloneStep, TypeOK, Procs, Alone
  <2>12. CASE DelPurgeError(d)
    BY <1>5, <2>12, ProcAssumption DEF DelPurgeError, Goto, ErasedTenantHasNoWork,
        AloneStep, TypeOK, Procs, Alone
  <2> QED
    BY <1>0, <1>5, <2>1, <2>2, <2>3, <2>4, <2>5, <2>6, <2>7, <2>8, <2>9, <2>10, <2>11, <2>12 DEF
        DelStep, DelFault
<1>6. CASE LockExpire
  BY <1>0, <1>6 DEF LockExpire, db, files
<1>7. CASE Overrun
  BY <1>7, ProcAssumption DEF Overrun, ErasedTenantHasNoWork, AloneStep, TypeOK, Procs
<1> QED
  BY <1>0, <1>1, <1>2, <1>3, <1>4, <1>5, <1>6, <1>7, Zenon DEF Next, vars

\* ErasureInv holds in every reachable state.
LEMMA ErasureInvariant == Spec => []ErasureInv
<1>1. Init => ErasureInv
  BY DEF Init, ErasureInv, NotEnqueuing, KeptClosed, OnlyStopping, ErasedTenantHasNoWork,
      EraPC, Procs
<1>2. TypeOK /\ Barrier /\ ErasureInv /\ [Next]_vars => ErasureInv'
  <2> SUFFICES ASSUME TypeOK, Barrier, ErasureInv, [Next]_vars
               PROVE  ErasureInv'
    OBVIOUS
  <2>1. AloneStep
    BY AloneNext
  <2> QED
    BY <2>1, NotEnqueuingNext, KeptClosedNext, OnlyStoppingNext, NoWorkNext
       DEF Barrier, ErasureInv
<1> QED
  BY <1>1, <1>2, BarrierInvariant, TypeCorrect, PTL DEF Spec

\* When an erasure returns, and for ever after, no job of the tenant is queued
\* or running: for any number of enqueuers, faults and crashes, while no other
\* request has closed the queue and no holder has outlasted the lock.
THEOREM ErasureLeavesNoWork == Spec => []ErasedTenantHasNoWork
<1>1. ErasureInv => ErasedTenantHasNoWork
  BY DEF ErasureInv
<1> QED
  BY <1>1, ErasureInvariant, PTL

-----------------------------------------------------------------------------
(* An erasure that rolls back.  AbortRestoresArtifacts needs to know, at every  *)
(* step of an erasure, which of the two places the directory is in.          *)

Unstaged == {"idle", "find", "lock", "stage"} \cup ClosePC \cup ReopenPC
InPlace(a) == path = "dir" /\ staged[a] = "none"
MovedAside(a) == path = "file" /\ staged[a] = "dir"

QuarantineAt(a) ==
    /\ pc[a] \in Unstaged => InPlace(a)
    /\ pc[a] \in {"commit", "verify"} => MovedAside(a)
    /\ pc[a] = "restore" => InPlace(a) \/ MovedAside(a)

Quarantine == \A a \in Erasers : Alone(a) => QuarantineAt(a)

\* A step of another process, or one that moves neither files nor erasers.
LEMMA QuarantineKept ==
    ASSUME Quarantine, AloneStep, UNCHANGED files,
           \A a \in Erasers : pc'[a] = pc[a]
    PROVE  Quarantine'
BY DEF Quarantine, QuarantineAt, InPlace, MovedAside, AloneStep, files

\* A step of a process that closes the queue and has begun: every other eraser
\* is not alone.
LEMMA QuarantineOwn ==
    ASSUME TypeOK, Quarantine, AloneStep, NEW p \in Erasers \cup Deleters, NEW next \in PC,
           Goto(p, next), next # "idle",
           p \in Erasers /\ QuarantineAt(p) => QuarantineAt(p)'
    PROVE  Quarantine'
<1> SUFFICES ASSUME NEW a \in Erasers, Alone(a)'
             PROVE  QuarantineAt(a)'
  BY DEF Quarantine
<1>1. pc'[p] = next
  BY DEF Goto, TypeOK, Procs
<1>2. a = p
  BY <1>1 DEF Alone
<1>3. QuarantineAt(a)
  BY DEF Quarantine, AloneStep
<1> QED
  BY <1>2, <1>3

LEMMA QuarantineNext ==
    ASSUME TypeOK, NotEnqueuing, Quarantine, AloneStep, [Next]_vars
    PROVE  Quarantine'
<1>0. ASSUME UNCHANGED files, UNCHANGED pc
      PROVE  Quarantine'
  BY <1>0, QuarantineKept
<1>pc. pc \in [Procs -> PC]
  BY DEF TypeOK
<1>st. staged \in [Erasers -> {"none", "dir", "file"}]
  BY DEF TypeOK
<1>1. ASSUME NEW e \in Enqueuers, EnqStep(e) \/ EnqError(e) \/ JobStep(e)
      PROVE  Quarantine'
  <2>1. ASSUME EnqCommit(e) \/ EnqCheck(e) \/ EnqPut(e) \/ EnqError(e)
        PROVE  UNCHANGED files /\ \A a \in Erasers : pc'[a] = pc[a]
    BY <1>pc, <2>1, ProcAssumption DEF EnqCommit, EnqCheck, EnqPut, EnqError, Goto, Procs
  <2>2. ASSUME JobStart(e) \/ JobEnd(e)
        PROVE  UNCHANGED files /\ UNCHANGED pc
    BY <2>2 DEF JobStart, JobEnd
  <2> QED
    BY <1>0, <1>1, <2>1, <2>2, QuarantineKept DEF EnqStep, JobStep
<1>2. ASSUME NEW p \in Procs, Crash(p) \/ LockStep(p) \/ LockFault(p)
      PROVE  Quarantine'
  <2> DEFINE next == pc'[p]
  <2>1. /\ UNCHANGED files
        /\ Goto(p, next)
        /\ next \in PC \ {"idle"}
        /\ \/ next \in {"ended", "crashed", "done"}
           \/ pc[p] = "wait" /\ next = "check"
           \/ pc[p] \in ClosePC /\ next \in ClosePC \cup {"find"}
           \/ pc[p] \in ReopenPC /\ next \in ReopenPC
    <3>1. CASE Acquire(p)
      BY <1>pc, <3>1 DEF Acquire, Waiting, AfterAcquire, Goto, PC, EnqPC, ClosePC, ReopenPC
    <3>2. CASE Release(p)
      BY <1>pc, <3>2 DEF Release, AfterRelease, Goto, PC, EnqPC, EraPC, ClosePC, ReopenPC
    <3>3. CASE AcquireTimeout(p) \/ ReleaseError(p) \/ Crash(p)
      BY <1>pc, <3>3 DEF AcquireTimeout, ReleaseError, Crash, Goto, PC
    <3> QED
      BY <1>2, <3>1, <3>2, <3>3 DEF LockStep, LockFault
  <2>2. CASE p \in Enqueuers
    <3>1. \A a \in Erasers : pc'[a] = pc[a]
      BY <1>pc, <2>1, <2>2, ProcAssumption DEF Goto, Procs
    <3> QED
      BY <2>1, <3>1, QuarantineKept
  <2>3. CASE p \in Erasers \cup Deleters
    <3>1. p \in Erasers => pc[p] # "wait"
      BY DEF NotEnqueuing
    <3>2. p \in Erasers /\ QuarantineAt(p) => QuarantineAt(p)'
      BY <2>1, <3>1 DEF QuarantineAt, InPlace, MovedAside, Unstaged, ClosePC, ReopenPC, files
    <3> QED
      BY <2>1, <2>3, <3>2, QuarantineOwn
  <2> QED
    BY <2>2, <2>3 DEF Procs
<1>3. ASSUME NEW p \in Erasers \cup Deleters, BarrierStep(p) \/ CloseError(p) \/ ReopenError(p) \/ VerifyError(p)
      PROVE  Quarantine'
  <2> DEFINE next == pc'[p]
  <2>1. /\ UNCHANGED files
        /\ Goto(p, next)
        /\ next \in PC \ {"idle"}
        /\ \/ pc[p] \in ClosePC /\ next \in ClosePC
           \/ pc[p] \in ReopenPC /\ next \in ReopenPC
           \/ next = "ended"
           \/ p \notin Erasers
    BY <1>pc, <1>3 DEF BarrierStep, Close, Reopen, CloseError, ReopenError, VerifyError, Goto,
        Procs, PC, ClosePC, ReopenPC
  <2>2. p \in Erasers /\ QuarantineAt(p) => QuarantineAt(p)'
    BY <2>1 DEF QuarantineAt, InPlace, MovedAside, Unstaged, ClosePC, ReopenPC, files
  <2> QED
    BY <2>1, <2>2, QuarantineOwn
<1>4. ASSUME NEW a \in Erasers, EraBegin(a) \/ EraStep(a) \/ EraFault(a)
      PROVE  Quarantine'
  <2> DEFINE next == pc'[a]
  <2>1. /\ Goto(a, next)
        /\ next \in PC \ {"idle"}
        /\ QuarantineAt(a) => QuarantineAt(a)'
    <3>1. CASE EraBegin(a) \/ EraFind(a) \/ EraLock(a)
      BY <1>pc, <1>st, <3>1 DEF EraBegin, EraFind, EraLock, Goto, Procs, files, PC, EnqPC,
          EraPC, ClosePC, ReopenPC, QuarantineAt, InPlace, MovedAside, Unstaged
    <3>2. CASE EraStage(a)
      BY <1>pc, <1>st, <3>2 DEF EraStage, Goto, Procs, files, PC, EnqPC, EraPC, ClosePC,
          ReopenPC, QuarantineAt, InPlace, MovedAside, Unstaged
    <3>3. CASE EraCommit(a) \/ EraPurge(a)
      BY <1>pc, <1>st, <3>3 DEF EraCommit, EraPurge, Goto, Procs, files, PC, EnqPC, EraPC,
          ClosePC, ReopenPC, QuarantineAt, InPlace, MovedAside, Unstaged
    <3>4. CASE EraVerify(a)
      BY <1>pc, <1>st, <3>4 DEF EraVerify, Goto, Procs, files, PC, EnqPC, EraPC, ClosePC,
          ReopenPC, QuarantineAt, InPlace, MovedAside, Unstaged
    <3>5. CASE EraRestore(a)
      BY <1>pc, <1>st, <3>5 DEF EraRestore, Goto, Procs, files, PC, EnqPC, EraPC, ClosePC,
          ReopenPC, QuarantineAt, InPlace, MovedAside, Unstaged
    <3>6. CASE EraDelete(a) \/ EraPurgeError(a)
      BY <1>pc, <1>st, <3>6 DEF EraDelete, EraPurgeError, Goto, Procs, files, PC, EnqPC,
          EraPC, ClosePC, ReopenPC, QuarantineAt, InPlace, MovedAside, Unstaged
    <3>7. CASE EraFindError(a) \/ EraRollback(a)
      BY <1>pc, <1>st, <3>7 DEF EraFindError, EraRollback, Goto, Procs, files, PC, EnqPC,
          EraPC, ClosePC, ReopenPC, QuarantineAt, InPlace, MovedAside, Unstaged
    <3>8. CASE EraCommitError(a)
      BY <1>pc, <1>st, <3>8 DEF EraCommitError, Goto, Procs, files, PC, EnqPC, EraPC,
          ClosePC, ReopenPC, QuarantineAt, InPlace, MovedAside, Unstaged
    <3> QED
      BY <1>4, <3>1, <3>2, <3>3, <3>4, <3>5, <3>6, <3>7, <3>8 DEF EraStep, EraFault
  <2> QED
    BY <2>1, QuarantineOwn
<1>5. ASSUME NEW d \in Deleters, DelBegin(d) \/ DelStep(d) \/ DelFault(d)
      PROVE  Quarantine'
  <2> DEFINE next == pc'[d]
  <2>1. /\ Goto(d, next)
        /\ next \in PC \ {"idle"}
    BY <1>pc, <1>5 DEF DelBegin, DelStep, DelFault, DelFlock, DelFind, DelNoDirectory, DelCommit,
        DelMissing, DelVerify, DelPurge, DelDelete, DelError, DelCommitError, DelPurgeError,
        Goto, Procs, PC, ClosePC, ReopenPC, DelPC
  <2> QED
    BY <2>1, QuarantineOwn, ProcAssumption
<1>6. CASE LockExpire \/ Overrun
  BY <1>0, <1>6 DEF LockExpire, Overrun
<1> QED
  BY <1>0, <1>1, <1>2, <1>3, <1>4, <1>5, <1>6, Zenon DEF Next, vars, files

\* An erasure that is rolled back, at whatever point it failed, reopens the
\* queue only with the directory of the tenant in its place, while no other
\* request has closed the queue.
THEOREM AbortedErasureRestores == Spec => []AbortRestoresArtifacts
<1>1. Init => Quarantine
  BY DEF Init, Quarantine, QuarantineAt, InPlace, MovedAside, Procs
<1>2. TypeOK /\ ErasureInv /\ Quarantine /\ [Next]_vars => Quarantine'
  BY AloneNext, QuarantineNext DEF ErasureInv
<1>3. Quarantine => AbortRestoresArtifacts
  BY DEF Quarantine, QuarantineAt, InPlace, Unstaged, AbortRestoresArtifacts
<1> QED
  BY <1>1, <1>2, <1>3, ErasureInvariant, TypeCorrect, PTL DEF Spec

=============================================================================
