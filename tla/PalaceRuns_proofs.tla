-------------------------- MODULE PalaceRuns_proofs --------------------------
(***************************************************************************)
(* Theorems about PalaceRuns, for all items, runs, mark jobs and bounds.   *)
(***************************************************************************)
EXTENDS PalaceRuns, TLAPS

-----------------------------------------------------------------------------
(* What the helpers assign *)

\* A process moves on.
LEMMA GoType ==
    ASSUME task \in [Tasks -> Task], NEW t \in Tasks, NEW pc \in Steps, Go(t, pc)
    PROVE  /\ task' \in [Tasks -> Task]
           /\ \A u \in Tasks : task'[u].pc = IF u = t THEN pc ELSE task[u].pc
           /\ \A u \in Tasks : task'[u].gen = task[u].gen
<1> DEFINE new == [task[t] EXCEPT !.pc = pc]
<1>1. task' = [task EXCEPT ![t] = new]
  BY DEF Go
<1>2. new \in Task /\ new.pc = pc /\ new.gen = task[t].gen
  BY DEF Task
<1> HIDE DEF new
<1> QED
  BY <1>1, <1>2

\* A process moves on with a generation it has read.
LEMMA ReadType ==
    ASSUME task \in [Tasks -> Task], NEW t \in Tasks, NEW pc \in Steps, NEW g \in Nat,
           task' = [task EXCEPT ![t].pc = pc, ![t].gen = g]
    PROVE  /\ task' \in [Tasks -> Task]
           /\ \A u \in Tasks : task'[u].pc = IF u = t THEN pc ELSE task[u].pc
           /\ \A u \in Tasks : task'[u].gen = IF u = t THEN g ELSE task[u].gen
<1> DEFINE new == [[task[t] EXCEPT !.pc = pc] EXCEPT !.gen = g]
<1>1. task' = [task EXCEPT ![t] = new]
  OBVIOUS
<1>2. new \in Task /\ new.pc = pc /\ new.gen = g
  BY DEF Task
<1> HIDE DEF new
<1> QED
  BY <1>1, <1>2

LEMMA IdleType ==
    Idle \in Task /\ Idle.pc = "idle" /\ Idle.gen = 0
BY DEF Idle, Task, Steps, Building

\* A process is done.
LEMMA EndType ==
    ASSUME task \in [Tasks -> Task], NEW t \in Tasks, End(t)
    PROVE  /\ task' \in [Tasks -> Task]
           /\ \A u \in Tasks : task'[u].pc = IF u = t THEN "idle" ELSE task[u].pc
           /\ \A u \in Tasks : task'[u].gen = IF u = t THEN 0 ELSE task[u].gen
BY IdleType DEF End

\* A process inserts a run.
LEMMA InsertType ==
    ASSUME task \in [Tasks -> Task], run \in [Runs -> Run],
           NEW t \in Tasks, NEW r \in Runs, NEW g \in Nat, Insert(t, r, g)
    PROVE  /\ task' \in [Tasks -> Task]
           /\ \A u \in Tasks : task'[u].pc = IF u = t THEN "created" ELSE task[u].pc
           /\ \A u \in Tasks : task'[u].gen = task[u].gen
           /\ run' \in [Runs -> Run]
           /\ \A o \in Runs : run'[o].status = IF o = r THEN "queued" ELSE run[o].status
<1> DEFINE new == [[task[t] EXCEPT !.pc = "created"] EXCEPT !.run = r]
<1>1. task' = [task EXCEPT ![t] = new]
  BY DEF Insert
<1>2. new \in Task /\ new.pc = "created" /\ new.gen = task[t].gen
  BY DEF Task, Steps, Building
<1> HIDE DEF new
<1>3. /\ task' \in [Tasks -> Task]
      /\ \A u \in Tasks : task'[u].pc = IF u = t THEN "created" ELSE task[u].pc
      /\ \A u \in Tasks : task'[u].gen = task[u].gen
  BY <1>1, <1>2
<1> DEFINE fresh == [status |-> "queued", requested |-> g]
<1>4. run' = [run EXCEPT ![r] = fresh]
  BY DEF Insert
<1>5. fresh \in Run /\ fresh.status = "queued"
  BY DEF Run, RunStatus, ActiveStatuses
<1> HIDE DEF fresh
<1> QED
  BY <1>3, <1>4, <1>5

\* The status of one run changes.
LEMMA StatusType ==
    ASSUME run \in [Runs -> Run], NEW r \in Runs, NEW s \in RunStatus,
           run' = [run EXCEPT ![r].status = s]
    PROVE  /\ run' \in [Runs -> Run]
           /\ \A o \in Runs : run'[o].status = IF o = r THEN s ELSE run[o].status
<1> DEFINE new == [run[r] EXCEPT !.status = s]
<1>1. run' = [run EXCEPT ![r] = new]
  OBVIOUS
<1>2. new \in Run /\ new.status = s
  BY DEF Run
<1> HIDE DEF new
<1> QED
  BY <1>1, <1>2

LEMMA NoBuildType == NoBuild \in Build /\ NoBuild.rows = {}
BY DEF NoBuild, Build

\* What a build has read is dropped.
LEMMA DropType ==
    ASSUME build \in [Runs -> Build], NEW r \in Runs, Drop(r)
    PROVE  /\ build' \in [Runs -> Build]
           /\ \A o \in Runs : build'[o] = IF o = r THEN NoBuild ELSE build[o]
BY NoBuildType DEF Drop

\* A creator's mark job or process goes, and the build of its run is queued.
LEMMA EnqueueType ==
    ASSUME task \in [Tasks -> Task], NEW t \in Tasks, Enqueue(t)
    PROVE  /\ task' \in [Tasks -> Task]
           /\ \A u \in Tasks : task'[u].pc \in {"idle", "queued", task[u].pc}
<1> DEFINE mid == [task EXCEPT ![t] = Idle]
           r == task[t].run
           new == [mid[r] EXCEPT !.pc = "queued"]
<1>1. task' = [mid EXCEPT ![r] = new]
  BY DEF Enqueue
<1>2. mid \in [Tasks -> Task] /\ \A u \in Tasks : mid[u].pc \in {"idle", task[u].pc}
  BY IdleType
<1> HIDE DEF mid
<1>3. r \in Tasks => new \in Task /\ new.pc = "queued"
  BY <1>2 DEF Task, Steps, Building
<1> HIDE DEF new, r
<1>4. CASE r \in Tasks
  BY <1>1, <1>2, <1>3, <1>4
<1>5. CASE r \notin Tasks
  <2>1. task' = mid
    BY <1>1, <1>2, <1>5
  <2> QED
    BY <1>2, <2>1
<1> QED
  BY <1>4, <1>5

\* A job that a crash cut off waits to be executed again.
LEMMA CrashType ==
    ASSUME task \in [Tasks -> Task], NEW t \in Tasks, WorkerCrash(t)
    PROVE  /\ task' \in [Tasks -> Task]
           /\ \A u \in Tasks : task'[u].pc = IF u = t THEN "queued" ELSE task[u].pc
           /\ \A u \in Tasks : u # t => task'[u].gen = task[u].gen
<1> DEFINE new == [Idle EXCEPT !.pc = "queued", !.item = task[t].item]
<1>1. task' = [task EXCEPT ![t] = new]
  BY DEF WorkerCrash
<1>2. new \in Task /\ new.pc = "queued"
  BY DEF Idle, Task, Steps, Building
<1> HIDE DEF new
<1> QED
  BY <1>1, <1>2

-----------------------------------------------------------------------------
(* Types *)

\* The steps of Next, one by one.
LEMMA NextCases ==
    Next => \/ \E m \in MarkJobs, k \in Items : Change(m, k)
            \/ \E m \in MarkJobs : MarkRead(m) \/ MarkCommit(m) \/ MarkRaises(m)
            \/ \E t \in Tasks : \/ SeeBacklog(t) \/ Check(t) \/ CreateRun(t)
                               \/ Enqueue(t) \/ WorkerCrash(t) \/ AskLost(t)
            \/ Start \/ StartRead
            \/ \E o \in Runs : \/ Retry(o) \/ BuildOpen(o) \/ BuildStart(o) \/ BuildRead(o)
                              \/ BuildRoute(o) \/ BuildArtifacts(o) \/ BuildFinish(o)
                              \/ CaughtUp(o) \/ BuildFail(o) \/ BuildTimeout(o)
BY Zenon DEF Next, Tasks, Askers, BuildStep

\* A build reads dirty rows and the versions of their items.
LEMMA ReadBuild ==
    ASSUME build \in [Runs -> Build], version \in [Items -> Nat], NEW r \in Runs, BuildRead(r)
    PROVE  /\ build' \in [Runs -> Build]
           /\ \A o \in Runs : o # r => build'[o] = build[o]
           /\ \A i \in build'[r].rows : i \in Items /\ row[i] # 0 /\ build'[r].seen[i] = version[i]
<1> DEFINE due == {i \in Items : row[i] # 0 /\ row[i] <= run[r].requested}
           routes == IF due = {} /\ build[r].indexed = 0 THEN Items ELSE due
           taken == [i \in Items |-> IF i \in routes THEN version[i] ELSE 0]
           new == [[build[r] EXCEPT !.rows = due] EXCEPT !.seen = taken]
<1>1. build' = [build EXCEPT ![r] = new]
  BY DEF BuildRead
<1>2. due \in SUBSET Items /\ \A i \in due : i \in Items /\ row[i] # 0 /\ i \in routes
  OBVIOUS
<1> HIDE DEF due
<1> HIDE DEF routes
<1>3. taken \in [Items -> Nat] /\ \A i \in due : taken[i] = version[i]
  BY <1>2
<1> HIDE DEF taken
<1>4. new \in Build /\ new.rows = due /\ new.seen = taken
  BY <1>2, <1>3 DEF Build
<1> HIDE DEF new
<1> QED
  BY <1>1, <1>2, <1>3, <1>4

\* A build reads the state of the tenant.
LEMMA OpenBuild ==
    ASSUME build \in [Runs -> Build], indexed \in Nat, NEW r \in Runs, BuildOpen(r)
    PROVE  build' \in [Runs -> Build]
<1> DEFINE had == (lease = r)
           new == [[build[r] EXCEPT !.indexed = indexed] EXCEPT !.held = had]
<1>1. build' = [build EXCEPT ![r] = new]
  BY DEF BuildOpen
<1>2. had \in BOOLEAN
  OBVIOUS
<1> HIDE DEF had
<1>3. new \in Build
  BY <1>2 DEF Build
<1> HIDE DEF new
<1> QED
  BY <1>1, <1>3

LEMMA StartBuild ==
    ASSUME build \in [Runs -> Build], NEW r \in Runs, BuildStart(r)
    PROVE  build' \in [Runs -> Build]
<1> DEFINE new == [build[r] EXCEPT !.held = FALSE]
<1>1. build' = [build EXCEPT ![r] = new]
  BY DEF BuildStart
<1>2. new \in Build
  BY DEF Build
<1> HIDE DEF new
<1> QED
  BY <1>1, <1>2

\* The rows a build has deleted leave every build; nothing else does.
LEMMA FinishBuild ==
    ASSUME build \in [Runs -> Build], NEW r \in Runs, BuildFinish(r)
    PROVE  build' \in [Runs -> Build]
<1>1. ASSUME NEW o \in Runs
      PROVE  build'[o] \in Build
  <2>1. CASE o = r
    BY <2>1, NoBuildType DEF BuildFinish
  <2>2. CASE o # r
    <3>1. build'[o] = [build[o] EXCEPT !.rows = @ \ build[r].rows]
      BY <2>2 DEF BuildFinish, Deleted
    <3> QED
      BY <3>1 DEF Build
  <2> QED
    BY <2>1, <2>2
<1>2. build' = [o \in Runs |-> build'[o]]
  BY DEF BuildFinish
<1> QED
  BY <1>1, <1>2

LEMMA FinishRows ==
    ASSUME build \in [Runs -> Build], NEW r \in Runs, BuildFinish(r), NEW o \in Runs
    PROVE  build'[o].rows \subseteq build[o].rows \ build[r].rows
<1>1. CASE o = r
  BY <1>1, NoBuildType DEF BuildFinish
<1>2. CASE o # r
  <2>1. build'[o] = [build[o] EXCEPT !.rows = @ \ build[r].rows]
    BY <1>2 DEF BuildFinish, Deleted
  <2> QED
    BY <2>1 DEF Build
<1> QED
  BY <1>1, <1>2

LEMMA FinishSeen ==
    ASSUME build \in [Runs -> Build], NEW r \in Runs, BuildFinish(r), NEW o \in Runs, o # r
    PROVE  build'[o].seen = build[o].seen
<1>1. build'[o] = [build[o] EXCEPT !.rows = @ \ build[r].rows]
  BY DEF BuildFinish, Deleted
<1> QED
  BY <1>1 DEF Build

\* Every step keeps the types.
LEMMA TypeNext ==
    ASSUME TypeOK, [Next]_vars
    PROVE  TypeOK'
<1>0. /\ version \in [Items -> Nat] /\ routed \in [Items -> Nat]
      /\ dirty \in Nat /\ indexed \in Nat
      /\ lease \in Runs \cup {"none"}
      /\ row \in [Items -> Nat] /\ born \in [Items -> Nat]
      /\ run \in [Runs -> Run]
      /\ build \in [Runs -> Build]
      /\ task \in [Tasks -> Task]
      /\ events \in Nat
  BY DEF TypeOK
<1>tasks. /\ MarkJobs \subseteq Tasks /\ Runs \subseteq Tasks /\ Askers \subseteq Tasks
          /\ "api" \in Tasks
          /\ Building \subseteq Steps
          /\ {"idle", "queued", "opening", "marking", "follow", "asking",
            "reading", "creating", "created"} \subseteq Steps
  BY DEF Tasks, Askers, Steps
<1>1. ASSUME NEW m \in MarkJobs, NEW i \in Items, Change(m, i)
      PROVE  TypeOK'
  <2>1. task' \in [Tasks -> Task]
    <3> DEFINE new == [[task[m] EXCEPT !.pc = "queued"] EXCEPT !.item = i]
    <3>1. task' = [task EXCEPT ![m] = new]
      BY <1>1 DEF Change
    <3>2. new \in Task
      BY <1>0, <1>tasks, <1>1 DEF Task
    <3> HIDE DEF new
    <3> QED
      BY <1>0, <1>tasks, <1>1, <3>1, <3>2
  <2>2. version' \in [Items -> Nat]
    BY <1>0, <1>1 DEF Change
  <2> QED
    BY <1>0, <1>1, <2>1, <2>2 DEF TypeOK, Change
<1>2. ASSUME NEW m \in MarkJobs, MarkRead(m)
      PROVE  TypeOK'
  <2>1. dirty + 1 \in Nat
    BY <1>0
  <2>2. task' \in [Tasks -> Task]
    BY <1>0, <1>tasks, <1>2, <2>1, ReadType DEF MarkRead
  <2> QED
    BY <1>0, <1>2, <2>1, <2>2 DEF TypeOK, MarkRead
<1>3. ASSUME NEW m \in MarkJobs, MarkCommit(m)
      PROVE  TypeOK'
  <2>1. task[m].gen \in Nat /\ task[m] \in Task
    BY <1>0, <1>tasks, <1>3 DEF Task
  <2>2. dirty' \in Nat /\ row' \in [Items -> Nat] /\ born' \in [Items -> Nat]
    BY <1>0, <2>1, <1>3 DEF MarkCommit
  <2>3. task' \in [Tasks -> Task] /\ run' \in [Runs -> Run] /\ lease' \in Runs \cup {"none"}
    <3>1. CASE Coalesce(m)
      BY <1>0, <1>tasks, <3>1, EndType DEF Coalesce
    <3>2. ASSUME NEW r \in Runs, Create(m, r, task[m].gen)
          PROVE  /\ task' \in [Tasks -> Task] /\ run' \in [Runs -> Run]
                 /\ lease' \in Runs \cup {"none"}
      BY <1>0, <1>tasks, <2>1, <3>2, InsertType DEF Create
    <3> QED
      BY <1>3, <3>1, <3>2 DEF MarkCommit
  <2> QED
    BY <1>0, <1>3, <2>1, <2>2, <2>3 DEF TypeOK, MarkCommit
<1>4. ASSUME NEW m \in MarkJobs, MarkRaises(m)
      PROVE  TypeOK'
  <2>1. task' \in [Tasks -> Task]
    BY <1>0, <1>tasks, <1>4, EndType DEF MarkRaises
  <2> QED
    BY <1>0, <1>4, <2>1 DEF TypeOK, MarkRaises, Event
<1>5. ASSUME NEW t \in Tasks, SeeBacklog(t)
      PROVE  TypeOK'
  <2>1. task' \in [Tasks -> Task]
    BY <1>0, <1>tasks, <1>5, ReadType DEF SeeBacklog
  <2> QED
    BY <1>0, <1>5, <2>1 DEF TypeOK, SeeBacklog
<1>6. ASSUME NEW t \in Tasks, Check(t)
      PROVE  TypeOK'
  <2>1. task' \in [Tasks -> Task]
    <3>1. CASE SomeActive
      BY <1>0, <1>6, <3>1, EndType DEF Check
    <3>2. CASE ~SomeActive
      BY <1>0, <1>tasks, <1>6, <3>2, GoType DEF Check
    <3> QED
      BY <3>1, <3>2
  <2> QED
    BY <1>0, <1>6, <2>1 DEF TypeOK, Check
<1>7. ASSUME NEW t \in Tasks, CreateRun(t)
      PROVE  TypeOK'
  <2>1. PICK r \in Runs : Create(t, r, task[t].gen)
    BY <1>7 DEF CreateRun
  <2>2. task[t].gen \in Nat
    BY <1>0, <1>7 DEF Task
  <2>3. task' \in [Tasks -> Task] /\ run' \in [Runs -> Run] /\ lease' \in Runs \cup {"none"}
    BY <1>0, <1>7, <2>1, <2>2, InsertType DEF Create
  <2> QED
    BY <1>0, <1>7, <2>1, <2>2, <2>3 DEF TypeOK, CreateRun
<1>8. ASSUME Start
      PROVE  TypeOK'
  <2>1. task' \in [Tasks -> Task]
    BY <1>0, <1>tasks, <1>8, GoType DEF Start
  <2> QED
    BY <1>0, <1>8, <2>1 DEF TypeOK, Start, Event
<1>9. ASSUME StartRead
      PROVE  TypeOK'
  <2>1. task' \in [Tasks -> Task]
    BY <1>0, <1>tasks, <1>9, ReadType DEF StartRead
  <2> QED
    BY <1>0, <1>9, <2>1 DEF TypeOK, StartRead
<1>10. ASSUME NEW old \in Runs, Retry(old)
      PROVE  TypeOK'
  <2>1. PICK r \in Runs : Insert("api", r, run[old].requested)
    BY <1>10 DEF Retry
  <2>2. run[old].requested \in Nat
    BY <1>0, <1>10 DEF Run
  <2>3. task' \in [Tasks -> Task] /\ run' \in [Runs -> Run]
    BY <1>0, <1>tasks, <1>10, <2>1, <2>2, InsertType
  <2> QED
    BY <1>0, <1>10, <2>1, <2>2, <2>3 DEF TypeOK, Retry, Event
<1>11. ASSUME NEW t \in Tasks, Enqueue(t)
      PROVE  TypeOK'
  <2>1. task' \in [Tasks -> Task]
    BY <1>0, <1>11, EnqueueType
  <2> QED
    BY <1>0, <1>11, <2>1 DEF TypeOK, Enqueue
<1>12. ASSUME NEW r \in Runs, BuildOpen(r)
      PROVE  TypeOK'
  <2>1. task' \in [Tasks -> Task]
    BY <1>0, <1>tasks, <1>12, GoType DEF BuildOpen, Building, Steps
  <2>2. build' \in [Runs -> Build]
    BY <1>0, <1>12, OpenBuild
  <2> QED
    BY <1>0, <1>12, <2>1, <2>2 DEF TypeOK, BuildOpen
<1>13. ASSUME NEW r \in Runs, BuildStart(r)
      PROVE  TypeOK'
  <2>1. task' \in [Tasks -> Task]
    BY <1>0, <1>tasks, <1>13, GoType DEF BuildStart, Building, Steps
  <2>2. run' \in [Runs -> Run]
    <3>1. "routing" \in RunStatus
      BY DEF RunStatus, ActiveStatuses
    <3> QED
      BY <1>0, <1>13, <3>1, StatusType DEF BuildStart
  <2>3. build' \in [Runs -> Build]
    BY <1>0, <1>13, StartBuild
  <2> QED
    BY <1>0, <1>13, <2>1, <2>2, <2>3 DEF TypeOK, BuildStart
<1>14. ASSUME NEW r \in Runs, BuildRead(r)
      PROVE  TypeOK'
  <2>1. task' \in [Tasks -> Task]
    BY <1>0, <1>tasks, <1>14, GoType DEF BuildRead, Building, Steps
  <2>2. build' \in [Runs -> Build]
    BY <1>0, <1>14, ReadBuild
  <2> QED
    BY <1>0, <1>14, <2>1, <2>2 DEF TypeOK, BuildRead
<1>15. ASSUME NEW r \in Runs, BuildRoute(r)
      PROVE  TypeOK'
  <2>1. task' \in [Tasks -> Task]
    BY <1>0, <1>tasks, <1>15, GoType DEF BuildRoute, Building, Steps
  <2>2. run' \in [Runs -> Run]
    <3>1. "snapshotting" \in RunStatus
      BY DEF RunStatus, ActiveStatuses
    <3> QED
      BY <1>0, <1>15, <3>1, StatusType DEF BuildRoute
  <2>3. routed' \in [Items -> Nat]
    <3>1. build[r].seen \in [Items -> Nat]
      BY <1>0, <1>15 DEF Build
    <3> QED
      BY <1>0, <1>15, <3>1 DEF BuildRoute
  <2> QED
    BY <1>0, <1>15, <2>1, <2>2, <2>3 DEF TypeOK, BuildRoute
<1>16. ASSUME NEW r \in Runs, BuildArtifacts(r)
      PROVE  TypeOK'
  <2>1. task' \in [Tasks -> Task]
    BY <1>0, <1>tasks, <1>16, GoType DEF BuildArtifacts, Building, Steps
  <2>2. run' \in [Runs -> Run]
    <3>1. "tunneling" \in RunStatus
      BY DEF RunStatus, ActiveStatuses
    <3> QED
      BY <1>0, <1>16, <3>1, StatusType DEF BuildArtifacts
  <2> QED
    BY <1>0, <1>16, <2>1, <2>2 DEF TypeOK, BuildArtifacts
<1>17. ASSUME NEW r \in Runs, BuildFinish(r)
      PROVE  TypeOK'
  <2>1. task' \in [Tasks -> Task]
    BY <1>0, <1>tasks, <1>17, GoType DEF BuildFinish, Building, Steps
  <2>2. run' \in [Runs -> Run]
    <3>1. "completed" \in RunStatus
      BY DEF RunStatus, ActiveStatuses
    <3> QED
      BY <1>0, <1>17, <3>1, StatusType DEF BuildFinish
  <2>3. build' \in [Runs -> Build]
    BY <1>0, <1>17, FinishBuild
  <2>4. row' \in [Items -> Nat]
    BY <1>0, <1>17 DEF BuildFinish
  <2>5. indexed' \in Nat
    <3>1. run[r].requested \in Nat
      BY <1>0, <1>17 DEF Run
    <3> QED
      BY <1>0, <1>17, <3>1 DEF BuildFinish
  <2> QED
    BY <1>0, <1>17, <2>1, <2>2, <2>3, <2>4, <2>5 DEF TypeOK, BuildFinish
<1>18. ASSUME NEW r \in Runs, CaughtUp(r)
      PROVE  TypeOK'
  <2>1. task' \in [Tasks -> Task]
    BY <1>0, <1>tasks, <1>18, EndType DEF CaughtUp
  <2> QED
    BY <1>0, <1>18, <2>1 DEF TypeOK, CaughtUp
<1>19. ASSUME NEW r \in Runs, BuildFail(r)
      PROVE  TypeOK'
  <2>1. task' \in [Tasks -> Task]
    BY <1>0, <1>tasks, <1>19, EndType DEF BuildFail
  <2>2. run' \in [Runs -> Run]
    <3>1. "failed" \in RunStatus
      BY DEF RunStatus, ActiveStatuses
    <3> QED
      BY <1>0, <1>19, <3>1, StatusType DEF BuildFail
  <2>3. build' \in [Runs -> Build]
    BY <1>0, <1>19, DropType DEF BuildFail
  <2> QED
    BY <1>0, <1>19, <2>1, <2>2, <2>3 DEF TypeOK, BuildFail, Event
<1>20. ASSUME NEW t \in Tasks, WorkerCrash(t)
      PROVE  TypeOK'
  <2>1. task' \in [Tasks -> Task]
    BY <1>0, <1>20, CrashType
  <2>2. build' \in [Runs -> Build]
    BY <1>0, <1>20, DropType DEF WorkerCrash
  <2> QED
    BY <1>0, <1>20, <2>1, <2>2 DEF TypeOK, WorkerCrash, Event
<1>21. ASSUME NEW r \in Runs, BuildTimeout(r)
      PROVE  TypeOK'
  <2>1. task' \in [Tasks -> Task]
    BY <1>0, <1>tasks, <1>21, EndType DEF BuildTimeout
  <2>2. build' \in [Runs -> Build]
    BY <1>0, <1>21, DropType DEF BuildTimeout
  <2> QED
    BY <1>0, <1>21, <2>1, <2>2 DEF TypeOK, BuildTimeout, Event
<1>22. ASSUME NEW t \in Tasks, AskLost(t)
      PROVE  TypeOK'
  <2>1. task' \in [Tasks -> Task]
    BY <1>0, <1>22, EndType DEF AskLost
  <2> QED
    BY <1>0, <1>22, <2>1 DEF TypeOK, AskLost, Event
<1>23. ASSUME UNCHANGED vars
      PROVE  TypeOK'
  BY <1>0, <1>23 DEF TypeOK, vars
<1> QED
  BY <1>1, <1>2, <1>3, <1>4, <1>5, <1>6, <1>7, <1>8, <1>9, <1>10, <1>11, <1>12, <1>13, <1>14, <1>15, <1>16, <1>17, <1>18, <1>19, <1>20, <1>21, <1>22, <1>23, NextCases, Zenon

\* Every reachable state is well typed.
THEOREM TypeCorrect == Spec => []TypeOK
<1>1. Init => TypeOK
  BY IdleType, NoBuildType DEF Init, TypeOK, Run, RunStatus
<1>2. TypeOK /\ [Next]_vars => TypeOK'
  BY TypeNext
<1> QED
  BY <1>1, <1>2, PTL DEF Spec

-----------------------------------------------------------------------------
(* The lease *)

LEMMA ActiveNames ==
    /\ {"queued", "routing", "snapshotting", "tunneling"} = ActiveStatuses
    /\ {"routing", "snapshotting", "tunneling", "completed", "failed"} \subseteq RunStatus
BY DEF ActiveStatuses, RunStatus

\* A step never leaves the lease with a run that is over.
LEMMA LeaseNext ==
    ASSUME TypeOK, LeaseIsActive, [Next]_vars
    PROVE  LeaseIsActive'
<1>0. /\ lease \in Runs \cup {"none"} /\ run \in [Runs -> Run] /\ task \in [Tasks -> Task]
      /\ LeaseIsActive
  BY DEF TypeOK
<1>tasks. MarkJobs \subseteq Tasks /\ "api" \in Tasks
  BY DEF Tasks, Askers
<1>1. ASSUME NEW m \in MarkJobs, MarkCommit(m)
      PROVE  LeaseIsActive'
  <2>1. CASE Coalesce(m)
    BY <1>1, <2>1 DEF Coalesce, LeaseIsActive, Active
  <2>2. ASSUME NEW r \in Runs, Create(m, r, task[m].gen)
        PROVE  LeaseIsActive'
    <3>1. task[m].gen \in Nat
      BY <1>0, <1>tasks, <1>1 DEF Task
    <3>2. \A o \in Runs : run'[o].status = IF o = r THEN "queued" ELSE run[o].status
      BY <1>0, <1>tasks, <1>1, <2>2, <3>1, InsertType DEF Create
    <3> QED
      BY <2>2, <3>2, ActiveNames DEF LeaseIsActive, Active, Create
  <2> QED
    BY <1>1, <2>1, <2>2 DEF MarkCommit
<1>2. ASSUME NEW t \in Tasks, CreateRun(t)
      PROVE  LeaseIsActive'
  <2>1. PICK r \in Runs : Create(t, r, task[t].gen)
    BY <1>2 DEF CreateRun
  <2>2. task[t].gen \in Nat
    BY <1>0, <1>tasks, <1>2 DEF Task
  <2>3. \A o \in Runs : run'[o].status = IF o = r THEN "queued" ELSE run[o].status
    BY <1>0, <1>tasks, <1>2, <2>1, <2>2, InsertType DEF Create
  <2> QED
    BY <1>0, <1>2, <2>1, <2>3, ActiveNames DEF LeaseIsActive, Active, Create
<1>3. ASSUME NEW o \in Runs, Retry(o)
      PROVE  LeaseIsActive'
  <2>1. PICK r \in Runs : Insert("api", r, run[o].requested)
    BY <1>3 DEF Retry
  <2>2. run[o].requested \in Nat
    BY <1>0, <1>tasks, <1>3 DEF Run
  <2>3. \A p \in Runs : run'[p].status = IF p = r THEN "queued" ELSE run[p].status
    BY <1>0, <1>tasks, <1>3, <2>1, <2>2, InsertType
  <2> QED
    BY <1>0, <1>3, <2>1, <2>3, ActiveNames DEF LeaseIsActive, Active, Retry
<1>4. ASSUME NEW o \in Runs, BuildStart(o)
      PROVE  LeaseIsActive'
  <2>1. \A r \in Runs : run'[r].status = IF r = o THEN "routing" ELSE run[r].status
    BY <1>0, <1>4, ActiveNames, StatusType DEF BuildStart
  <2> QED
    BY <1>0, <1>4, <2>1, ActiveNames DEF LeaseIsActive, Active, BuildStart
<1>5. ASSUME NEW o \in Runs, BuildRoute(o)
      PROVE  LeaseIsActive'
  <2>1. \A r \in Runs : run'[r].status = IF r = o THEN "snapshotting" ELSE run[r].status
    BY <1>0, <1>5, ActiveNames, StatusType DEF BuildRoute
  <2> QED
    BY <1>0, <1>5, <2>1, ActiveNames DEF LeaseIsActive, Active, BuildRoute
<1>6. ASSUME NEW o \in Runs, BuildArtifacts(o)
      PROVE  LeaseIsActive'
  <2>1. \A r \in Runs : run'[r].status = IF r = o THEN "tunneling" ELSE run[r].status
    BY <1>0, <1>6, ActiveNames, StatusType DEF BuildArtifacts
  <2> QED
    BY <1>0, <1>6, <2>1, ActiveNames DEF LeaseIsActive, Active, BuildArtifacts
<1>7. ASSUME NEW o \in Runs, BuildFinish(o)
      PROVE  LeaseIsActive'
  BY <1>7 DEF LeaseIsActive, BuildFinish
<1>8. ASSUME NEW o \in Runs, BuildFail(o)
      PROVE  LeaseIsActive'
  BY <1>8 DEF LeaseIsActive, BuildFail
<1>9. ASSUME NEW m \in MarkJobs, NEW k \in Items, Change(m, k)
      PROVE  LeaseIsActive'
  BY <1>0, <1>9 DEF LeaseIsActive, Active, Change
<1>10. ASSUME NEW m \in MarkJobs, MarkRead(m) \/ MarkRaises(m)
      PROVE  LeaseIsActive'
  BY <1>0, <1>10 DEF LeaseIsActive, Active, MarkRead, MarkRaises
<1>11. ASSUME NEW t \in Tasks, SeeBacklog(t) \/ Check(t) \/ Enqueue(t) \/
             WorkerCrash(t) \/ AskLost(t)
      PROVE  LeaseIsActive'
  BY <1>0, <1>11 DEF LeaseIsActive, Active, SeeBacklog, Check, Enqueue, WorkerCrash, AskLost
<1>12. ASSUME Start \/ StartRead
      PROVE  LeaseIsActive'
  BY <1>0, <1>12 DEF LeaseIsActive, Active, Start, StartRead
<1>13. ASSUME NEW o \in Runs, BuildOpen(o) \/ BuildRead(o) \/ CaughtUp(o) \/ BuildTimeout(o)
      PROVE  LeaseIsActive'
  BY <1>0, <1>13 DEF LeaseIsActive, Active, BuildOpen, BuildRead, CaughtUp, BuildTimeout
<1>14. ASSUME UNCHANGED vars
      PROVE  LeaseIsActive'
  BY <1>14, <1>0 DEF vars, LeaseIsActive, Active
<1> QED
  BY <1>1, <1>2, <1>3, <1>4, <1>5, <1>6, <1>7, <1>8, <1>9, <1>10, <1>11, <1>12, <1>13, <1>14, NextCases, Zenon

\* The lease never names a run that is over.
THEOREM LeaseHolderIsActive == Spec => []LeaseIsActive
<1>1. Init => LeaseIsActive
  BY DEF Init, LeaseIsActive
<1>2. TypeOK /\ LeaseIsActive /\ [Next]_vars => LeaseIsActive'
  BY LeaseNext
<1> QED
  BY <1>1, <1>2, TypeCorrect, PTL DEF Spec

-----------------------------------------------------------------------------
(* Dirty rows *)

\* The parts of an invariant that makes DeletedWasRouted hold.  A row is never
\* younger than its item's last change; a mark writes a generation that tells
\* the row from no row; and a build holds only rows that exist, whose items it
\* has read, and then routed, at a version that is not older than the row.
BornBefore == \A i \in Items : born[i] <= version[i]

MarksCount == \A m \in MarkJobs : task[m].pc = "marking" => task[m].gen > 0

HoldsRows ==
    \A r \in Runs : \A i \in build[r].rows :
        /\ row[i] # 0
        /\ task[r].pc = "routing" => build[r].seen[i] >= born[i]
        /\ task[r].pc \in {"snapshotting", "deleting"} => routed[i] >= born[i]

RowsInv == BornBefore /\ MarksCount /\ HoldsRows

\* A build reaches these steps by its own actions only.
LEMMA BuilderSteps ==
    ASSUME TypeOK, [Next]_vars, NEW r \in Runs
    PROVE  task'[r].pc \in {"routing", "snapshotting", "deleting"} =>
              task'[r].pc = task[r].pc \/ BuildRead(r) \/ BuildRoute(r) \/ BuildArtifacts(r)
<1>0. /\ task \in [Tasks -> Task] /\ run \in [Runs -> Run] /\ build \in [Runs -> Build]
      /\ row \in [Items -> Nat] /\ born \in [Items -> Nat]
      /\ version \in [Items -> Nat] /\ routed \in [Items -> Nat] /\ dirty \in Nat
  BY DEF TypeOK
<1>tasks. /\ MarkJobs \subseteq Tasks /\ Runs \subseteq Tasks /\ "api" \in Tasks
          /\ Building \subseteq Steps
          /\ {"idle", "queued", "opening", "marking", "follow", "asking",
            "reading", "creating", "created"} \subseteq Steps
  BY DEF Tasks, Askers, Steps
<1>names. \A m \in MarkJobs : m \notin Runs /\ m # "api" /\ m # "cron"
  BY NamesDiffer
<1>1. ASSUME NEW m \in MarkJobs, NEW k \in Items, Change(m, k)
      PROVE  task'[r].pc \in {"routing", "snapshotting", "deleting"} =>
              task'[r].pc = task[r].pc \/ BuildRead(r) \/ BuildRoute(r) \/ BuildArtifacts(r)
  <2> DEFINE new == [[task[m] EXCEPT !.pc = "queued"] EXCEPT !.item = k]
  <2>1. task' = [task EXCEPT ![m] = new]
    BY <1>1 DEF Change
  <2>2. new.pc = "queued" /\ new.gen = task[m].gen
    BY <1>0, <1>tasks DEF Task
  <2> HIDE DEF new
  <2> QED
    BY <1>0, <1>tasks, <1>names, <2>1, <2>2
<1>2. ASSUME NEW m \in MarkJobs, MarkRead(m)
      PROVE  task'[r].pc \in {"routing", "snapshotting", "deleting"} =>
              task'[r].pc = task[r].pc \/ BuildRead(r) \/ BuildRoute(r) \/ BuildArtifacts(r)
  <2>1. dirty + 1 \in Nat /\ dirty + 1 > 0
    BY <1>0
  <2>2. \A u \in Tasks : task'[u].pc = IF u = m THEN "marking" ELSE task[u].pc
    BY <1>0, <1>tasks, <1>2, <2>1, ReadType DEF MarkRead
  <2> QED
    BY <1>tasks, <1>names, <2>2
<1>3. ASSUME NEW m \in MarkJobs, MarkCommit(m)
      PROVE  task'[r].pc \in {"routing", "snapshotting", "deleting"} =>
              task'[r].pc = task[r].pc \/ BuildRead(r) \/ BuildRoute(r) \/ BuildArtifacts(r)
  <2>1. CASE Coalesce(m)
    BY <1>0, <1>tasks, <1>names, <1>3, <2>1, EndType DEF Coalesce
  <2>2. ASSUME NEW q \in Runs, Create(m, q, task[m].gen)
        PROVE  task'[r].pc \in {"routing", "snapshotting", "deleting"} =>
              task'[r].pc = task[r].pc \/ BuildRead(r) \/ BuildRoute(r) \/ BuildArtifacts(r)
    <3>1. task[m].gen \in Nat
      BY <1>0, <1>tasks, <1>3 DEF Task
    <3> QED
      BY <1>0, <1>tasks, <1>names, <1>3, <2>2, <3>1, InsertType DEF Create
  <2> QED
    BY <1>3, <2>1, <2>2 DEF MarkCommit
<1>4. ASSUME NEW t \in Tasks, Check(t)
      PROVE  task'[r].pc \in {"routing", "snapshotting", "deleting"} =>
              task'[r].pc = task[r].pc \/ BuildRead(r) \/ BuildRoute(r) \/ BuildArtifacts(r)
  <2>1. \A u \in Tasks : task'[u].pc \in {"idle", "creating", task[u].pc}
    <3>1. CASE SomeActive
      BY <1>0, <1>4, <3>1, EndType DEF Check
    <3>2. CASE ~SomeActive
      BY <1>0, <1>tasks, <1>4, <3>2, GoType DEF Check
    <3> QED
      BY <3>1, <3>2
  <2> QED
    BY <1>tasks, <2>1
<1>5. ASSUME NEW t \in Tasks, CreateRun(t)
      PROVE  task'[r].pc \in {"routing", "snapshotting", "deleting"} =>
              task'[r].pc = task[r].pc \/ BuildRead(r) \/ BuildRoute(r) \/ BuildArtifacts(r)
  <2>1. PICK q \in Runs : Create(t, q, task[t].gen)
    BY <1>5 DEF CreateRun
  <2>2. task[t].gen \in Nat
    BY <1>0, <1>tasks, <1>5 DEF Task
  <2> QED
    BY <1>0, <1>tasks, <1>names, <1>5, <2>1, <2>2, InsertType DEF Create, CreateRun
<1>6. ASSUME NEW o \in Runs, Retry(o)
      PROVE  task'[r].pc \in {"routing", "snapshotting", "deleting"} =>
              task'[r].pc = task[r].pc \/ BuildRead(r) \/ BuildRoute(r) \/ BuildArtifacts(r)
  <2>1. PICK q \in Runs : Insert("api", q, run[o].requested)
    BY <1>6 DEF Retry
  <2>2. run[o].requested \in Nat
    BY <1>0, <1>tasks, <1>6 DEF Run
  <2> QED
    BY <1>0, <1>tasks, <1>names, <1>6, <2>1, <2>2, InsertType DEF Create, Retry
<1>7. ASSUME NEW m \in MarkJobs, MarkRaises(m)
      PROVE  task'[r].pc \in {"routing", "snapshotting", "deleting"} =>
              task'[r].pc = task[r].pc \/ BuildRead(r) \/ BuildRoute(r) \/ BuildArtifacts(r)
  BY <1>0, <1>tasks, <1>names, <1>7, EndType DEF MarkRaises
<1>8. ASSUME NEW o \in Runs, BuildFail(o) \/ BuildTimeout(o) \/ CaughtUp(o)
      PROVE  task'[r].pc \in {"routing", "snapshotting", "deleting"} =>
              task'[r].pc = task[r].pc \/ BuildRead(r) \/ BuildRoute(r) \/ BuildArtifacts(r)
  BY <1>0, <1>tasks, <1>names, <1>8, EndType DEF BuildFail, BuildTimeout, CaughtUp
<1>9. ASSUME NEW t \in Tasks, AskLost(t)
      PROVE  task'[r].pc \in {"routing", "snapshotting", "deleting"} =>
              task'[r].pc = task[r].pc \/ BuildRead(r) \/ BuildRoute(r) \/ BuildArtifacts(r)
  BY <1>0, <1>tasks, <1>names, <1>9, EndType DEF AskLost
<1>10. ASSUME NEW t \in Tasks, SeeBacklog(t)
      PROVE  task'[r].pc \in {"routing", "snapshotting", "deleting"} =>
              task'[r].pc = task[r].pc \/ BuildRead(r) \/ BuildRoute(r) \/ BuildArtifacts(r)
  <2>1. \A u \in Tasks : task'[u].pc = IF u = t THEN "asking" ELSE task[u].pc
    BY <1>0, <1>tasks, <1>10, ReadType DEF SeeBacklog
  <2> QED
    BY <1>tasks, <2>1
<1>11. ASSUME Start
      PROVE  task'[r].pc \in {"routing", "snapshotting", "deleting"} =>
              task'[r].pc = task[r].pc \/ BuildRead(r) \/ BuildRoute(r) \/ BuildArtifacts(r)
  <2>1. \A u \in Tasks : task'[u].pc = IF u = "api" THEN "reading" ELSE task[u].pc
    BY <1>0, <1>tasks, <1>11, GoType DEF Start
  <2> QED
    BY <1>tasks, <2>1
<1>12. ASSUME StartRead
      PROVE  task'[r].pc \in {"routing", "snapshotting", "deleting"} =>
              task'[r].pc = task[r].pc \/ BuildRead(r) \/ BuildRoute(r) \/ BuildArtifacts(r)
  <2>1. \A u \in Tasks : task'[u].pc = IF u = "api" THEN "creating" ELSE task[u].pc
    BY <1>0, <1>tasks, <1>12, ReadType DEF StartRead
  <2> QED
    BY <1>tasks, <2>1
<1>13. ASSUME NEW t \in Tasks, Enqueue(t)
      PROVE  task'[r].pc \in {"routing", "snapshotting", "deleting"} =>
              task'[r].pc = task[r].pc \/ BuildRead(r) \/ BuildRoute(r) \/ BuildArtifacts(r)
  BY <1>0, <1>tasks, <1>names, <1>13, EnqueueType
<1>14. ASSUME NEW t \in Tasks, WorkerCrash(t)
      PROVE  task'[r].pc \in {"routing", "snapshotting", "deleting"} =>
              task'[r].pc = task[r].pc \/ BuildRead(r) \/ BuildRoute(r) \/ BuildArtifacts(r)
  BY <1>0, <1>tasks, <1>names, <1>14, CrashType
<1>15. ASSUME NEW o \in Runs, BuildOpen(o) \/ BuildStart(o) \/ BuildFinish(o)
      PROVE  task'[r].pc \in {"routing", "snapshotting", "deleting"} =>
              task'[r].pc = task[r].pc \/ BuildRead(r) \/ BuildRoute(r) \/ BuildArtifacts(r)
  BY <1>0, <1>tasks, <1>names, <1>15, GoType DEF BuildOpen, BuildStart, BuildFinish, Building
<1>16. ASSUME NEW o \in Runs, BuildRead(o)
      PROVE  task'[r].pc \in {"routing", "snapshotting", "deleting"} =>
              task'[r].pc = task[r].pc \/ BuildRead(r) \/ BuildRoute(r) \/ BuildArtifacts(r)
  <2>1. \A u \in Tasks : task'[u].pc = IF u = o THEN "routing" ELSE task[u].pc
    BY <1>0, <1>tasks, <1>16, GoType DEF BuildRead, Building
  <2> QED
    BY <1>tasks, <1>16, <2>1
<1>17. ASSUME NEW o \in Runs, BuildRoute(o)
      PROVE  task'[r].pc \in {"routing", "snapshotting", "deleting"} =>
              task'[r].pc = task[r].pc \/ BuildRead(r) \/ BuildRoute(r) \/ BuildArtifacts(r)
  <2>1. \A u \in Tasks : task'[u].pc = IF u = o THEN "snapshotting" ELSE task[u].pc
    BY <1>0, <1>tasks, <1>17, GoType DEF BuildRoute, Building
  <2> QED
    BY <1>tasks, <1>17, <2>1
<1>18. ASSUME NEW o \in Runs, BuildArtifacts(o)
      PROVE  task'[r].pc \in {"routing", "snapshotting", "deleting"} =>
              task'[r].pc = task[r].pc \/ BuildRead(r) \/ BuildRoute(r) \/ BuildArtifacts(r)
  <2>1. \A u \in Tasks : task'[u].pc = IF u = o THEN "deleting" ELSE task[u].pc
    BY <1>0, <1>tasks, <1>18, GoType DEF BuildArtifacts, Building
  <2> QED
    BY <1>tasks, <1>18, <2>1
<1>19. ASSUME UNCHANGED vars
      PROVE  task'[r].pc \in {"routing", "snapshotting", "deleting"} =>
              task'[r].pc = task[r].pc \/ BuildRead(r) \/ BuildRoute(r) \/ BuildArtifacts(r)
  BY <1>19, <1>0 DEF vars
<1> QED
  BY <1>1, <1>2, <1>3, <1>4, <1>5, <1>6, <1>7, <1>8, <1>9, <1>10, <1>11, <1>12, <1>13, <1>14, <1>15, <1>16, <1>17, <1>18, <1>19, NextCases, Zenon

\* A mark job holds a generation above 0 when it comes to write.
LEMMA MarkerSteps ==
    ASSUME TypeOK, [Next]_vars, NEW n \in MarkJobs
    PROVE  task'[n].pc = "marking" =>
              (task[n].pc = "marking" /\ task'[n].gen = task[n].gen) \/ task'[n].gen > 0
<1>0. /\ task \in [Tasks -> Task] /\ run \in [Runs -> Run] /\ build \in [Runs -> Build]
      /\ row \in [Items -> Nat] /\ born \in [Items -> Nat]
      /\ version \in [Items -> Nat] /\ routed \in [Items -> Nat] /\ dirty \in Nat
  BY DEF TypeOK
<1>tasks. /\ MarkJobs \subseteq Tasks /\ Runs \subseteq Tasks /\ "api" \in Tasks
          /\ Building \subseteq Steps
          /\ {"idle", "queued", "opening", "marking", "follow", "asking",
            "reading", "creating", "created"} \subseteq Steps
  BY DEF Tasks, Askers, Steps
<1>names. \A m \in MarkJobs : m \notin Runs /\ m # "none"
  BY NamesDiffer
<1>1. ASSUME NEW m \in MarkJobs, NEW k \in Items, Change(m, k)
      PROVE  task'[n].pc = "marking" =>
              (task[n].pc = "marking" /\ task'[n].gen = task[n].gen) \/ task'[n].gen > 0
  <2> DEFINE new == [[task[m] EXCEPT !.pc = "queued"] EXCEPT !.item = k]
  <2>1. task' = [task EXCEPT ![m] = new]
    BY <1>1 DEF Change
  <2>2. new.pc = "queued" /\ new.gen = task[m].gen
    BY <1>0, <1>tasks DEF Task
  <2> HIDE DEF new
  <2> QED
    BY <1>0, <1>tasks, <2>1, <2>2
<1>2. ASSUME NEW m \in MarkJobs, MarkRead(m)
      PROVE  task'[n].pc = "marking" =>
              (task[n].pc = "marking" /\ task'[n].gen = task[n].gen) \/ task'[n].gen > 0
  <2>1. dirty + 1 \in Nat /\ dirty + 1 > 0
    BY <1>0
  <2>2. /\ \A u \in Tasks : task'[u].pc = IF u = m THEN "marking" ELSE task[u].pc
        /\ \A u \in Tasks : task'[u].gen = IF u = m THEN dirty + 1 ELSE task[u].gen
    <3> DEFINE g == dirty + 1
    <3>1. task' = [task EXCEPT ![m].pc = "marking", ![m].gen = g]
      BY <1>2 DEF MarkRead
    <3>2. m \in Tasks /\ "marking" \in Steps /\ g \in Nat
      BY <1>tasks, <2>1
    <3> HIDE DEF g
    <3>3. /\ \A u \in Tasks : task'[u].pc = IF u = m THEN "marking" ELSE task[u].pc
          /\ \A u \in Tasks : task'[u].gen = IF u = m THEN g ELSE task[u].gen
      BY <1>0, <3>1, <3>2, ReadType
    <3> QED
      BY <3>3 DEF g
  <2> QED
    BY <1>tasks, <2>1, <2>2
<1>3. ASSUME NEW m \in MarkJobs, MarkCommit(m)
      PROVE  task'[n].pc = "marking" =>
              (task[n].pc = "marking" /\ task'[n].gen = task[n].gen) \/ task'[n].gen > 0
  <2>1. CASE Coalesce(m)
    <3>1. /\ \A u \in Tasks : task'[u].pc = IF u = m THEN "idle" ELSE task[u].pc
          /\ \A u \in Tasks : u # m => task'[u].gen = task[u].gen
      BY <1>0, <1>tasks, <2>1, EndType DEF Coalesce
    <3> QED
      BY <1>tasks, <3>1
  <2>2. ASSUME NEW q \in Runs, Create(m, q, task[m].gen)
        PROVE  task'[n].pc = "marking" =>
              (task[n].pc = "marking" /\ task'[n].gen = task[n].gen) \/ task'[n].gen > 0
    <3>1. task[m].gen \in Nat
      BY <1>0, <1>tasks, <1>3 DEF Task
    <3>2. /\ \A u \in Tasks : task'[u].pc = IF u = m THEN "created" ELSE task[u].pc
          /\ \A u \in Tasks : task'[u].gen = task[u].gen
      BY <1>0, <1>tasks, <2>2, <3>1, InsertType DEF Create
    <3> QED
      BY <1>tasks, <3>2
  <2> QED
    BY <1>3, <2>1, <2>2 DEF MarkCommit
<1>4. ASSUME NEW t \in Tasks, Check(t)
      PROVE  task'[n].pc = "marking" =>
              (task[n].pc = "marking" /\ task'[n].gen = task[n].gen) \/ task'[n].gen > 0
  <2>1. CASE SomeActive
    <3>1. /\ \A u \in Tasks : task'[u].pc = IF u = t THEN "idle" ELSE task[u].pc
          /\ \A u \in Tasks : u # t => task'[u].gen = task[u].gen
      BY <1>0, <1>4, <2>1, EndType DEF Check
    <3> QED
      BY <1>tasks, <3>1
  <2>2. CASE ~SomeActive
    <3>1. /\ \A u \in Tasks : task'[u].pc = IF u = t THEN "creating" ELSE task[u].pc
          /\ \A u \in Tasks : task'[u].gen = task[u].gen
      BY <1>0, <1>tasks, <1>4, <2>2, GoType DEF Check
    <3> QED
      BY <1>tasks, <3>1
  <2> QED
    BY <2>1, <2>2
<1>5. ASSUME NEW t \in Tasks, CreateRun(t)
      PROVE  task'[n].pc = "marking" =>
              (task[n].pc = "marking" /\ task'[n].gen = task[n].gen) \/ task'[n].gen > 0
  <2>1. PICK q \in Runs : Create(t, q, task[t].gen)
    BY <1>5 DEF CreateRun
  <2>2. task[t].gen \in Nat
    BY <1>0, <1>tasks, <1>5 DEF Task
  <2>3. /\ \A u \in Tasks : task'[u].pc = IF u = t THEN "created" ELSE task[u].pc
        /\ \A u \in Tasks : task'[u].gen = task[u].gen
    BY <1>0, <1>tasks, <1>5, <2>1, <2>2, InsertType DEF Create
  <2> QED
    BY <1>tasks, <2>3
<1>6. ASSUME NEW o \in Runs, Retry(o)
      PROVE  task'[n].pc = "marking" =>
              (task[n].pc = "marking" /\ task'[n].gen = task[n].gen) \/ task'[n].gen > 0
  <2>1. PICK q \in Runs : Insert("api", q, run[o].requested)
    BY <1>6 DEF Retry
  <2>2. run[o].requested \in Nat
    BY <1>0, <1>tasks, <1>6 DEF Run
  <2>3. /\ \A u \in Tasks : task'[u].pc = IF u = "api" THEN "created" ELSE task[u].pc
        /\ \A u \in Tasks : task'[u].gen = task[u].gen
    BY <1>0, <1>tasks, <1>6, <2>1, <2>2, InsertType DEF Create
  <2> QED
    BY <1>tasks, <2>3
<1>7. ASSUME NEW t \in Tasks, Enqueue(t)
      PROVE  task'[n].pc = "marking" =>
              (task[n].pc = "marking" /\ task'[n].gen = task[n].gen) \/ task'[n].gen > 0
  <2>1. /\ task[n].pc = "marking" => task'[n] = task[n]
        /\ task'[n].pc \in {"idle", "queued", task[n].pc}
    <3>1. task'[n].pc \in {"idle", "queued", task[n].pc}
      BY <1>0, <1>tasks, <1>7, EnqueueType
    <3>2. task[t].run \in Runs \cup {"none"} /\ n # task[t].run
      BY <1>0, <1>names DEF Task
    <3> QED
      BY <1>0, <1>tasks, <1>7, <3>1, <3>2 DEF Enqueue
  <2> QED
    BY <2>1
<1>8. ASSUME NEW m \in MarkJobs, MarkRaises(m)
      PROVE  task'[n].pc = "marking" =>
              (task[n].pc = "marking" /\ task'[n].gen = task[n].gen) \/ task'[n].gen > 0
  <2>1. /\ \A u \in Tasks : task'[u].pc = IF u = m THEN "idle" ELSE task[u].pc
        /\ \A u \in Tasks : u # m => task'[u].gen = task[u].gen
    BY <1>0, <1>tasks, <1>8, EndType DEF MarkRaises
  <2> QED
    BY <1>tasks, <2>1
<1>9. ASSUME NEW o \in Runs, BuildFail(o) \/ BuildTimeout(o) \/ CaughtUp(o)
      PROVE  task'[n].pc = "marking" =>
              (task[n].pc = "marking" /\ task'[n].gen = task[n].gen) \/ task'[n].gen > 0
  <2>1. /\ \A u \in Tasks : task'[u].pc = IF u = o THEN "idle" ELSE task[u].pc
        /\ \A u \in Tasks : u # o => task'[u].gen = task[u].gen
    BY <1>0, <1>tasks, <1>9, EndType DEF BuildFail, BuildTimeout, CaughtUp
  <2> QED
    BY <1>tasks, <2>1
<1>10. ASSUME NEW t \in Tasks, AskLost(t)
      PROVE  task'[n].pc = "marking" =>
              (task[n].pc = "marking" /\ task'[n].gen = task[n].gen) \/ task'[n].gen > 0
  <2>1. /\ \A u \in Tasks : task'[u].pc = IF u = t THEN "idle" ELSE task[u].pc
        /\ \A u \in Tasks : u # t => task'[u].gen = task[u].gen
    BY <1>0, <1>tasks, <1>10, EndType DEF AskLost
  <2> QED
    BY <1>tasks, <2>1
<1>11. ASSUME NEW t \in Tasks, SeeBacklog(t)
      PROVE  task'[n].pc = "marking" =>
              (task[n].pc = "marking" /\ task'[n].gen = task[n].gen) \/ task'[n].gen > 0
  <2>1. /\ \A u \in Tasks : task'[u].pc = IF u = t THEN "asking" ELSE task[u].pc
        /\ \A u \in Tasks : u # t => task'[u].gen = task[u].gen
    BY <1>0, <1>tasks, <1>11, ReadType DEF SeeBacklog
  <2> QED
    BY <1>tasks, <2>1
<1>12. ASSUME Start
      PROVE  task'[n].pc = "marking" =>
              (task[n].pc = "marking" /\ task'[n].gen = task[n].gen) \/ task'[n].gen > 0
  <2>1. /\ \A u \in Tasks : task'[u].pc = IF u = "api" THEN "reading" ELSE task[u].pc
        /\ \A u \in Tasks : u # "api" => task'[u].gen = task[u].gen
    BY <1>0, <1>tasks, <1>12, GoType DEF Start
  <2> QED
    BY <1>tasks, <2>1
<1>13. ASSUME StartRead
      PROVE  task'[n].pc = "marking" =>
              (task[n].pc = "marking" /\ task'[n].gen = task[n].gen) \/ task'[n].gen > 0
  <2>1. /\ \A u \in Tasks : task'[u].pc = IF u = "api" THEN "creating" ELSE task[u].pc
        /\ \A u \in Tasks : u # "api" => task'[u].gen = task[u].gen
    BY <1>0, <1>tasks, <1>13, ReadType DEF StartRead
  <2> QED
    BY <1>tasks, <2>1
<1>14. ASSUME NEW t \in Tasks, WorkerCrash(t)
      PROVE  task'[n].pc = "marking" =>
              (task[n].pc = "marking" /\ task'[n].gen = task[n].gen) \/ task'[n].gen > 0
  <2>1. /\ \A u \in Tasks : task'[u].pc = IF u = t THEN "queued" ELSE task[u].pc
        /\ \A u \in Tasks : u # t => task'[u].gen = task[u].gen
    BY <1>0, <1>tasks, <1>14, CrashType
  <2> QED
    BY <1>tasks, <2>1
<1>15. ASSUME NEW o \in Runs, BuildOpen(o)
      PROVE  task'[n].pc = "marking" =>
              (task[n].pc = "marking" /\ task'[n].gen = task[n].gen) \/ task'[n].gen > 0
  <2>1. /\ \A u \in Tasks : task'[u].pc = IF u = o THEN "opening" ELSE task[u].pc
        /\ \A u \in Tasks : u # o => task'[u].gen = task[u].gen
    BY <1>0, <1>tasks, <1>15, GoType DEF BuildOpen, Building
  <2> QED
    BY <1>tasks, <2>1
<1>16. ASSUME NEW o \in Runs, BuildStart(o)
      PROVE  task'[n].pc = "marking" =>
              (task[n].pc = "marking" /\ task'[n].gen = task[n].gen) \/ task'[n].gen > 0
  <2>1. /\ \A u \in Tasks : task'[u].pc = IF u = o THEN "started" ELSE task[u].pc
        /\ \A u \in Tasks : u # o => task'[u].gen = task[u].gen
    BY <1>0, <1>tasks, <1>16, GoType DEF BuildStart, Building
  <2> QED
    BY <1>tasks, <2>1
<1>17. ASSUME NEW o \in Runs, BuildRead(o)
      PROVE  task'[n].pc = "marking" =>
              (task[n].pc = "marking" /\ task'[n].gen = task[n].gen) \/ task'[n].gen > 0
  <2>1. /\ \A u \in Tasks : task'[u].pc = IF u = o THEN "routing" ELSE task[u].pc
        /\ \A u \in Tasks : u # o => task'[u].gen = task[u].gen
    BY <1>0, <1>tasks, <1>17, GoType DEF BuildRead, Building
  <2> QED
    BY <1>tasks, <2>1
<1>18. ASSUME NEW o \in Runs, BuildRoute(o)
      PROVE  task'[n].pc = "marking" =>
              (task[n].pc = "marking" /\ task'[n].gen = task[n].gen) \/ task'[n].gen > 0
  <2>1. /\ \A u \in Tasks : task'[u].pc = IF u = o THEN "snapshotting" ELSE task[u].pc
        /\ \A u \in Tasks : u # o => task'[u].gen = task[u].gen
    BY <1>0, <1>tasks, <1>18, GoType DEF BuildRoute, Building
  <2> QED
    BY <1>tasks, <2>1
<1>19. ASSUME NEW o \in Runs, BuildArtifacts(o)
      PROVE  task'[n].pc = "marking" =>
              (task[n].pc = "marking" /\ task'[n].gen = task[n].gen) \/ task'[n].gen > 0
  <2>1. /\ \A u \in Tasks : task'[u].pc = IF u = o THEN "deleting" ELSE task[u].pc
        /\ \A u \in Tasks : u # o => task'[u].gen = task[u].gen
    BY <1>0, <1>tasks, <1>19, GoType DEF BuildArtifacts, Building
  <2> QED
    BY <1>tasks, <2>1
<1>20. ASSUME NEW o \in Runs, BuildFinish(o)
      PROVE  task'[n].pc = "marking" =>
              (task[n].pc = "marking" /\ task'[n].gen = task[n].gen) \/ task'[n].gen > 0
  <2>1. /\ \A u \in Tasks : task'[u].pc = IF u = o THEN "follow" ELSE task[u].pc
        /\ \A u \in Tasks : u # o => task'[u].gen = task[u].gen
    BY <1>0, <1>tasks, <1>20, GoType DEF BuildFinish, Building
  <2> QED
    BY <1>tasks, <2>1
<1>21. ASSUME UNCHANGED vars
      PROVE  task'[n].pc = "marking" =>
              (task[n].pc = "marking" /\ task'[n].gen = task[n].gen) \/ task'[n].gen > 0
  BY <1>21, <1>0 DEF vars
<1> QED
  BY <1>1, <1>2, <1>3, <1>4, <1>5, <1>6, <1>7, <1>8, <1>9, <1>10, <1>11, <1>12, <1>13, <1>14, <1>15, <1>16, <1>17, <1>18, <1>19, <1>20, <1>21, NextCases, Zenon

\* What a step does to the row, the version and the routing of an item: a row
\* keeps the version it was inserted for, and goes only with a build that holds
\* it, from the sets of all builds at once.
KeepsRow(i) ==
    /\ born'[i] <= version'[i]
    /\ version'[i] >= version[i] /\ routed'[i] >= routed[i]
    /\ row[i] # 0 => born'[i] = born[i]
    /\ row'[i] = 0 =>
         \/ row[i] = 0
         \/ /\ \E p \in Runs : task[p].pc = "deleting" /\ i \in build[p].rows
            /\ \A q \in Runs : i \notin build'[q].rows

\* Every step does.
LEMMA RowSteps ==
    ASSUME TypeOK, BornBefore, MarksCount, [Next]_vars, NEW i \in Items
    PROVE  KeepsRow(i)
<1>0. /\ task \in [Tasks -> Task] /\ run \in [Runs -> Run] /\ build \in [Runs -> Build]
      /\ row \in [Items -> Nat] /\ born \in [Items -> Nat]
      /\ version \in [Items -> Nat] /\ routed \in [Items -> Nat] /\ dirty \in Nat
  BY DEF TypeOK
<1>tasks. /\ MarkJobs \subseteq Tasks /\ Runs \subseteq Tasks /\ "api" \in Tasks
          /\ Building \subseteq Steps
          /\ {"idle", "queued", "opening", "marking", "follow", "asking",
            "reading", "creating", "created"} \subseteq Steps
  BY DEF Tasks, Askers, Steps
<1>inv. BornBefore /\ MarksCount /\ born[i] <= version[i] /\ version[i] \in Nat /\ routed[i] \in Nat
  BY <1>0 DEF BornBefore
<1>1. ASSUME NEW m \in MarkJobs, NEW k \in Items, Change(m, k)
      PROVE  KeepsRow(i)
  <2>1. version' \in [Items -> Nat] /\ version'[i] >= version[i]
    BY <1>0, <1>1 DEF Change
  <2>2. born' = born /\ routed' = routed /\ row' = row
    BY <1>1 DEF Change
  <2> QED
    BY <1>0, <1>inv, <2>1, <2>2 DEF KeepsRow
<1>2. ASSUME NEW m \in MarkJobs, MarkCommit(m)
      PROVE  KeepsRow(i)
  <2>1. task[m].gen > 0 /\ task[m].gen \in Nat
    BY <1>0, <1>tasks, <1>inv, <1>2 DEF MarkCommit, MarksCount, Task
  <2> QED
    BY <1>0, <1>inv, <1>2, <2>1 DEF MarkCommit, KeepsRow
<1>3. ASSUME NEW o \in Runs, BuildRoute(o)
      PROVE  KeepsRow(i)
  <2>1. build[o].seen \in [Items -> Nat]
    BY <1>0, <1>3 DEF Build
  <2> QED
    BY <1>0, <1>inv, <1>3, <2>1 DEF BuildRoute, KeepsRow
<1>4. ASSUME NEW o \in Runs, BuildFinish(o)
      PROVE  KeepsRow(i)
  <2>1. /\ born' = born /\ version' = version /\ routed' = routed
        /\ row'[i] = IF i \in build[o].rows THEN 0 ELSE row[i]
        /\ task[o].pc = "deleting"
    BY <1>4 DEF BuildFinish, Deleted
  <2>2. \A q \in Runs : build'[q].rows \subseteq build[q].rows \ build[o].rows
    BY <1>0, <1>4, FinishRows
  <2> QED
    BY <1>0, <1>inv, <1>4, <2>1, <2>2 DEF KeepsRow
<1>5. ASSUME NEW m \in MarkJobs, MarkRead(m) \/ MarkRaises(m)
      PROVE  KeepsRow(i)
  BY <1>0, <1>inv, <1>5 DEF KeepsRow, MarkRead, MarkRaises
<1>6. ASSUME NEW t \in Tasks, SeeBacklog(t) \/ Check(t) \/ CreateRun(t) \/
             Enqueue(t) \/ WorkerCrash(t) \/ AskLost(t)
      PROVE  KeepsRow(i)
  BY <1>0, <1>inv, <1>6 DEF KeepsRow, SeeBacklog, Check, CreateRun, Enqueue, WorkerCrash, AskLost
<1>7. ASSUME Start \/ StartRead
      PROVE  KeepsRow(i)
  BY <1>0, <1>inv, <1>7 DEF KeepsRow, Start, StartRead
<1>8. ASSUME NEW o \in Runs, Retry(o) \/ BuildOpen(o) \/ BuildStart(o) \/ BuildRead(o) \/
             BuildArtifacts(o) \/ CaughtUp(o) \/ BuildFail(o) \/ BuildTimeout(o)
      PROVE  KeepsRow(i)
  BY <1>0, <1>inv, <1>8 DEF KeepsRow, Retry, BuildOpen, BuildStart, BuildRead, BuildArtifacts, CaughtUp, BuildFail, BuildTimeout
<1>9. ASSUME UNCHANGED vars
      PROVE  KeepsRow(i)
  BY <1>9, <1>0, <1>inv DEF KeepsRow, vars
<1> QED
  BY <1>1, <1>2, <1>3, <1>4, <1>5, <1>6, <1>7, <1>8, <1>9, NextCases, Zenon

\* A build gets rows only by reading them.
LEMMA BuildSteps ==
    ASSUME TypeOK, [Next]_vars, NEW r \in Runs, NEW i, i \in build'[r].rows
    PROVE  BuildRead(r) \/ (i \in build[r].rows /\ build'[r].seen = build[r].seen)
<1>0. build \in [Runs -> Build] /\ version \in [Items -> Nat] /\ indexed \in Nat
  BY DEF TypeOK
<1>1. ASSUME NEW o \in Runs, BuildOpen(o)
      PROVE  BuildRead(r) \/ (i \in build[r].rows /\ build'[r].seen = build[r].seen)
  <2> DEFINE had == (lease = o)
             new == [[build[o] EXCEPT !.indexed = indexed] EXCEPT !.held = had]
  <2>1. build' = [build EXCEPT ![o] = new]
    BY <1>1 DEF BuildOpen
  <2>2. new.rows = build[o].rows /\ new.seen = build[o].seen
    BY <1>0 DEF Build
  <2> HIDE DEF new
  <2> QED
    BY <1>0, <2>1, <2>2
<1>2. ASSUME NEW o \in Runs, BuildStart(o)
      PROVE  BuildRead(r) \/ (i \in build[r].rows /\ build'[r].seen = build[r].seen)
  <2> DEFINE new == [build[o] EXCEPT !.held = FALSE]
  <2>1. build' = [build EXCEPT ![o] = new]
    BY <1>2 DEF BuildStart
  <2>2. new.rows = build[o].rows /\ new.seen = build[o].seen
    BY <1>0 DEF Build
  <2> HIDE DEF new
  <2> QED
    BY <1>0, <2>1, <2>2
<1>3. ASSUME NEW o \in Runs, BuildRead(o)
      PROVE  BuildRead(r) \/ (i \in build[r].rows /\ build'[r].seen = build[r].seen)
  BY <1>0, <1>3, ReadBuild
<1>4. ASSUME NEW o \in Runs, BuildFinish(o)
      PROVE  BuildRead(r) \/ (i \in build[r].rows /\ build'[r].seen = build[r].seen)
  <2>1. build'[r].rows \subseteq build[r].rows \ build[o].rows
    BY <1>0, <1>4, FinishRows
  <2>2. r # o /\ build'[r].seen = build[r].seen
    <3>1. CASE r = o
      BY <2>1, <3>1
    <3>2. CASE r # o
      BY <1>0, <1>4, <3>2, FinishSeen
    <3> QED
      BY <3>1, <3>2
  <2> QED
    BY <2>1, <2>2
<1>5. ASSUME NEW t \in Tasks, WorkerCrash(t)
      PROVE  BuildRead(r) \/ (i \in build[r].rows /\ build'[r].seen = build[r].seen)
  BY <1>0, <1>5, DropType, NoBuildType DEF WorkerCrash
<1>6. ASSUME NEW o \in Runs, BuildFail(o) \/ BuildTimeout(o)
      PROVE  BuildRead(r) \/ (i \in build[r].rows /\ build'[r].seen = build[r].seen)
  BY <1>0, <1>6, DropType, NoBuildType DEF BuildFail, BuildTimeout
<1>7. ASSUME NEW m \in MarkJobs, NEW k \in Items, Change(m, k)
      PROVE  BuildRead(r) \/ (i \in build[r].rows /\ build'[r].seen = build[r].seen)
  BY <1>7 DEF Change
<1>8. ASSUME NEW m \in MarkJobs, MarkRead(m) \/ MarkCommit(m) \/ MarkRaises(m)
      PROVE  BuildRead(r) \/ (i \in build[r].rows /\ build'[r].seen = build[r].seen)
  BY <1>8 DEF MarkRead, MarkCommit, MarkRaises
<1>9. ASSUME NEW t \in Tasks, SeeBacklog(t) \/ Check(t) \/ CreateRun(t) \/ Enqueue(t) \/ AskLost(t)
      PROVE  BuildRead(r) \/ (i \in build[r].rows /\ build'[r].seen = build[r].seen)
  BY <1>9 DEF SeeBacklog, Check, CreateRun, Enqueue, AskLost
<1>10. ASSUME Start \/ StartRead
      PROVE  BuildRead(r) \/ (i \in build[r].rows /\ build'[r].seen = build[r].seen)
  BY <1>10 DEF Start, StartRead
<1>11. ASSUME NEW o \in Runs, Retry(o) \/ BuildRoute(o) \/ BuildArtifacts(o) \/ CaughtUp(o)
      PROVE  BuildRead(r) \/ (i \in build[r].rows /\ build'[r].seen = build[r].seen)
  BY <1>11 DEF Retry, BuildRoute, BuildArtifacts, CaughtUp
<1>12. ASSUME UNCHANGED vars
      PROVE  BuildRead(r) \/ (i \in build[r].rows /\ build'[r].seen = build[r].seen)
  BY <1>12 DEF vars
<1> QED
  BY <1>1, <1>2, <1>3, <1>4, <1>5, <1>6, <1>7, <1>8, <1>9, <1>10, <1>11, <1>12, NextCases, Zenon

LEMMA RowsNext ==
    ASSUME TypeOK, RowsInv, [Next]_vars
    PROVE  RowsInv'
<1>0. BornBefore /\ MarksCount /\ HoldsRows
  BY DEF RowsInv
<1>1. BornBefore'
  <2>1. ASSUME NEW i \in Items
        PROVE  born'[i] <= version'[i]
    <3>1. KeepsRow(i)
      BY <1>0, RowSteps
    <3> QED
      BY <3>1 DEF KeepsRow
  <2> QED
    BY <2>1 DEF BornBefore
<1>2. MarksCount'
  <2>1. ASSUME NEW m \in MarkJobs, task'[m].pc = "marking"
        PROVE  task'[m].gen > 0
    BY <1>0, <2>1, MarkerSteps DEF MarksCount
  <2> QED
    BY <2>1 DEF MarksCount
<1>3. HoldsRows'
  <2>1. ASSUME NEW r \in Runs, NEW i \in build'[r].rows
        PROVE  /\ row'[i] # 0
               /\ task'[r].pc = "routing" => build'[r].seen[i] >= born'[i]
               /\ task'[r].pc \in {"snapshotting", "deleting"} => routed'[i] >= born'[i]
    <3>1. CASE BuildRead(r)
      <4>1. /\ i \in Items /\ row[i] # 0 /\ build'[r].seen[i] = version[i]
            /\ row' = row /\ born' = born
        BY <2>1, <3>1, ReadBuild DEF TypeOK, BuildRead
      <4>2. born[i] <= version[i] /\ born[i] \in Nat /\ version[i] \in Nat
        BY <1>0, <4>1 DEF BornBefore, TypeOK
      <4>3. task'[r].pc = "routing"
        BY <3>1, GoType DEF BuildRead, TypeOK, Tasks, Askers, Steps, Building
      <4> QED
        BY <4>1, <4>2, <4>3
    <3>2. CASE ~BuildRead(r)
      <4>1. i \in build[r].rows /\ build'[r].seen = build[r].seen
        BY <2>1, <3>2, BuildSteps
      <4>2. i \in Items /\ build[r].seen[i] \in Nat /\ routed[i] \in Nat /\ born[i] \in Nat
        BY <4>1 DEF TypeOK, Build
      <4>3. /\ row[i] # 0
            /\ task[r].pc = "routing" => build[r].seen[i] >= born[i]
            /\ task[r].pc \in {"snapshotting", "deleting"} => routed[i] >= born[i]
        BY <1>0, <4>1 DEF HoldsRows
      <4>4. /\ routed'[i] >= routed[i] /\ born'[i] = born[i]
            /\ row'[i] # 0
        <5>1. KeepsRow(i)
          BY <1>0, <4>2, RowSteps
        <5> QED
          BY <2>1, <4>3, <5>1 DEF KeepsRow
      <4>5. routed'[i] \in Nat
        BY <4>2, TypeNext DEF TypeOK
      <4>6. task'[r].pc \in {"routing", "snapshotting", "deleting"} =>
              task'[r].pc = task[r].pc \/ BuildRoute(r) \/ BuildArtifacts(r)
        BY <3>2, BuilderSteps
      <4>7. ASSUME BuildRoute(r)
            PROVE  /\ task[r].pc = "routing" /\ task'[r].pc = "snapshotting"
                   /\ routed'[i] >= build[r].seen[i]
        <5>1. task[r].pc = "routing" /\ task'[r].pc = "snapshotting"
          BY <4>7, GoType DEF BuildRoute, TypeOK, Tasks, Askers, Steps, Building
        <5>2. routed'[i] = IF build[r].seen[i] > routed[i] THEN build[r].seen[i] ELSE routed[i]
          BY <4>2, <4>7 DEF BuildRoute
        <5> QED
          BY <4>2, <5>1, <5>2
      <4>8. ASSUME BuildArtifacts(r)
            PROVE  task[r].pc = "snapshotting" /\ task'[r].pc = "deleting"
        BY <4>8, GoType DEF BuildArtifacts, TypeOK, Tasks, Askers, Steps, Building
      <4> QED
        BY <4>1, <4>2, <4>3, <4>4, <4>5, <4>6, <4>7, <4>8
    <3> QED
      BY <3>1, <3>2
  <2> QED
    BY <2>1 DEF HoldsRows
<1> QED
  BY <1>1, <1>2, <1>3 DEF RowsInv

\* A dirty row goes only when its item was routed at a version not older than
\* the one it was inserted for: no mark is forgotten with its row.
THEOREM DeletedRowsWereRouted == Spec => DeletedWasRouted
<1>1. Init => RowsInv
  BY DEF Init, RowsInv, BornBefore, MarksCount, HoldsRows, NoBuild, Idle, Tasks
<1>2. TypeOK /\ RowsInv /\ [Next]_vars => RowsInv'
  BY RowsNext
<1>3. TypeOK /\ RowsInv /\ [Next]_vars =>
        [\A i \in Items : row[i] # 0 /\ row'[i] = 0 => routed[i] >= born[i]]_vars
  <2> SUFFICES ASSUME TypeOK, RowsInv, [Next]_vars, NEW i \in Items, row[i] # 0, row'[i] = 0
               PROVE  routed[i] >= born[i]
    OBVIOUS
  <2>1. BornBefore /\ MarksCount /\ HoldsRows
    BY DEF RowsInv
  <2>2. \E p \in Runs : task[p].pc = "deleting" /\ i \in build[p].rows
    <3>1. KeepsRow(i)
      BY <2>1, RowSteps
    <3> QED
      BY <3>1 DEF KeepsRow
  <2> QED
    BY <2>1, <2>2 DEF HoldsRows
<1> QED
  BY <1>1, <1>2, <1>3, TypeCorrect, PTL DEF Spec, DeletedWasRouted
=============================================================================
