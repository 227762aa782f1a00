----------------------------- MODULE PalaceRuns -----------------------------
(***************************************************************************)
(* The palace of one tenant: items that change are marked dirty under a    *)
(* generation number, palace runs index everything up to a generation.     *)
(*                                                                         *)
(* services/palace.py: mark_items_dirty, create_or_get_palace_run,         *)
(*   run_palace_run;                                                       *)
(* workers/palace_tasks.py: mark_item_dirty_and_schedule, palace_run_build,*)
(*   _enqueue_follow_on_palace_run, recover_palace_backlog;                *)
(* api/palace.py: start_palace_run, retry_palace_run.                      *)
(*                                                                         *)
(* An action is one transaction, or a read whose result is used after      *)
(* another process may have committed.  Three facts about PostgreSQL and   *)
(* SQLAlchemy shape the steps:                                             *)
(*   - nothing locks palace_tenant_state before it is written, so a        *)
(*     generation is read in one step and written in a later one;          *)
(*   - the session flushes before it queries: once a marker has written    *)
(*     the generation it holds the row's lock until its commit, and the    *)
(*     rest of its transaction is one step;                                *)
(*   - a build deletes dirty rows before it writes the tenant's state, a   *)
(*     marker writes them the other way round: the two can deadlock, and   *)
(*     the database aborts one of them.                                    *)
(*                                                                         *)
(* Not modelled: active_generation (written with the lease, read by        *)
(* reports), what routing and snapshots compute, the maintenance phases    *)
(* that repair artifacts, sync runs, deletion of the tenant.               *)
(***************************************************************************)
EXTENDS Naturals, FiniteSets

CONSTANTS
  Items,
  Runs,        \* bound: the palace_runs rows in use at a time
  MarkJobs,    \* bound: the jobs that mark an item at a time
  MaxVersion,  \* bound: how often an item changes
  MaxEvents    \* bound: manual runs and retries, exceptions, crashes, restarts,
               \* timeouts, failed enqueues

ASSUME NamesDiffer ==
    /\ Runs \cap MarkJobs = {}
    /\ {"api", "cron", "none"} \cap (Runs \cup MarkJobs) = {}
    /\ "none" \notin Items

VARIABLES
  version,  \* how often each item has changed
  routed,   \* history: the newest version of each item a build has routed
  dirty,    \* palace_tenant_state.dirty_generation
  indexed,  \* palace_tenant_state.indexed_generation
  lease,    \* palace_tenant_state.active_palace_run_id
  row,      \* palace_dirty_items: the generation of each item's row, 0 if none
  born,     \* history: the item's version when its row was inserted
  run,      \* palace_runs
  build,    \* what each execution of palace_run_build has read
  task,     \* where each process stands
  events    \* counts these

vars == <<version, routed, dirty, indexed, lease, row, born, run, build, task,
          events>>

-----------------------------------------------------------------------------
(* Types *)

Askers == {"api", "cron"} \cup Runs
Tasks == MarkJobs \cup Askers

ActiveStatuses == {"queued", "routing", "snapshotting", "tunneling"}
RunStatus == ActiveStatuses \cup {"absent", "completed", "failed"}

\* The steps of a build within its try block.
Building == {"started", "routing", "snapshotting", "deleting"}
Steps == Building \cup {"idle", "queued", "opening", "marking", "follow", "asking", "reading",
                        "creating", "created"}

Run == [status : RunStatus, requested : Nat]     \* requested_generation
Build == [indexed : Nat,                          \* indexed_generation at the start
          held    : BOOLEAN,                      \* it had the lease at the start
          rows    : SUBSET Items,                 \* processed_dirty_ids
          seen    : [Items -> Nat]]               \* the version it routes, 0 for none
Task == [pc   : Steps,
         gen  : Nat,                              \* a generation read earlier
         item : Items \cup {"none"},              \* the item to mark
         run  : Runs \cup {"none"}]               \* the run created

NoBuild == [indexed |-> 0, held |-> FALSE, rows |-> {}, seen |-> [i \in Items |-> 0]]
Idle == [pc |-> "idle", gen |-> 0, item |-> "none", run |-> "none"]

Init ==
    /\ version = [i \in Items |-> 1]
    /\ routed = [i \in Items |-> 0]
    /\ dirty = 0 /\ indexed = 0
    /\ lease = "none"
    /\ row = [i \in Items |-> 0]
    /\ born = [i \in Items |-> 0]
    /\ run = [r \in Runs |-> [status |-> "absent", requested |-> 0]]
    /\ build = [r \in Runs |-> NoBuild]
    /\ task = [t \in Tasks |-> Idle]
    /\ events = 0

-----------------------------------------------------------------------------
(* Helpers *)

Active(r) == run[r].status \in ActiveStatuses

\* Mutant of SomeActive: a failed run is taken for an active one.
SomeUnfinished == \E r \in Runs : run[r].status \notin {"absent", "completed"}

SomeActive == \E r \in Runs : Active(r)
Backlog == dirty > indexed

\* A finished run that no process holds may be forgotten, a failed one last: its
\* row stands for a new one.
Fresh(r) ==
    /\ ~Active(r)
    /\ task[r].pc = "idle"
    /\ \A t \in Tasks : task[t].run # r

Failed(r) == run[r].status = "failed"

\* The row task t inserts; with all in use, a follow-on run takes that of the run
\* it follows.
NewRun(t, r) ==
    IF \E o \in Runs : Fresh(o)
    THEN /\ Fresh(r)
         /\ r = CHOOSE o \in Runs :
                   Fresh(o) /\ (Failed(o) => \A p \in Runs : Fresh(p) => Failed(p))
    ELSE r = t

\* Task t inserts run r for that generation and has yet to enqueue its build.
Insert(t, r, generation) ==
    /\ NewRun(t, r)
    /\ run' = [run EXCEPT ![r] = [status |-> "queued", requested |-> generation]]
    /\ task' = [task EXCEPT ![t].pc = "created", ![t].run = r]

\* The row of item i is deleted by a transaction that has not committed.
Locked(i) == \E r \in Runs : task[r].pc = "deleting" /\ i \in build[r].rows

Event == events < MaxEvents /\ events' = events + 1
Go(t, pc) == task' = [task EXCEPT ![t].pc = pc]
End(t) == task' = [task EXCEPT ![t] = Idle]
Drop(r) == build' = [build EXCEPT ![r] = NoBuild]

\* The second half of create_or_get_palace_run.
Create(t, r, generation) == Insert(t, r, generation) /\ lease' = r

-----------------------------------------------------------------------------
(* Marking: mark_item_dirty_and_schedule *)

\* A pipeline commits a change to an item and enqueues the job.
Change(m, i) ==
    /\ task[m].pc = "idle" /\ version[i] <= MaxVersion
    /\ version' = [version EXCEPT ![i] = @ + 1]
    /\ task' = [task EXCEPT ![m].pc = "queued", ![m].item = i]
    /\ UNCHANGED <<routed, dirty, indexed, lease, row, born, run, build, events>>

MarkRead(m) ==
    /\ task[m].pc = "queued"
    /\ task' = [task EXCEPT ![m].pc = "marking", ![m].gen = dirty + 1]
    /\ UNCHANGED <<version, routed, dirty, indexed, lease, row, born, run, build, events>>

Coalesce(m) ==
    /\ SomeActive
    /\ End(m)
    /\ UNCHANGED <<run, lease>>

\* mark_items_dirty, then create_or_get_palace_run in the same transaction.
MarkCommit(m) ==
    LET i == task[m].item IN
    /\ task[m].pc = "marking" /\ ~Locked(i)
    /\ dirty' = task[m].gen
    /\ row' = [row EXCEPT ![i] = task[m].gen]
    /\ born' = [born EXCEPT ![i] = IF row[i] = 0 THEN version[i] ELSE @]
    /\ Coalesce(m) \/ (~SomeActive /\ \E r \in Runs : Create(m, r, task[m].gen))
    /\ UNCHANGED <<version, routed, indexed, build, events>>

\* The victim of a deadlock with a build, or another exception: ARQ does not
\* run the job again.
MarkRaises(m) ==
    /\ task[m].pc = "marking"
    /\ IF Locked(task[m].item) THEN UNCHANGED events ELSE Event
    /\ End(m)
    /\ UNCHANGED <<version, routed, dirty, indexed, lease, row, born, run, build>>

-----------------------------------------------------------------------------
(* Asking for a run: start_palace_run, recover_palace_backlog, and a build   *)
(* that ends, through create_or_get_palace_run                               *)

\* _enqueue_follow_on_palace_run reads the generations first.
SeeBacklog(t) ==
    /\ task[t].pc = IF t = "cron" THEN "idle" ELSE "follow"
    /\ Backlog
    /\ task' = [task EXCEPT ![t].pc = "asking", ![t].gen = dirty]
    /\ UNCHANGED <<version, routed, dirty, indexed, lease, row, born, run, build, events>>

CaughtUp(r) ==
    /\ task[r].pc = "follow" /\ ~Backlog
    /\ End(r)
    /\ UNCHANGED <<version, routed, dirty, indexed, lease, row, born, run, build, events>>

Check(t) ==
    /\ task[t].pc = "asking"
    /\ IF SomeActive THEN End(t) ELSE Go(t, "creating")
    /\ UNCHANGED <<version, routed, dirty, indexed, lease, row, born, run, build, events>>

\* start_palace_run looks for an active run first.
Start ==
    /\ task["api"].pc = "idle" /\ ~SomeActive
    /\ Event
    /\ Go("api", "reading")
    /\ UNCHANGED <<version, routed, dirty, indexed, lease, row, born, run, build>>

StartRead ==
    /\ task["api"].pc = "reading"
    /\ task' = [task EXCEPT !["api"].pc = "creating", !["api"].gen = dirty]
    /\ UNCHANGED <<version, routed, dirty, indexed, lease, row, born, run, build, events>>

CreateRun(t) ==
    /\ task[t].pc = "creating"
    /\ \E r \in Runs : Create(t, r, task[t].gen)
    /\ UNCHANGED <<version, routed, dirty, indexed, row, born, build, events>>

\* retry_palace_run: a new run for the old generation, beside any other run,
\* and without the lease.
Retry(old) ==
    /\ task["api"].pc = "idle" /\ run[old].status = "failed"
    /\ Event
    /\ \E r \in Runs : Insert("api", r, run[old].requested)
    /\ UNCHANGED <<version, routed, dirty, indexed, lease, row, born, build>>

\* enqueue_palace_job for the run that was created; its creator is done.
Enqueue(t) ==
    LET r == task[t].run IN
    /\ task[t].pc = "created"
    /\ task' = [task EXCEPT ![t] = Idle, ![r].pc = "queued"]
    /\ UNCHANGED <<version, routed, dirty, indexed, lease, row, born, run, build, events>>

-----------------------------------------------------------------------------
(* Building: palace_run_build and run_palace_run *)

BuildOpen(r) ==
    /\ task[r].pc = "queued"
    /\ Go(r, "opening")
    /\ build' = [build EXCEPT ![r].indexed = indexed, ![r].held = (lease = r)]
    /\ UNCHANGED <<version, routed, dirty, indexed, lease, row, born, run, events>>

\* The run takes the lease, also from another one; a lease it had when it read
\* the state is not written again.
BuildStart(r) ==
    /\ task[r].pc = "opening"
    /\ Go(r, "started")
    /\ run' = [run EXCEPT ![r].status = "routing"]
    /\ lease' = IF build[r].held THEN lease ELSE r
    /\ build' = [build EXCEPT ![r].held = FALSE]
    /\ UNCHANGED <<version, routed, dirty, indexed, row, born, events>>

\* Dirty rows and items are read together; a palace that was never indexed
\* takes every item.
BuildRead(r) ==
    LET due == {i \in Items : row[i] # 0 /\ row[i] <= run[r].requested}
        routes == IF due = {} /\ build[r].indexed = 0 THEN Items ELSE due IN
    /\ task[r].pc = "started"
    /\ Go(r, "routing")
    /\ build' = [build EXCEPT ![r].rows = due,
                              ![r].seen = [i \in Items |-> IF i \in routes THEN version[i] ELSE 0]]
    /\ UNCHANGED <<version, routed, dirty, indexed, lease, row, born, run, events>>

\* Mutant of BuildRoute: a status that PALACE_ACTIVE_STATUSES does not have.
BuildRouteIndexing(r) ==
    /\ task[r].pc = "routing"
    /\ Go(r, "snapshotting")
    /\ run' = [run EXCEPT ![r].status = "indexing"]
    /\ routed' = [i \in Items |-> IF build[r].seen[i] > routed[i] THEN build[r].seen[i]
                                                                   ELSE routed[i]]
    /\ UNCHANGED <<version, dirty, indexed, lease, row, born, build, events>>

\* _apply_room_routing of every item read.
BuildRoute(r) ==
    /\ task[r].pc = "routing"
    /\ Go(r, "snapshotting")
    /\ run' = [run EXCEPT ![r].status = "snapshotting"]
    /\ routed' = [i \in Items |-> IF build[r].seen[i] > routed[i] THEN build[r].seen[i]
                                                                   ELSE routed[i]]
    /\ UNCHANGED <<version, dirty, indexed, lease, row, born, build, events>>

\* Snapshots and retrieval hints of the rooms are rebuilt; in the transaction
\* after that the tunnels are, and the dirty rows read are deleted, once another
\* build's deletion of them has ended.
BuildArtifacts(r) ==
    /\ task[r].pc = "snapshotting"
    /\ \A i \in build[r].rows : ~Locked(i)
    /\ Go(r, "deleting")
    /\ run' = [run EXCEPT ![r].status = "tunneling"]
    /\ UNCHANGED <<version, routed, dirty, indexed, lease, row, born, build, events>>

\* Mutant of Deleted: the backlog is cleared, whatever the run has read.
DeletedBacklog(r) == {i \in Items : row[i] # 0}

\* The items whose rows a build's commit removes: by id, and whatever generation
\* they have got meanwhile.
Deleted(r) == build[r].rows

\* Mutant of BuildFinish: the lease stays.
BuildFinishHolding(r) ==
    /\ task[r].pc = "deleting"
    /\ Go(r, "follow")
    /\ row' = [i \in Items |-> IF i \in Deleted(r) THEN 0 ELSE row[i]]
    /\ build' = [o \in Runs |-> IF o = r THEN NoBuild ELSE [build[o] EXCEPT !.rows = @ \ Deleted(r)]]
    /\ indexed' = IF run[r].requested = build[r].indexed THEN indexed ELSE run[r].requested
    /\ run' = [run EXCEPT ![r].status = "completed"]
    /\ UNCHANGED <<version, routed, dirty, lease, born, events>>

\* The commit.  A row that is gone cannot be deleted again: it leaves the sets
\* of the other builds.  indexed_generation is written only if the value differs
\* from the one read at the start; it may go down.  The lease is given up, also
\* if another run holds it by now.
BuildFinish(r) ==
    /\ task[r].pc = "deleting"
    /\ Go(r, "follow")
    /\ row' = [i \in Items |-> IF i \in Deleted(r) THEN 0 ELSE row[i]]
    /\ build' = [o \in Runs |-> IF o = r THEN NoBuild ELSE [build[o] EXCEPT !.rows = @ \ Deleted(r)]]
    /\ indexed' = IF run[r].requested = build[r].indexed THEN indexed ELSE run[r].requested
    /\ lease' = "none"
    /\ run' = [run EXCEPT ![r].status = "completed"]
    /\ UNCHANGED <<version, routed, dirty, born, events>>

\* An exception, or the deadlock with a marker.  What was committed stays.
BuildFail(r) ==
    /\ task[r].pc \in Building
    /\ \/ Event
       \/ /\ task[r].pc = "deleting"
          /\ \E m \in MarkJobs : task[m].pc = "marking" /\ task[m].item \in build[r].rows
          /\ UNCHANGED events
    /\ run' = [run EXCEPT ![r].status = "failed"]
    /\ lease' = "none"
    /\ Drop(r) /\ End(r)
    /\ UNCHANGED <<version, routed, dirty, indexed, row, born>>

-----------------------------------------------------------------------------
(* Crashes and timeouts *)

\* A worker dies or is restarted: ARQ runs its job again, from the beginning.
WorkerCrash(t) ==
    /\ Event
    /\ t \in MarkJobs \cup Runs /\ task[t].pc \notin {"idle", "queued"} /\ task[t].run # t
    /\ task' = [task EXCEPT ![t] = [Idle EXCEPT !.pc = "queued", !.item = task[t].item]]
    /\ IF t \in Runs THEN Drop(t) ELSE UNCHANGED build
    /\ UNCHANGED <<version, routed, dirty, indexed, lease, row, born, run>>

\* job_timeout cancels a build, which `except Exception' does not see, or it
\* raises before its try block: ARQ does not run the job again.
BuildTimeout(r) ==
    /\ Event
    /\ task[r].pc \in Building \cup {"opening"}
    /\ Drop(r) /\ End(r)
    /\ UNCHANGED <<version, routed, dirty, indexed, lease, row, born, run>>

\* A request or the cron dies, or what a process asks the database or Redis
\* raises: it goes no further.
AskLost(t) ==
    /\ Event
    /\ task[t].pc \in {"asking", "reading", "creating", "created"}
    /\ End(t)
    /\ UNCHANGED <<version, routed, dirty, indexed, lease, row, born, run, build>>

-----------------------------------------------------------------------------

BuildStep(r) ==
    \/ BuildOpen(r) \/ BuildStart(r) \/ BuildRead(r) \/ BuildRoute(r)
    \/ BuildArtifacts(r) \/ BuildFinish(r) \/ CaughtUp(r)

Next ==
    \/ \E m \in MarkJobs, i \in Items : Change(m, i)
    \/ \E m \in MarkJobs : MarkRead(m) \/ MarkCommit(m) \/ MarkRaises(m)
    \/ \E t \in Askers \ {"api"} : SeeBacklog(t) \/ Check(t)
    \/ \E t \in Askers : CreateRun(t)
    \/ Start \/ StartRead
    \/ \E r \in Runs : Retry(r) \/ BuildStep(r) \/ BuildFail(r) \/ BuildTimeout(r)
    \/ \E t \in Tasks : Enqueue(t) \/ WorkerCrash(t) \/ AskLost(t)

Spec == Init /\ [][Next]_vars

\* ARQ runs what is queued, a process goes on until it dies, and the cron comes
\* every quarter of an hour.
Fairness ==
    /\ \A m \in MarkJobs : WF_vars(MarkRead(m)) /\ WF_vars(MarkCommit(m) \/ MarkRaises(m))
    /\ \A t \in Askers : WF_vars(SeeBacklog(t) \/ Check(t) \/ CreateRun(t))
    /\ WF_vars(StartRead)
    /\ \A t \in Tasks : WF_vars(Enqueue(t))
    /\ \A r \in Runs : WF_vars(BuildStep(r))

FairSpec == Spec /\ Fairness

-----------------------------------------------------------------------------
(* Properties *)

\* Every variable keeps to its type.
TypeOK ==
    /\ version \in [Items -> Nat] /\ routed \in [Items -> Nat]
    /\ dirty \in Nat /\ indexed \in Nat
    /\ lease \in Runs \cup {"none"}
    /\ row \in [Items -> Nat] /\ born \in [Items -> Nat]
    /\ run \in [Runs -> Run]
    /\ build \in [Runs -> Build]
    /\ task \in [Tasks -> Task]
    /\ events \in Nat

\* A tenant's lease never names a run that is over, although runs overlap and
\* each of them writes the lease when it starts and when it ends: maintenance,
\* which waits for the lease to be free, never waits for a run that is over.
LeaseIsActive == lease # "none" => Active(lease)

\* A dirty row goes only when a build has routed its item at a version at least
\* as new as the one the row was inserted for, however builds overlap and
\* wherever they are cut off: run_palace_run deletes the rows it has read.
DeletedWasRouted ==
    [][\A i \in Items : row[i] # 0 /\ row'[i] = 0 => routed[i] >= born[i]]_vars

\* An active run that nothing will ever execute.
Stranded ==
    \E r \in Runs :
        /\ Active(r)
        /\ task[r].pc = "idle"
        /\ \A t \in Tasks : task[t].run # r

\* A backlog of generations is worked off, through failing builds, retries of
\* older runs that set the indexed generation back, and crashes of workers,
\* unless a run was left active with no job to execute it.
BacklogDrains == Backlog ~> (~Backlog \/ Stranded)

\* PROJECT_STATUS.md:29: the maintenance loop re-enqueues runs when the dirty
\* generation gets stranded above the indexed one.
BacklogRecovered == Backlog ~> ~Backlog
=============================================================================
