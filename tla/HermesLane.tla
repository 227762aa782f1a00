----------------------------- MODULE HermesLane -----------------------------
(***************************************************************************)
(* The write lane of the Hermes memory provider: host callbacks queue      *)
(* writes under the lifecycle lock, one drain thread at a time executes    *)
(* them in order, and flush and shutdown wait for the lane by its          *)
(* notifications.  A provider is one host process; it may die.             *)
(*                                                                         *)
(* What executing a write does is the business of the module that extends  *)
(* this one.  A section under the lock is one step, except for a           *)
(* callback's: the admission gate is closed without the lock, so it may    *)
(* close between the callback's test and its append.                       *)
(***************************************************************************)
EXTENDS Integers, Sequences, FiniteSets

CONSTANTS Providers,   \* host processes of one profile
          Writes,      \* automatic captures, each queued once
          Callers,     \* threads that flush or shut down
          NoWrite, NoProvider,
          MaxFaults    \* bound: crashes, errors, timeouts of writes and recovery

ASSUME NullsAreApart == NoWrite \notin Writes /\ NoProvider \notin Providers
ASSUME WritesAreFinite == IsFiniteSet(Writes)
ASSUME FaultsBounded == MaxFaults \in Nat

VARIABLES lane,    \* the provider object of each process
          write,   \* what became of each write
          call,    \* flush_pending and shutdown calls
          faults

laneVars == <<lane, write, call, faults>>

WriteStates == {"new", "testing", "refused", "queued", "active", "ok", "failed", "lost"}
Lane == [gate    : BOOLEAN,                  \* _admission_closed
         closed  : BOOLEAN,                  \* _closed
         inside  : Writes \cup {NoWrite},    \* the callback that holds the lock
         queue   : Seq(Writes),              \* _write_queue
         running : BOOLEAN,                  \* _writer_running
         active  : Writes \cup {NoWrite}]    \* _active_writes
Call == [pc       : {"idle", "close", "check", "wait", "last", "drained", "gaveup"},
         provider : Providers \cup {NoProvider},
         shutdown : BOOLEAN,
         told     : BOOLEAN]                 \* its _work_changed event is set

NewLane == [gate |-> FALSE, closed |-> FALSE, inside |-> NoWrite, queue |-> <<>>,
            running |-> FALSE, active |-> NoWrite]
IdleCall == [pc |-> "idle", provider |-> NoProvider, shutdown |-> FALSE, told |-> FALSE]

GaveUp == [IdleCall EXCEPT !.pc = "gaveup"]

LaneTypeOK ==
    /\ lane \in [Providers -> Lane]
    /\ \A p \in Providers : Len(lane[p].queue) <= Cardinality(Writes)
    /\ write \in [Writes -> WriteStates]
    /\ call \in [Callers -> Call]
    /\ faults \in 0 .. MaxFaults

LaneInit ==
    /\ lane = [p \in Providers |-> NewLane]
    /\ write = [w \in Writes |-> "new"]
    /\ call = [c \in Callers |-> IdleCall]
    /\ faults = 0

Fault == faults < MaxFaults /\ faults' = faults + 1

LockFree(p) == lane[p].inside = NoWrite

\* Mutant of Pending: the write that is being executed is forgotten.
PendingQueued(p) == lane[p].queue # <<>>

Pending(p) == lane[p].queue # <<>> \/ lane[p].active # NoWrite

\* Mutant of Publish: the event is cleared again before a waiter sees it.
PublishCleared(p) == UNCHANGED call

\* _publish_work_change: who waits on the provider is told.
Publish(p) ==
    call' = [c \in Callers |->
               IF call[c].provider = p /\ call[c].pc = "wait"
               THEN [call[c] EXCEPT !.told = TRUE] ELSE call[c]]

-----------------------------------------------------------------------------
(* Callbacks: sync_turn, on_memory_write, the session audit *)

\* _assert_open, under the lifecycle lock.
Enter(p, w) ==
    /\ write[w] = "new"
    /\ LockFree(p)
    /\ IF lane[p].gate \/ lane[p].closed
       THEN /\ write' = [write EXCEPT ![w] = "refused"]
            /\ UNCHANGED lane
       ELSE /\ write' = [write EXCEPT ![w] = "testing"]
            /\ lane' = [lane EXCEPT ![p].inside = w]
    /\ UNCHANGED <<call, faults>>

\* _queue_write; the drain thread is started if none runs.
Queue(p) ==
    /\ ~LockFree(p)
    /\ lane' = [lane EXCEPT ![p].queue = Append(@, lane[p].inside), ![p].running = TRUE,
                            ![p].inside = NoWrite]
    /\ write' = [write EXCEPT ![lane[p].inside] = "queued"]
    /\ Publish(p)
    /\ UNCHANGED faults

\* The thread does not start: the write is taken back.
QueueFails(p) ==
    /\ ~LockFree(p) /\ ~lane[p].running
    /\ lane' = [lane EXCEPT ![p].inside = NoWrite]
    /\ write' = [write EXCEPT ![lane[p].inside] = "refused"]
    /\ Publish(p)
    /\ Fault

-----------------------------------------------------------------------------
(* The drain thread *)

Take(p) ==
    /\ lane[p].running /\ lane[p].active = NoWrite
    /\ LockFree(p)
    /\ lane[p].queue # <<>>
    /\ lane' = [lane EXCEPT ![p].queue = Tail(@), ![p].active = Head(lane[p].queue)]
    /\ write' = [write EXCEPT ![Head(lane[p].queue)] = "active"]
    /\ Publish(p)
    /\ UNCHANGED faults

\* Nothing is queued: the thread says that it stops before anyone can queue.
Stop(p) ==
    /\ lane[p].running /\ lane[p].active = NoWrite
    /\ LockFree(p)
    /\ lane[p].queue = <<>>
    /\ lane' = [lane EXCEPT ![p].running = FALSE]
    /\ Publish(p)
    /\ UNCHANGED <<write, faults>>

\* The write has succeeded or raised: it is counted and the lane is free.
Finish(p, outcome) ==
    /\ LockFree(p)
    /\ lane' = [lane EXCEPT ![p].active = NoWrite]
    /\ write' = [write EXCEPT ![lane[p].active] = outcome]
    /\ Publish(p)
    /\ UNCHANGED faults

-----------------------------------------------------------------------------
(* flush_pending and shutdown *)

FlushCall(c, p) ==
    /\ call[c].pc = "idle"
    /\ call' = [call EXCEPT ![c] = [IdleCall EXCEPT !.pc = "check", !.provider = p]]
    /\ UNCHANGED <<lane, write, faults>>

\* The gate is closed first, without the lock ...
ShutdownCall(c, p) ==
    /\ call[c].pc = "idle"
    /\ call' = [call EXCEPT ![c] = [IdleCall EXCEPT !.pc = "close", !.provider = p,
                                                    !.shutdown = TRUE]]
    /\ lane' = [lane EXCEPT ![p].gate = TRUE]
    /\ UNCHANGED <<write, faults>>

\* ... and the provider under it.
ShutdownClose(c) ==
    LET p == call[c].provider
        told(d) == IF call[d].provider = p /\ call[d].pc = "wait"
                   THEN [call[d] EXCEPT !.told = TRUE] ELSE call[d]
    IN  /\ call[c].pc = "close"
        /\ LockFree(p)
        /\ lane' = [lane EXCEPT ![p].closed = TRUE]
        /\ call' = [d \in Callers |-> IF d = c THEN [call[c] EXCEPT !.pc = "check"] ELSE told(d)]
        /\ UNCHANGED <<write, faults>>

\* The event to wait for is read with the test, under the lock.
FlushCheck(c) ==
    /\ call[c].pc = "check"
    /\ LockFree(call[c].provider)
    /\ call' = [call EXCEPT ![c].pc = IF Pending(call[c].provider) THEN "wait" ELSE "last",
                            ![c].told = FALSE]
    /\ UNCHANGED <<lane, write, faults>>

FlushWake(c) ==
    /\ call[c].pc = "wait" /\ call[c].told
    /\ call' = [call EXCEPT ![c].pc = "check"]
    /\ UNCHANGED <<lane, write, faults>>

\* The loop has seen an idle lane; what counts is a second look.
FlushLast(c) ==
    /\ call[c].pc = "last"
    /\ LockFree(call[c].provider)
    /\ call' = [call EXCEPT ![c] = IF Pending(call[c].provider) THEN GaveUp
                                   ELSE [@ EXCEPT !.pc = "drained"]]
    /\ UNCHANGED <<lane, write, faults>>

\* The call's time is over, for the lock or for the event.
FlushTimeout(c) ==
    /\ call[c].pc \in {"close", "check", "wait", "last"}
    /\ call' = [call EXCEPT ![c] = GaveUp]
    /\ UNCHANGED <<lane, write, faults>>

-----------------------------------------------------------------------------

\* The host process dies; a new one begins with a new provider.
LaneDies(p) ==
    /\ lane' = [lane EXCEPT ![p] = NewLane]
    /\ write' = [w \in Writes |->
                   IF w \in {lane[p].inside, lane[p].active}
                      \/ \E i \in 1 .. Len(lane[p].queue) : lane[p].queue[i] = w
                   THEN "lost" ELSE write[w]]
    /\ call' = [c \in Callers |->
                   IF call[c].provider = p THEN IdleCall ELSE call[c]]
    /\ Fault

CallStep(c) == FlushCheck(c) \/ FlushWake(c) \/ FlushLast(c) \/ ShutdownClose(c)
=============================================================================
