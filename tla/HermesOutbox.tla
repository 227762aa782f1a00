---------------------------- MODULE HermesOutbox ----------------------------
(***************************************************************************)
(* The outbox of the Hermes provider: a write is executed by committing    *)
(* its record to the profile's SQLite file; recovery commands, one at a    *)
(* time, post the pending records in order to the Palace and mark a record *)
(* delivered when the server has shown a durable receipt for it.           *)
(*                                                                         *)
(* A SQLite transaction is one step.  A key is the digest of its payload:  *)
(* the error for two payloads with one key is left out, and so are the     *)
(* checks of stored payloads and of the credentials.                       *)
(***************************************************************************)
EXTENDS HermesLane

CONSTANTS Keys,        \* idempotency keys
          KeyOf,       \* [Writes -> Keys]
          Sessions,
          SessionOf,   \* [Writes -> Sessions]
          Workers,     \* recovery commands
          Found,       \* contents of the file that the profile may have already
          MaxSession,  \* max_writes_per_session
          MaxRows,     \* MAX_ROWS
          MaxBatch     \* --max-jobs

ASSUME WritesHaveKeys == KeyOf \in [Writes -> Keys] /\ SessionOf \in [Writes -> Sessions]
ASSUME OutboxBounds == MaxSession \in Nat \ {0} /\ MaxRows \in Nat /\ MaxBatch \in 1 .. MaxRows

VARIABLES rows,      \* records of the outbox, in seq order
          exec,      \* what the drain thread of each process is at
          charged,   \* in-memory session counts of each process
          worker,    \* recovery commands
          server     \* the Palace's entry of each key

vars == <<lane, write, call, faults, rows, exec, charged, worker, server>>
storeVars == <<rows, exec, charged, worker, server>>

-----------------------------------------------------------------------------
(* Types *)

Record == [key : Keys, session : Sessions, delivered : BOOLEAN]
Worker == [pc   : {"idle", "read", "post", "receipt", "mark"},
           todo : SUBSET (1 .. MaxRows)]      \* the rows of its batch that are left
ServerStates == {"none", "durable", "deleted"}

IdleWorker == [pc |-> "idle", todo |-> {}]

\* What earlier commands of the profile have left: delivered from the front.
InOrder(log) == \A i, j \in 1 .. Len(log) : i < j /\ log[j].delivered => log[i].delivered
ASSUME FoundIsOutbox ==
    \A log \in Found : log \in Seq(Record) /\ Len(log) <= MaxRows /\ InOrder(log)

Init ==
    /\ LaneInit
    /\ rows \in Found
    /\ exec = [p \in Providers |-> "none"]
    /\ charged = [p \in Providers |-> [s \in Sessions |-> 0]]
    /\ worker = [r \in Workers |-> IdleWorker]
    /\ server = [k \in Keys |-> IF \E i \in 1 .. Len(rows) : rows[i].key = k /\ rows[i].delivered
                               THEN "durable" ELSE "none"]

RowsOf(s) == Cardinality({i \in 1 .. Len(rows) : rows[i].session = s})
RowOf(w) == {i \in 1 .. Len(rows) : rows[i].key = KeyOf[w]}

-----------------------------------------------------------------------------
(* Callbacks and calls: the lane alone *)

LaneOnly(A) == A /\ UNCHANGED storeVars

-----------------------------------------------------------------------------
(* The drain thread executes a write *)

Begin(p) ==
    /\ exec[p] = "none"
    /\ Take(p)
    /\ exec' = [exec EXCEPT ![p] = "look"]
    /\ UNCHANGED <<rows, charged, worker, server>>

\* Mutant of MayCharge: off by one.
MayChargeOneMore(p, s) == charged[p][s] <= MaxSession

MayCharge(p, s) == charged[p][s] < MaxSession

\* is_duplicate and _reserve_write_quota: a record that is there charges nothing.
LookUp(p) ==
    LET w == lane[p].active
        s == SessionOf[w]
    IN  /\ exec[p] = "look"
        /\ IF RowOf(w) # {}
           THEN /\ exec' = [exec EXCEPT ![p] = "admit"]
                /\ UNCHANGED charged
           ELSE IF MayCharge(p, s)
                THEN /\ exec' = [exec EXCEPT ![p] = "admit"]
                     /\ charged' = [charged EXCEPT ![p][s] = @ + 1]
                ELSE /\ exec' = [exec EXCEPT ![p] = "failed"]
                     /\ UNCHANGED charged
        /\ UNCHANGED <<lane, write, call, faults, rows, worker, server>>

Refused(w) ==
    /\ RowOf(w) = {}
    /\ Len(rows) >= MaxRows \/ RowsOf(SessionOf[w]) >= MaxSession

RecordOf(w) == [key |-> KeyOf[w], session |-> SessionOf[w],
                delivered |-> FALSE]

\* OutboxStore.admit: look-up, caps and insertion in one BEGIN IMMEDIATE.
Admit(p) ==
    LET w == lane[p].active
    IN  /\ exec[p] = "admit"
        /\ rows' = IF Refused(w) \/ RowOf(w) # {} THEN rows ELSE Append(rows, RecordOf(w))
        /\ exec' = [exec EXCEPT ![p] = IF Refused(w) THEN "failed" ELSE "ok"]
        /\ UNCHANGED <<lane, write, call, faults, charged, worker, server>>

\* SQLite is busy or fails; after the commit, the readback.
ExecFails(p) ==
    /\ exec[p] \in {"look", "admit", "ok"}
    /\ exec' = [exec EXCEPT ![p] = "failed"]
    /\ Fault
    /\ UNCHANGED <<lane, write, call, rows, charged, worker, server>>

End(p) ==
    /\ exec[p] \in {"ok", "failed"}
    /\ Finish(p, exec[p])
    /\ exec' = [exec EXCEPT ![p] = "none"]
    /\ UNCHANGED <<rows, charged, worker, server>>

ProcessDies(p) ==
    /\ LaneDies(p)
    /\ exec' = [exec EXCEPT ![p] = "none"]
    /\ charged' = [charged EXCEPT ![p] = [s \in Sessions |-> 0]]
    /\ UNCHANGED <<rows, worker, server>>

-----------------------------------------------------------------------------
(* RecoveryWorker.run *)

\* The flock, which the system releases when the command ends or dies.
Locked(r) == \E q \in Workers \ {r} : worker[q].pc # "idle"
WorkerOnly == UNCHANGED <<lane, write, call, exec, charged>>

Recover(r) ==
    /\ worker[r].pc = "idle"
    /\ ~Locked(r)
    /\ worker' = [worker EXCEPT ![r].pc = "read"]
    /\ WorkerOnly /\ UNCHANGED <<rows, server, faults>>

PendingRows == {i \in 1 .. Len(rows) : ~rows[i].delivered}

\* ORDER BY seq, the first MaxBatch of them.
Batch == {i \in PendingRows : Cardinality({k \in PendingRows : k <= i}) <= MaxBatch}

ReadRows(r) ==
    /\ worker[r].pc = "read"
    /\ worker' = [worker EXCEPT ![r] =
                    IF Batch = {} THEN IdleWorker ELSE [pc |-> "post", todo |-> Batch]]
    /\ WorkerOnly /\ UNCHANGED <<rows, server, faults>>

First(todo) == CHOOSE i \in todo : \A k \in todo : i <= k
RowAt(r) == rows[First(worker[r].todo)]
Rest(todo) == todo \ {First(todo)}
NextRow(todo) == IF Rest(todo) = {} THEN IdleWorker ELSE [pc |-> "post", todo |-> Rest(todo)]

\* Mutant of Accept: a replay is refused.
AcceptOnce(k) == server[k] = "none" /\ server' = [server EXCEPT ![k] = "durable"]

\* POST /memory/entries: a replay of a key answers with the entry that is there.
Accept(k) == server' = [server EXCEPT ![k] = IF @ = "none" THEN "durable" ELSE @]
Post(r) ==
    /\ worker[r].pc = "post"
    /\ Accept(RowAt(r).key)
    /\ worker' = [worker EXCEPT ![r].pc = "receipt"]
    /\ WorkerOnly /\ UNCHANGED <<rows, faults>>

\* Mutant of GiveUp: the next row is tried.
SkipRow(r) == worker' = [worker EXCEPT ![r] =
                  IF @.todo = {} THEN IdleWorker ELSE NextRow(@.todo)]

\* The first failure ends the batch; the request may have had its effect.
GiveUp(r) == worker' = [worker EXCEPT ![r] = IdleWorker]

\* An error, a refusal, the deadline, or the death of the command.
WorkerFails(r) ==
    /\ worker[r].pc # "idle"
    /\ \/ /\ worker[r].pc = "post"
          /\ Accept(RowAt(r).key)
       \/ UNCHANGED server
    /\ GiveUp(r)
    /\ Fault
    /\ WorkerOnly /\ UNCHANGED rows

\* GET .../checkpoint-receipt: durable, for an item that has not been deleted.
Receipt(r) ==
    /\ worker[r].pc = "receipt"
    /\ server[RowAt(r).key] = "durable"
    /\ worker' = [worker EXCEPT ![r].pc = "mark"]
    /\ WorkerOnly /\ UNCHANGED <<rows, server, faults>>

ReceiptRefused(r) ==
    /\ worker[r].pc = "receipt"
    /\ server[RowAt(r).key] # "durable"
    /\ GiveUp(r)
    /\ WorkerOnly /\ UNCHANGED <<rows, server, faults>>

\* mark_delivered, of a pending row; then the next.
Mark(r) ==
    /\ worker[r].pc = "mark"
    /\ ~RowAt(r).delivered
    /\ rows' = [rows EXCEPT ![First(worker[r].todo)].delivered = TRUE]
    /\ worker' = [worker EXCEPT ![r] = NextRow(@.todo)]
    /\ WorkerOnly /\ UNCHANGED <<server, faults>>

\* A user deletes the item in the Palace.
Delete(k) ==
    /\ server[k] = "durable"
    /\ server' = [server EXCEPT ![k] = "deleted"]
    /\ Fault
    /\ WorkerOnly /\ UNCHANGED <<rows, worker>>

-----------------------------------------------------------------------------
(* Specification *)

Callback(p) == \/ \E w \in Writes : LaneOnly(Enter(p, w))
               \/ LaneOnly(QueueFails(p))
Drain(p) == Begin(p) \/ LaneOnly(Stop(p)) \/ LookUp(p) \/ Admit(p) \/ End(p)
Calls(c) == \/ \E p \in Providers : LaneOnly(FlushCall(c, p)) \/ LaneOnly(ShutdownCall(c, p))
            \/ LaneOnly(FlushTimeout(c))
Deliver(r) == ReadRows(r) \/ Post(r) \/ Receipt(r) \/ ReceiptRefused(r) \/ Mark(r)

Next ==
    \/ \E p \in Providers : \/ Callback(p) \/ LaneOnly(Queue(p)) \/ Drain(p)
                            \/ ExecFails(p) \/ ProcessDies(p)
    \/ \E c \in Callers : Calls(c) \/ LaneOnly(CallStep(c))
    \/ \E r \in Workers : Recover(r) \/ Deliver(r) \/ WorkerFails(r)
    \/ \E k \in Keys : Delete(k)

Spec == Init /\ [][Next]_vars

\* Threads and commands go on; somebody runs recovery again and again.
Fairness ==
    /\ \A p \in Providers : WF_vars(LaneOnly(Queue(p))) /\ WF_vars(Drain(p))
    /\ \A c \in Callers : WF_vars(LaneOnly(CallStep(c)))
    /\ \A r \in Workers : WF_vars(Deliver(r))
    /\ WF_vars(\E r \in Workers : Recover(r))

FairSpec == Spec /\ Fairness

-----------------------------------------------------------------------------
(* Properties *)

TypeOK ==
    /\ LaneTypeOK
    /\ rows \in Seq(Record) /\ Len(rows) <= MaxRows
    /\ exec \in [Providers -> {"none", "look", "admit", "ok", "failed"}]
    /\ charged \in [Providers -> [Sessions -> 0 .. MaxSession]]
    /\ worker \in [Workers -> Worker]
    /\ \A r \in Workers : Cardinality(worker[r].todo) <= MaxBatch
    /\ server \in [Keys -> ServerStates]

\* When a shutdown has reported that the lane is drained, nothing is pending
\* then or later: a callback that has passed the gate is waited for, and none
\* passes it after.
DrainedIsFinal ==
    \A c \in Callers :
        call[c].pc = "drained" /\ call[c].shutdown
        => LET l == lane[call[c].provider] IN l.queue = <<>> /\ l.active = NoWrite

\* Records are delivered first in, first out: no record is delivered before
\* an earlier one, over failures, crashes and overlapping commands.
DeliveredInOrder == InOrder(rows)

\* The lane comes to rest: every accepted write is executed and every flush
\* returns without its timeout.  No write is left to a thread that has stopped,
\* and no notification is lost.
LaneComesToRest ==
    <>[](/\ \A p \in Providers : ~Pending(p)
         /\ \A c \in Callers : call[c].pc # "wait")

\* Every committed record is delivered in the end, unless the item of that
\* record, or of one in front of it, has been deleted at the server.
Outcome(i) == \/ rows[i].delivered
              \/ \E j \in 1 .. i : ~rows[j].delivered /\ server[rows[j].key] = "deleted"
EventuallyDelivered == <>[]\A i \in 1 .. Len(rows) : Outcome(i)
=============================================================================
