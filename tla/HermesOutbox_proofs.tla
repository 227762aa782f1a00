------------------------ MODULE HermesOutbox_proofs ------------------------
(***************************************************************************)
(* Theorems about HermesOutbox and the lane it extends, for all processes, *)
(* writes, callers, commands and bounds: the types; that a write which the *)
(* lane accepted is in exactly one place of it; that no waiter is left     *)
(* without its notification; that a drained shutdown is final; and that    *)
(* the recovery commands deliver in order, and only what was received.     *)
(***************************************************************************)
EXTENDS HermesOutbox, SequenceTheorems, FiniteSetTheorems, WellFoundedInduction, TLAPS

-----------------------------------------------------------------------------
(* Sequences and sets of positions *)

LEMMA AppendFacts ==
    ASSUME NEW S, NEW q \in Seq(S), NEW e \in S
    PROVE  /\ Append(q, e) \in Seq(S)
           /\ Append(q, e) # <<>>
           /\ Len(q) \in Nat
           /\ Len(Append(q, e)) = Len(q) + 1
           /\ \A i \in 1 .. Len(q) : Append(q, e)[i] = q[i]
           /\ Append(q, e)[Len(q) + 1] = e
BY AppendProperties, LenProperties

LEMMA TailFacts ==
    ASSUME NEW S, NEW q \in Seq(S), q # <<>>
    PROVE  /\ Head(q) \in S
           /\ Head(q) = q[1]
           /\ Len(q) \in Nat \ {0}
           /\ Tail(q) \in Seq(S)
           /\ Len(Tail(q)) = Len(q) - 1
           /\ \A i \in 1 .. Len(q) - 1 : Tail(q)[i] = q[i + 1]
<1>1. Len(q) \in Nat \ {0}
  BY EmptySeq
<1>2. Head(q) = q[1]
  BY <1>1
<1> QED
  BY <1>1, <1>2, HeadTailProperties

LEMMA EmptyFacts ==
    ASSUME NEW S
    PROVE  /\ <<>> \in Seq(S)
           /\ Len(<<>>) = 0
BY EmptySeq

\* A sequence without repetition is no longer than its set of values.
LEMMA NoRepetition ==
    ASSUME NEW S, IsFiniteSet(S), NEW q \in Seq(S),
           \A i, j \in 1 .. Len(q) : q[i] = q[j] => i = j
    PROVE  Len(q) <= Cardinality(S)
<1>1. Len(q) \in Nat /\ q \in [1 .. Len(q) -> S]
  BY LenProperties
<1>2. q \in Injection(1 .. Len(q), S)
  BY <1>1 DEF Injection, IsInjective
<1>3. Cardinality(1 .. Len(q)) <= Cardinality(S)
  BY <1>2, FS_Injection
<1>4. Cardinality(1 .. Len(q)) = Len(q)
  BY <1>1, FS_Interval
<1> QED
  BY <1>3, <1>4

\* A set of positions has a least one.
LEMMA FirstIsLeast ==
    ASSUME NEW T \in SUBSET Nat, T # {}
    PROVE  /\ First(T) \in T
           /\ \A k \in T : First(T) <= k
<1> DEFINE R == {ss \in Nat \X Nat : ss[1] < ss[2]}
<1>1. IsWellFoundedOn(R, Nat)
  BY NatLessThanWellFounded DEF OpToRel
<1>2. \E x \in T : \A y \in T : ~(<<y, x>> \in R)
  <2> HIDE DEF R
  <2> QED BY <1>1, WFMin
<1>3. ASSUME NEW x \in T, NEW y \in T, ~(<<y, x>> \in R) PROVE x <= y
  <2>1. x \in Nat /\ y \in Nat
    OBVIOUS
  <2>2. ~(y < x)
    <3>1. <<y, x>> \in Nat \X Nat /\ <<y, x>>[1] = y /\ <<y, x>>[2] = x
      BY <2>1
    <3> QED BY <1>3, <3>1
  <2> QED
    BY <2>1, <2>2
<1>4. \E x \in T : \A y \in T : x <= y
  <2> HIDE DEF R
  <2> QED BY <1>2, <1>3, Zenon
<1> QED
  BY <1>4 DEF First

\* ... and one of a finite set of positions has a last one.
LEMMA LastPosition ==
    ASSUME NEW n \in Nat, NEW T \in SUBSET (1 .. n), T # {}
    PROVE  \E m \in T : \A k \in T : k <= m
<1> DEFINE U == {n - k : k \in T}
<1>1. U \in SUBSET Nat /\ U # {}
  <2>1. \A k \in T : n - k \in Nat
    OBVIOUS
  <2> QED
    BY <2>1, Zenon
<1>2. First(U) \in U /\ \A k \in U : First(U) <= k
  <2> HIDE DEF U
  <2> QED BY <1>1, FirstIsLeast
<1>3. PICK m \in T : First(U) = n - m
  BY <1>2
<1>4. ASSUME NEW k \in T PROVE k <= m
  <2>1. n - k \in U
    OBVIOUS
  <2>2. n - m <= n - k
    BY <2>1, <1>2, <1>3
  <2> QED
    BY <2>2
<1> QED
  BY <1>4

\* A batch is a beginning of the pending rows, of at most MaxBatch of them.
LEMMA BatchFacts ==
    ASSUME rows \in Seq(Record)
    PROVE  /\ Batch \subseteq PendingRows
           /\ \A k \in Batch : \A i \in PendingRows : i <= k => i \in Batch
           /\ Cardinality(Batch) <= MaxBatch
<1> DEFINE Upto(m) == {k \in PendingRows : k <= m}
<1>1. Len(rows) \in Nat /\ IsFiniteSet(1 .. Len(rows)) /\ PendingRows \subseteq 1 .. Len(rows)
  BY LenProperties, FS_Interval DEF PendingRows
<1>2. \A j \in PendingRows : IsFiniteSet(Upto(j)) /\ Cardinality(Upto(j)) \in Nat
  BY <1>1, FS_Subset, FS_CardinalityType
<1>3. Batch = {i \in PendingRows : Cardinality(Upto(i)) <= MaxBatch}
  BY DEF Batch
<1>4. ASSUME NEW k \in Batch, NEW i \in PendingRows, i <= k PROVE i \in Batch
  <2>1. k \in PendingRows
    BY <1>3
  <2>2. Upto(i) \subseteq Upto(k)
    <3>1. \A j \in PendingRows : j \in Int
      BY <1>1
    <3> QED BY <1>4, <2>1, <3>1
  <2>3. Cardinality(Upto(i)) <= Cardinality(Upto(k))
    BY <1>2, <2>1, <2>2, FS_Subset
  <2>4. Cardinality(Upto(k)) <= MaxBatch
    BY <1>3
  <2> HIDE DEF Upto
  <2> QED
    BY <1>2, <1>3, <2>1, <2>3, <2>4, OutboxBounds
<1>5. Cardinality(Batch) <= MaxBatch
  <2>1. CASE Batch = {}
    BY <2>1, FS_EmptySet, OutboxBounds
  <2>2. CASE Batch # {}
    <3>1. PICK m \in Batch : \A k \in Batch : k <= m
      BY <1>1, <1>3, <2>2, LastPosition
    <3>2. Batch \subseteq Upto(m)
      BY <1>3, <3>1
    <3>3. m \in PendingRows /\ Cardinality(Upto(m)) <= MaxBatch
      BY <1>3
    <3>4. Cardinality(Batch) <= Cardinality(Upto(m)) /\ Cardinality(Batch) \in Nat
      BY <1>2, <3>2, <3>3, FS_Subset, FS_CardinalityType
    <3> HIDE DEF Upto
    <3> QED
      BY <1>2, <3>3, <3>4, OutboxBounds
  <2> QED
    BY <2>1, <2>2
<1> QED
  BY <1>3, <1>4, <1>5

-----------------------------------------------------------------------------
(* The steps of the lane *)

LaneType == lane \in [Providers -> Lane]
WriteType == write \in [Writes -> WriteStates]
CallType == call \in [Callers -> Call]

\* What a step does to the lane of one process, and to one write.
Moved(p, gate, closed, inside, queue, running, active) ==
    /\ lane' \in [Providers -> Lane]
    /\ \A q \in Providers \ {p} : lane'[q] = lane[q]
    /\ lane'[p].gate = gate
    /\ lane'[p].closed = closed
    /\ lane'[p].inside = inside
    /\ lane'[p].queue = queue
    /\ lane'[p].running = running
    /\ lane'[p].active = active
Wrote(w, state) ==
    /\ write' \in [Writes -> WriteStates]
    /\ \A v \in Writes : write'[v] = IF v = w THEN state ELSE write[v]

LEMMA LaneFields ==
    ASSUME LaneType, NEW p \in Providers
    PROVE  /\ lane[p] \in Lane
           /\ lane[p].gate \in BOOLEAN
           /\ lane[p].closed \in BOOLEAN
           /\ lane[p].inside \in Writes \cup {NoWrite}
           /\ lane[p].queue \in Seq(Writes)
           /\ lane[p].running \in BOOLEAN
           /\ lane[p].active \in Writes \cup {NoWrite}
<1>1. lane[p] \in Lane
  BY DEF LaneType
<1> QED
  BY <1>1 DEF Lane

\* A lane that is changed to another record of its type.
LEMMA LaneMoves ==
    ASSUME LaneType, NEW p \in Providers, NEW l \in Lane, lane' = [lane EXCEPT ![p] = l]
    PROVE  Moved(p, l.gate, l.closed, l.inside, l.queue, l.running, l.active)
BY DEF LaneType, Moved

LEMMA EnterEffect ==
    ASSUME LaneType, WriteType, NEW p \in Providers, NEW w \in Writes, Enter(p, w)
    PROVE  /\ write[w] = "new"
           /\ lane[p].inside = NoWrite
           /\ \/ lane' = lane /\ Wrote(w, "refused")
              \/ /\ ~lane[p].gate /\ ~lane[p].closed
                 /\ Moved(p, lane[p].gate, lane[p].closed, w, lane[p].queue,
                          lane[p].running, lane[p].active)
                 /\ Wrote(w, "testing")
           /\ call' = call
<1> USE LaneFields
<1>1. CASE lane[p].gate \/ lane[p].closed
  BY <1>1 DEF Enter, LockFree, Wrote, WriteType, WriteStates
<1>2. CASE ~(lane[p].gate \/ lane[p].closed)
  <2> DEFINE l == [lane[p] EXCEPT !.inside = w]
  <2>1. l \in Lane /\ l.gate = lane[p].gate /\ l.closed = lane[p].closed /\ l.inside = w
        /\ l.queue = lane[p].queue /\ l.running = lane[p].running /\ l.active = lane[p].active
    BY DEF Lane
  <2>2. lane' = [lane EXCEPT ![p] = l]
    BY <1>2 DEF Enter
  <2>3. Wrote(w, "testing")
    BY <1>2 DEF Enter, Wrote, WriteType, WriteStates
  <2> HIDE DEF l
  <2>4. Moved(p, l.gate, l.closed, l.inside, l.queue, l.running, l.active)
    BY <2>1, <2>2, LaneMoves
  <2> QED
    BY <1>2, <2>1, <2>3, <2>4 DEF Enter, LockFree
<1> QED
  BY <1>1, <1>2

LEMMA QueueEffect ==
    ASSUME LaneType, WriteType, NEW p \in Providers, Queue(p)
    PROVE  /\ lane[p].inside \in Writes
           /\ Moved(p, lane[p].gate, lane[p].closed, NoWrite, Append(lane[p].queue, lane[p].inside),
                    TRUE, lane[p].active)
           /\ Wrote(lane[p].inside, "queued")
           /\ Publish(p)
<1> DEFINE w == lane[p].inside
           l == [lane[p] EXCEPT !.queue = Append(@, w), !.running = TRUE, !.inside = NoWrite]
<1>1. w \in Writes
  BY LaneFields DEF Queue, LockFree
<1>2. Append(lane[p].queue, w) \in Seq(Writes)
  BY <1>1, LaneFields, AppendFacts
<1>3. l \in Lane /\ l.gate = lane[p].gate /\ l.closed = lane[p].closed /\ l.inside = NoWrite
      /\ l.queue = Append(lane[p].queue, w) /\ l.running = TRUE /\ l.active = lane[p].active
  BY <1>2, LaneFields DEF Lane
<1>4. lane' = [lane EXCEPT ![p] = l]
  BY DEF Queue, LaneType
<1>5. Wrote(w, "queued")
  BY <1>1 DEF Queue, Wrote, WriteType, WriteStates
<1> HIDE DEF l
<1>6. Moved(p, l.gate, l.closed, l.inside, l.queue, l.running, l.active)
  BY <1>3, <1>4, LaneMoves
<1> QED
  BY <1>1, <1>3, <1>5, <1>6 DEF Queue

LEMMA QueueFailsEffect ==
    ASSUME LaneType, WriteType, NEW p \in Providers, QueueFails(p)
    PROVE  /\ lane[p].inside \in Writes
           /\ Moved(p, lane[p].gate, lane[p].closed, NoWrite, lane[p].queue,
                    lane[p].running, lane[p].active)
           /\ Wrote(lane[p].inside, "refused")
           /\ Publish(p)
<1> DEFINE w == lane[p].inside
           l == [lane[p] EXCEPT !.inside = NoWrite]
<1>1. w \in Writes
  BY LaneFields DEF QueueFails, LockFree
<1>3. l \in Lane /\ l.gate = lane[p].gate /\ l.closed = lane[p].closed /\ l.inside = NoWrite
      /\ l.queue = lane[p].queue /\ l.running = lane[p].running /\ l.active = lane[p].active
  BY LaneFields DEF Lane
<1>4. lane' = [lane EXCEPT ![p] = l]
  BY DEF QueueFails, LaneType
<1>5. Wrote(w, "refused")
  BY <1>1 DEF QueueFails, Wrote, WriteType, WriteStates
<1> HIDE DEF l
<1>6. Moved(p, l.gate, l.closed, l.inside, l.queue, l.running, l.active)
  BY <1>3, <1>4, LaneMoves
<1> QED
  BY <1>1, <1>3, <1>5, <1>6 DEF QueueFails

LEMMA TakeEffect ==
    ASSUME LaneType, WriteType, NEW p \in Providers, Take(p)
    PROVE  /\ lane[p].running /\ lane[p].active = NoWrite /\ lane[p].inside = NoWrite
           /\ lane[p].queue # <<>> /\ lane[p].queue[1] \in Writes
           /\ Moved(p, lane[p].gate, lane[p].closed, NoWrite, Tail(lane[p].queue),
                    TRUE, lane[p].queue[1])
           /\ Wrote(lane[p].queue[1], "active")
           /\ Publish(p)
<1> DEFINE w == Head(lane[p].queue)
           l == [lane[p] EXCEPT !.queue = Tail(@), !.active = w]
<1>1. lane[p].running /\ lane[p].active = NoWrite /\ lane[p].inside = NoWrite /\ lane[p].queue # <<>>
  BY DEF Take, LockFree
<1>2. w \in Writes /\ w = lane[p].queue[1] /\ Tail(lane[p].queue) \in Seq(Writes)
  BY <1>1, LaneFields, TailFacts
<1>3. l \in Lane /\ l.gate = lane[p].gate /\ l.closed = lane[p].closed /\ l.inside = NoWrite
      /\ l.queue = Tail(lane[p].queue) /\ l.running = TRUE /\ l.active = w
  <2> HIDE DEF w
  <2>1. lane[p].running = TRUE
    BY <1>1, LaneFields
  <2> QED
    BY <1>1, <1>2, <2>1, LaneFields DEF Lane
<1>4. lane' = [lane EXCEPT ![p] = l]
  BY DEF Take, LaneType
<1>5. Wrote(w, "active")
  BY <1>2 DEF Take, Wrote, WriteType, WriteStates
<1> HIDE DEF l
<1>6. Moved(p, l.gate, l.closed, l.inside, l.queue, l.running, l.active)
  BY <1>3, <1>4, LaneMoves
<1> QED
  BY <1>1, <1>2, <1>3, <1>5, <1>6 DEF Take

LEMMA StopEffect ==
    ASSUME LaneType, NEW p \in Providers, Stop(p)
    PROVE  /\ lane[p].active = NoWrite /\ lane[p].queue = <<>>
           /\ Moved(p, lane[p].gate, lane[p].closed, lane[p].inside, lane[p].queue,
                    FALSE, lane[p].active)
           /\ write' = write
           /\ Publish(p)
<1> DEFINE l == [lane[p] EXCEPT !.running = FALSE]
<1>3. l \in Lane /\ l.gate = lane[p].gate /\ l.closed = lane[p].closed /\ l.inside = lane[p].inside
      /\ l.queue = lane[p].queue /\ l.running = FALSE /\ l.active = lane[p].active
  BY LaneFields DEF Lane
<1>4. lane' = [lane EXCEPT ![p] = l]
  BY DEF Stop, LaneType
<1> HIDE DEF l
<1>6. Moved(p, l.gate, l.closed, l.inside, l.queue, l.running, l.active)
  BY <1>3, <1>4, LaneMoves
<1> QED
  BY <1>3, <1>6 DEF Stop

LEMMA FinishEffect ==
    ASSUME LaneType, WriteType, NEW p \in Providers, NEW o \in {"ok", "failed"}, Finish(p, o),
           lane[p].active # NoWrite
    PROVE  /\ lane[p].active \in Writes /\ lane[p].inside = NoWrite
           /\ Moved(p, lane[p].gate, lane[p].closed, lane[p].inside, lane[p].queue,
                    lane[p].running, NoWrite)
           /\ Wrote(lane[p].active, o)
           /\ Publish(p)
<1> DEFINE w == lane[p].active
           l == [lane[p] EXCEPT !.active = NoWrite]
<1>1. w \in Writes
  BY LaneFields
<1>3. l \in Lane /\ l.gate = lane[p].gate /\ l.closed = lane[p].closed /\ l.inside = lane[p].inside
      /\ l.queue = lane[p].queue /\ l.running = lane[p].running /\ l.active = NoWrite
  BY LaneFields DEF Lane
<1>4. lane' = [lane EXCEPT ![p] = l]
  BY DEF Finish, LaneType
<1>5. Wrote(w, o)
  BY <1>1 DEF Finish, Wrote, WriteType, WriteStates
<1> HIDE DEF l
<1>6. Moved(p, l.gate, l.closed, l.inside, l.queue, l.running, l.active)
  BY <1>3, <1>4, LaneMoves
<1> QED
  BY <1>1, <1>3, <1>5, <1>6 DEF Finish, LockFree

LEMMA ShutdownCallEffect ==
    ASSUME LaneType, CallType, NEW c \in Callers, NEW p \in Providers, ShutdownCall(c, p)
    PROVE  /\ Moved(p, TRUE, lane[p].closed, lane[p].inside, lane[p].queue,
                    lane[p].running, lane[p].active)
           /\ write' = write
           /\ call' \in [Callers -> Call]
           /\ call'[c].pc = "close" /\ call'[c].provider = p
           /\ \A d \in Callers \ {c} : call'[d] = call[d]
<1> DEFINE l == [lane[p] EXCEPT !.gate = TRUE]
<1>3. l \in Lane /\ l.gate = TRUE /\ l.closed = lane[p].closed /\ l.inside = lane[p].inside
      /\ l.queue = lane[p].queue /\ l.running = lane[p].running /\ l.active = lane[p].active
  BY LaneFields DEF Lane
<1>4. lane' = [lane EXCEPT ![p] = l]
  BY DEF ShutdownCall, LaneType
<1> HIDE DEF l
<1>6. Moved(p, l.gate, l.closed, l.inside, l.queue, l.running, l.active)
  BY <1>3, <1>4, LaneMoves
<1> QED
  BY <1>3, <1>6 DEF ShutdownCall, CallType, Call, IdleCall

LEMMA ShutdownCloseEffect ==
    ASSUME LaneType, CallType, NEW c \in Callers, call[c].provider \in Providers, ShutdownClose(c)
    PROVE  /\ lane[call[c].provider].inside = NoWrite
           /\ LET p == call[c].provider
              IN  Moved(p, lane[p].gate, TRUE, lane[p].inside, lane[p].queue,
                        lane[p].running, lane[p].active)
           /\ write' = write
           /\ call' \in [Callers -> Call]
           /\ call'[c] = [call[c] EXCEPT !.pc = "check"]
           /\ \A d \in Callers \ {c} :
                 call'[d] = IF call[d].provider = call[c].provider /\ call[d].pc = "wait"
                            THEN [call[d] EXCEPT !.told = TRUE] ELSE call[d]
<1> DEFINE p == call[c].provider
           l == [lane[p] EXCEPT !.closed = TRUE]
<1> p \in Providers
  OBVIOUS
<1>1. lane' = [lane EXCEPT ![p].closed = TRUE] /\ lane[p].inside = NoWrite
  BY DEF ShutdownClose, LockFree
<1>2. /\ write' = write
      /\ call' \in [Callers -> Call]
      /\ call'[c] = [call[c] EXCEPT !.pc = "check"]
      /\ \A d \in Callers \ {c} :
            call'[d] = IF call[d].provider = call[c].provider /\ call[d].pc = "wait"
                       THEN [call[d] EXCEPT !.told = TRUE] ELSE call[d]
  BY DEF ShutdownClose, CallType, Call
<1> HIDE DEF p
<1>3. l \in Lane /\ l.gate = lane[p].gate /\ l.closed = TRUE /\ l.inside = lane[p].inside
      /\ l.queue = lane[p].queue /\ l.running = lane[p].running /\ l.active = lane[p].active
  BY LaneFields DEF Lane
<1>4. lane' = [lane EXCEPT ![p] = l]
  BY <1>1 DEF LaneType
<1> HIDE DEF l
<1>6. Moved(p, l.gate, l.closed, l.inside, l.queue, l.running, l.active)
  BY <1>3, <1>4, LaneMoves
<1> QED
  BY <1>1, <1>2, <1>3, <1>6 DEF p

LEMMA LaneDiesEffect ==
    ASSUME LaneType, WriteType, NEW p \in Providers, LaneDies(p)
    PROVE  /\ Moved(p, FALSE, FALSE, NoWrite, <<>>, FALSE, NoWrite)
           /\ write' \in [Writes -> WriteStates]
           /\ \A w \in Writes :
                 write'[w] = IF w \in {lane[p].inside, lane[p].active}
                                \/ \E i \in 1 .. Len(lane[p].queue) : lane[p].queue[i] = w
                             THEN "lost" ELSE write[w]
<1>1. NewLane \in Lane
  BY EmptyFacts DEF NewLane, Lane
<1>2. lane' = [lane EXCEPT ![p] = NewLane]
  BY DEF LaneDies
<1>3. Moved(p, NewLane.gate, NewLane.closed, NewLane.inside, NewLane.queue, NewLane.running, NewLane.active)
  BY <1>1, <1>2, LaneMoves
<1>4. Moved(p, FALSE, FALSE, NoWrite, <<>>, FALSE, NoWrite)
  BY <1>3 DEF NewLane
<1> QED
  BY <1>4 DEF LaneDies, WriteType, WriteStates

\* What Next can do to the lane.
LaneStep ==
    \/ \E p \in Providers : \/ \E w \in Writes : Enter(p, w)
                            \/ Queue(p) \/ QueueFails(p) \/ Take(p) \/ Stop(p) \/ LaneDies(p)
                            \/ exec[p] \in {"ok", "failed"} /\ Finish(p, exec[p])
    \/ \E c \in Callers : \/ \E p \in Providers : FlushCall(c, p) \/ ShutdownCall(c, p)
                          \/ FlushTimeout(c) \/ CallStep(c)
    \/ UNCHANGED <<lane, write, call>>

LEMMA NextIsLaneStep ==
    ASSUME [Next]_vars
    PROVE  LaneStep
<1>1. CASE \E p \in Providers : Callback(p) \/ LaneOnly(Queue(p)) \/ Drain(p) \/ ExecFails(p) \/ ProcessDies(p)
  <2>1. PICK p \in Providers : Callback(p) \/ LaneOnly(Queue(p)) \/ Drain(p) \/ ExecFails(p) \/ ProcessDies(p)
    BY <1>1
  <2>2. CASE Callback(p) \/ LaneOnly(Queue(p))
    BY <2>2, Zenon DEF LaneStep, Callback, LaneOnly
  <2>3. CASE Drain(p)
    BY <2>3, Zenon DEF LaneStep, Drain, LaneOnly, Begin, LookUp, Admit, End
  <2>4. CASE ExecFails(p) \/ ProcessDies(p)
    BY <2>4, Zenon DEF LaneStep, ExecFails, ProcessDies
  <2> QED
    BY <2>1, <2>2, <2>3, <2>4
<1>2. CASE \E c \in Callers : Calls(c) \/ LaneOnly(CallStep(c))
  BY <1>2, Zenon DEF LaneStep, Calls, LaneOnly
<1>3. CASE \E r \in Workers : Recover(r) \/ Deliver(r) \/ WorkerFails(r)
  BY <1>3, Zenon DEF LaneStep, Recover, Deliver, ReadRows, Post, Receipt, ReceiptRefused, Mark, WorkerFails, WorkerOnly
<1>4. CASE \E k \in Keys : Delete(k)
  BY <1>4, Zenon DEF LaneStep, Delete, WorkerOnly
<1>5. CASE UNCHANGED vars
  BY <1>5, Zenon DEF LaneStep, vars
<1> QED
  BY <1>1, <1>2, <1>3, <1>4, <1>5, Zenon DEF Next

-----------------------------------------------------------------------------
(* Where the lane holds its writes *)

ValuesOf(q) == {q[i] : i \in 1 .. Len(q)}
NoRepeat(q) == \A i, j \in 1 .. Len(q) : q[i] = q[j] => i = j

LEMMA AppendValues ==
    ASSUME NEW S, NEW q \in Seq(S), NEW e \in S
    PROVE  /\ ValuesOf(Append(q, e)) = ValuesOf(q) \cup {e}
           /\ NoRepeat(q) /\ e \notin ValuesOf(q) => NoRepeat(Append(q, e))
<1> DEFINE a == Append(q, e)
<1>1. /\ Len(q) \in Nat /\ Len(a) = Len(q) + 1 /\ a[Len(q) + 1] = e
      /\ \A i \in 1 .. Len(q) : a[i] = q[i]
  BY AppendFacts
<1> HIDE DEF a
<1>2. 1 .. Len(a) = (1 .. Len(q)) \cup {Len(q) + 1}
  BY <1>1
<1>3. ValuesOf(a) = ValuesOf(q) \cup {e}
  BY <1>1, <1>2 DEF ValuesOf
<1>4. ASSUME NoRepeat(q), e \notin ValuesOf(q) PROVE NoRepeat(a)
  <2>1. \A i \in 1 .. Len(q) : q[i] # e
    BY <1>4 DEF ValuesOf
  <2> QED
    BY <1>1, <1>2, <1>4, <2>1 DEF NoRepeat
<1> QED
  BY <1>3, <1>4 DEF a

LEMMA TailValues ==
    ASSUME NEW S, NEW q \in Seq(S), q # <<>>
    PROVE  /\ ValuesOf(q) = ValuesOf(Tail(q)) \cup {q[1]}
           /\ NoRepeat(q) => NoRepeat(Tail(q)) /\ q[1] \notin ValuesOf(Tail(q))
<1> DEFINE t == Tail(q)
<1>1. /\ Len(q) \in Nat \ {0} /\ Len(t) = Len(q) - 1
      /\ \A i \in 1 .. Len(q) - 1 : t[i] = q[i + 1]
  BY TailFacts
<1> HIDE DEF t
<1>2. \A i \in 1 .. Len(q) : i = 1 \/ (i - 1 \in 1 .. Len(t) /\ t[i - 1] = q[i])
  BY <1>1
<1>3. \A i \in 1 .. Len(t) : i + 1 \in 1 .. Len(q) /\ t[i] = q[i + 1] /\ i + 1 # 1
  BY <1>1
<1>4. ValuesOf(q) = ValuesOf(t) \cup {q[1]}
  <2>1. 1 \in 1 .. Len(q)
    BY <1>1
  <2>2. ValuesOf(q) \subseteq ValuesOf(t) \cup {q[1]}
    BY <1>2 DEF ValuesOf
  <2>3. ValuesOf(t) \subseteq ValuesOf(q)
    BY <1>3 DEF ValuesOf
  <2>4. q[1] \in ValuesOf(q)
    BY <2>1 DEF ValuesOf
  <2> QED
    BY <2>2, <2>3, <2>4
<1>5. ASSUME NoRepeat(q) PROVE NoRepeat(t) /\ q[1] \notin ValuesOf(t)
  <2>1. 1 \in 1 .. Len(q)
    BY <1>1
  <2>2. q[1] \notin ValuesOf(t)
    BY <1>3, <1>5, <2>1 DEF ValuesOf, NoRepeat
  <2>3. ASSUME NEW i \in 1 .. Len(t), NEW j \in 1 .. Len(t), t[i] = t[j] PROVE i = j
    <3>1. i + 1 = j + 1
      BY <1>3, <1>5, <2>3 DEF NoRepeat
    <3> QED BY <1>1, <3>1
  <2> QED
    BY <2>2, <2>3 DEF NoRepeat
<1> QED
  BY <1>4, <1>5 DEF t

LEMMA EmptyValues == ValuesOf(<<>>) = {} /\ NoRepeat(<<>>)
BY EmptyFacts DEF ValuesOf, NoRepeat

\* The lane holds each write that it has accepted and not yet executed in one
\* place, the one its state says: inside a callback, in the queue, or active.
Inside(p) == lane[p].inside
Active(p) == lane[p].active
Queued(p) == ValuesOf(lane[p].queue)

StatesFit ==
    \A p \in Providers : /\ Inside(p) # NoWrite => write[Inside(p)] = "testing"
                         /\ Active(p) # NoWrite => write[Active(p)] = "active"
                         /\ \A w \in Queued(p) : write[w] = "queued"
LanesApart ==
    \A p, q \in Providers :
        p # q => /\ Inside(p) # NoWrite => Inside(p) # Inside(q)
                 /\ Active(p) # NoWrite => Active(p) # Active(q)
                 /\ Queued(p) \cap Queued(q) = {}
QueuesDistinct == \A p \in Providers : NoRepeat(lane[p].queue)
NoneForgotten ==
    \A w \in Writes : /\ write[w] = "testing" => \E p \in Providers : Inside(p) = w
                      /\ write[w] = "active" => \E p \in Providers : Active(p) = w
                      /\ write[w] = "queued" => \E p \in Providers : w \in Queued(p)
Places == StatesFit /\ LanesApart /\ QueuesDistinct /\ NoneForgotten

\* The places of one process after a step, the others being as they were.
PlacesNow(p, inside, active, queued) ==
    /\ Inside(p)' = inside
    /\ Active(p)' = active
    /\ Queued(p)' = queued
    /\ (\A q \in Providers \ {p} :
          Inside(q)' = Inside(q) /\ Active(q)' = Active(q) /\ Queued(q)' = Queued(q))

LEMMA MovedPlaces ==
    ASSUME NEW p \in Providers, NEW gate, NEW closed, NEW inside, NEW queue, NEW running, NEW active,
           Moved(p, gate, closed, inside, queue, running, active), QueuesDistinct, NoRepeat(queue)
    PROVE  /\ PlacesNow(p, inside, active, ValuesOf(queue))
           /\ QueuesDistinct'
BY DEF Moved, PlacesNow, Inside, Active, Queued, QueuesDistinct

LEMMA PlacesTyped ==
    ASSUME LaneType
    PROVE  \A p \in Providers : /\ Inside(p) \in Writes \cup {NoWrite}
                                /\ Active(p) \in Writes \cup {NoWrite}
                                /\ Queued(p) \subseteq Writes
BY LaneFields, ElementOfSeq DEF Inside, Active, Queued, ValuesOf

\* Each way in which a write changes its place.
LEMMA PlacesEnter ==
    ASSUME LaneType, StatesFit, LanesApart, NoneForgotten, NEW p \in Providers,
           NEW w \in Writes, write[w] = "new", Inside(p) = NoWrite,
           PlacesNow(p, w, Active(p), Queued(p)), Wrote(w, "testing")
    PROVE  StatesFit' /\ LanesApart' /\ NoneForgotten'
<1> USE PlacesTyped, NullsAreApart DEF PlacesNow, Wrote
<1>1. StatesFit'
  BY DEF StatesFit, LanesApart
<1>2. LanesApart'
  BY DEF StatesFit, LanesApart
<1>3. NoneForgotten'
  BY DEF StatesFit, LanesApart, NoneForgotten
<1> QED
  BY <1>1, <1>2, <1>3

LEMMA PlacesRefused ==
    ASSUME LaneType, StatesFit, LanesApart, NoneForgotten, NEW p \in Providers,
           Inside(p) # NoWrite,
           PlacesNow(p, NoWrite, Active(p), Queued(p)), Wrote(Inside(p), "refused")
    PROVE  StatesFit' /\ LanesApart' /\ NoneForgotten'
<1> USE PlacesTyped, NullsAreApart DEF PlacesNow, Wrote
<1>1. StatesFit'
  BY DEF StatesFit, LanesApart
<1>2. LanesApart'
  BY DEF StatesFit, LanesApart
<1>3. NoneForgotten'
  BY DEF StatesFit, LanesApart, NoneForgotten
<1> QED
  BY <1>1, <1>2, <1>3

LEMMA PlacesQueued ==
    ASSUME LaneType, StatesFit, LanesApart, NoneForgotten, NEW p \in Providers,
           Inside(p) # NoWrite,
           PlacesNow(p, NoWrite, Active(p), Queued(p) \cup {Inside(p)}), Wrote(Inside(p), "queued")
    PROVE  StatesFit' /\ LanesApart' /\ NoneForgotten'
<1> USE PlacesTyped, NullsAreApart DEF PlacesNow, Wrote
<1>1. StatesFit'
  BY DEF StatesFit, LanesApart
<1>2. LanesApart'
  BY DEF StatesFit, LanesApart
<1>3. NoneForgotten'
  BY DEF StatesFit, LanesApart, NoneForgotten
<1> QED
  BY <1>1, <1>2, <1>3

LEMMA PlacesTaken ==
    ASSUME LaneType, StatesFit, LanesApart, NoneForgotten, NEW p \in Providers,
           NEW w \in Queued(p), NEW rest, w \notin rest, Queued(p) = rest \cup {w},
           Active(p) = NoWrite, PlacesNow(p, Inside(p), w, rest), Wrote(w, "active")
    PROVE  StatesFit' /\ LanesApart' /\ NoneForgotten'
<1> USE PlacesTyped, NullsAreApart DEF PlacesNow, Wrote
<1>1. StatesFit'
  BY DEF StatesFit, LanesApart
<1>2. LanesApart'
  BY DEF StatesFit, LanesApart
<1>3. NoneForgotten'
  BY DEF StatesFit, LanesApart, NoneForgotten
<1> QED
  BY <1>1, <1>2, <1>3

LEMMA PlacesFinished ==
    ASSUME LaneType, StatesFit, LanesApart, NoneForgotten, NEW p \in Providers,
           NEW o \in {"ok", "failed"}, Active(p) # NoWrite,
           PlacesNow(p, Inside(p), NoWrite, Queued(p)), Wrote(Active(p), o)
    PROVE  StatesFit' /\ LanesApart' /\ NoneForgotten'
<1> USE PlacesTyped, NullsAreApart DEF PlacesNow, Wrote
<1>1. StatesFit'
  BY DEF StatesFit, LanesApart
<1>2. LanesApart'
  BY DEF StatesFit, LanesApart
<1>3. NoneForgotten'
  BY DEF StatesFit, LanesApart, NoneForgotten
<1> QED
  BY <1>1, <1>2, <1>3

LEMMA PlacesLost ==
    ASSUME LaneType, StatesFit, LanesApart, NoneForgotten, NEW p \in Providers,
           PlacesNow(p, NoWrite, NoWrite, {}),
           \A w \in Writes : write'[w] = IF w \in {Inside(p), Active(p)} \cup Queued(p) THEN "lost" ELSE write[w]
    PROVE  StatesFit' /\ LanesApart' /\ NoneForgotten'
<1> USE PlacesTyped, NullsAreApart DEF PlacesNow, Wrote
<1>1. StatesFit'
  BY DEF StatesFit, LanesApart
<1>2. LanesApart'
  BY DEF StatesFit, LanesApart
<1>3. NoneForgotten'
  BY DEF StatesFit, LanesApart, NoneForgotten
<1> QED
  BY <1>1, <1>2, <1>3

\* A step that moves no write.
LEMMA PlacesSame ==
    ASSUME LaneType, Places, \A p \in Providers : /\ lane'[p].inside = lane[p].inside
                                        /\ lane'[p].active = lane[p].active
                                        /\ lane'[p].queue = lane[p].queue,
           \/ write' = write
           \/ \E v \in Writes : write[v] = "new" /\ Wrote(v, "refused")
    PROVE  Places'
<1>1. \A p \in Providers : Inside(p)' = Inside(p) /\ Active(p)' = Active(p) /\ Queued(p)' = Queued(p)
  BY DEF Inside, Active, Queued
<1>2. QueuesDistinct'
  BY DEF Places, QueuesDistinct
<1>3. LanesApart'
  BY <1>1 DEF Places, LanesApart
<1>4. CASE write' = write
  <2>1. StatesFit'
    BY <1>1, <1>4 DEF Places, StatesFit
  <2>2. NoneForgotten'
    BY <1>1, <1>4 DEF Places, NoneForgotten
  <2> QED
    BY <1>2, <1>3, <2>1, <2>2 DEF Places
<1>5. CASE \E v \in Writes : write[v] = "new" /\ Wrote(v, "refused")
  <2>1. \A w : write[w] \in {"testing", "active", "queued"} /\ w \in Writes => write'[w] = write[w]
    BY <1>5 DEF Wrote
  <2>2. \A w \in Writes : write'[w] \in {"testing", "active", "queued"} => write'[w] = write[w]
    BY <1>5 DEF Wrote
  <2>3. StatesFit'
    BY <1>1, <2>1, PlacesTyped DEF Places, StatesFit
  <2>4. NoneForgotten'
    BY <1>1, <2>2 DEF Places, NoneForgotten
  <2> QED
    BY <1>2, <1>3, <2>3, <2>4 DEF Places
<1> QED
  BY <1>4, <1>5

\* A call names a process as long as it runs; the thread executes the active write.
CallFits ==
    \A c \in Callers : call[c].pc \notin {"idle", "gaveup"} => call[c].provider \in Providers
ExecFits == \A p \in Providers : exec[p] = "none" <=> lane[p].active = NoWrite

LEMMA Views ==
    ASSUME NEW p \in Providers
    PROVE  /\ Inside(p) = lane[p].inside /\ Active(p) = lane[p].active
           /\ Queued(p) = ValuesOf(lane[p].queue)
           /\ QueuesDistinct => NoRepeat(lane[p].queue)
BY DEF Inside, Active, Queued, QueuesDistinct

LEMMA PlacesNext ==
    ASSUME LaneType, WriteType, CallType, CallFits, ExecFits, Places, LaneStep
    PROVE  Places'
<1> USE DEF Places
<1>1. CASE \E p \in Providers, w \in Writes : Enter(p, w)
  <2>1. PICK p \in Providers, w \in Writes : Enter(p, w)
    BY <1>1
  <2>2. CASE lane' = lane /\ Wrote(w, "refused")
    <3>1. write[w] = "new"
      BY <2>1, EnterEffect
    <3> QED
      BY <2>2, <3>1, PlacesSame
  <2>3. CASE ~(lane' = lane /\ Wrote(w, "refused"))
    <3>1. /\ write[w] = "new" /\ Inside(p) = NoWrite /\ Wrote(w, "testing")
          /\ Moved(p, lane[p].gate, lane[p].closed, w, lane[p].queue, lane[p].running, lane[p].active)
      BY <2>1, <2>3, EnterEffect DEF Inside
    <3>2. PlacesNow(p, w, Active(p), Queued(p)) /\ QueuesDistinct'
      BY <3>1, MovedPlaces, Views
    <3> QED
      BY <3>1, <3>2, PlacesEnter
  <2> QED
    BY <2>2, <2>3
<1>2. ASSUME NEW p \in Providers, Queue(p) PROVE Places'
  <2>1. /\ Inside(p) \in Writes /\ Wrote(Inside(p), "queued")
        /\ Moved(p, lane[p].gate, lane[p].closed, NoWrite, Append(lane[p].queue, Inside(p)),
                 TRUE, lane[p].active)
    BY <1>2, QueueEffect DEF Inside
  <2>2. Inside(p) # NoWrite /\ write[Inside(p)] = "testing"
    BY <2>1, NullsAreApart DEF StatesFit
  <2>3. Inside(p) \notin Queued(p)
    BY <2>2 DEF StatesFit
  <2>4. /\ ValuesOf(Append(lane[p].queue, Inside(p))) = Queued(p) \cup {Inside(p)}
        /\ NoRepeat(Append(lane[p].queue, Inside(p)))
    <3>1. lane[p].queue \in Seq(Writes) /\ NoRepeat(lane[p].queue) /\ Queued(p) = ValuesOf(lane[p].queue)
      BY LaneFields, Views
    <3> QED
      BY <2>1, <2>3, <3>1, AppendValues
  <2>5. PlacesNow(p, NoWrite, Active(p), Queued(p) \cup {Inside(p)}) /\ QueuesDistinct'
    <3> DEFINE a == Append(lane[p].queue, Inside(p))
    <3>1. Moved(p, lane[p].gate, lane[p].closed, NoWrite, a, TRUE, lane[p].active)
      BY <2>1
    <3>2. NoRepeat(a) /\ ValuesOf(a) = Queued(p) \cup {Inside(p)}
      BY <2>4
    <3> HIDE DEF a
    <3>3. PlacesNow(p, NoWrite, lane[p].active, ValuesOf(a)) /\ QueuesDistinct'
      BY <3>1, <3>2, MovedPlaces
    <3> QED
      BY <3>2, <3>3, Views
  <2> QED
    BY <2>1, <2>2, <2>5, PlacesQueued
<1>3. ASSUME NEW p \in Providers, QueueFails(p) PROVE Places'
  <2>1. /\ Inside(p) \in Writes /\ Wrote(Inside(p), "refused")
        /\ Moved(p, lane[p].gate, lane[p].closed, NoWrite, lane[p].queue, lane[p].running, lane[p].active)
    BY <1>3, QueueFailsEffect DEF Inside
  <2>2. PlacesNow(p, NoWrite, Active(p), Queued(p)) /\ QueuesDistinct'
    BY <2>1, MovedPlaces, Views
  <2> QED
    BY <2>1, <2>2, NullsAreApart, PlacesRefused
<1>4. ASSUME NEW p \in Providers, Take(p) PROVE Places'
  <2> DEFINE q == lane[p].queue
  <2>1. /\ Active(p) = NoWrite /\ Inside(p) = NoWrite /\ q # <<>> /\ Wrote(q[1], "active")
        /\ Moved(p, lane[p].gate, lane[p].closed, NoWrite, Tail(q), TRUE, q[1])
    BY <1>4, TakeEffect DEF Active, Inside
  <2>2. q \in Seq(Writes) /\ NoRepeat(q) /\ Queued(p) = ValuesOf(q)
    BY LaneFields DEF Queued, QueuesDistinct
  <2> HIDE DEF q
  <2>3. /\ Queued(p) = ValuesOf(Tail(q)) \cup {q[1]} /\ NoRepeat(Tail(q))
        /\ q[1] \notin ValuesOf(Tail(q))
    BY <2>1, <2>2, TailValues
  <2>4. PlacesNow(p, Inside(p), q[1], ValuesOf(Tail(q))) /\ QueuesDistinct'
    BY <2>1, <2>3, MovedPlaces
  <2> QED
    BY <2>1, <2>3, <2>4, PlacesTaken
<1>5. ASSUME NEW p \in Providers, exec[p] \in {"ok", "failed"}, Finish(p, exec[p]) PROVE Places'
  <2>1. Active(p) # NoWrite
    BY <1>5 DEF Active, ExecFits
  <2>2. /\ Wrote(Active(p), exec[p])
        /\ Moved(p, lane[p].gate, lane[p].closed, lane[p].inside, lane[p].queue, lane[p].running, NoWrite)
    BY <1>5, <2>1, FinishEffect DEF Active
  <2>3. PlacesNow(p, Inside(p), NoWrite, Queued(p)) /\ QueuesDistinct'
    BY <2>2, MovedPlaces, Views
  <2> QED
    BY <1>5, <2>1, <2>2, <2>3, PlacesFinished
<1>6. ASSUME NEW p \in Providers, LaneDies(p) PROVE Places'
  <2>1. Moved(p, FALSE, FALSE, NoWrite, <<>>, FALSE, NoWrite)
    BY <1>6, LaneDiesEffect
  <2>2. \A w \in Writes : write'[w] = IF w \in {Inside(p), Active(p)} \cup Queued(p) THEN "lost" ELSE write[w]
    <3>1. \A w : w \in Queued(p) <=> \E i \in 1 .. Len(lane[p].queue) : lane[p].queue[i] = w
      BY DEF Queued, ValuesOf
    <3>2. \A w \in Writes : w \in {Inside(p), Active(p)} \cup Queued(p)
                            <=> \/ w \in {lane[p].inside, lane[p].active}
                                \/ \E i \in 1 .. Len(lane[p].queue) : lane[p].queue[i] = w
      BY <3>1, Views
    <3>3. \A w \in Writes :
                 write'[w] = IF w \in {lane[p].inside, lane[p].active}
                                \/ \E i \in 1 .. Len(lane[p].queue) : lane[p].queue[i] = w
                             THEN "lost" ELSE write[w]
      BY <1>6, LaneDiesEffect
    <3> QED
      BY <3>2, <3>3, Zenon
  <2>3. PlacesNow(p, NoWrite, NoWrite, {}) /\ QueuesDistinct'
    BY <2>1, MovedPlaces, EmptyValues
  <2> QED
    BY <2>2, <2>3, PlacesLost
<1>7. ASSUME NEW p \in Providers, Stop(p) PROVE Places'
  BY <1>7, StopEffect, PlacesSame DEF Moved
<1>8. ASSUME NEW c \in Callers, NEW p \in Providers, ShutdownCall(c, p) PROVE Places'
  BY <1>8, ShutdownCallEffect, PlacesSame DEF Moved
<1>9. ASSUME NEW c \in Callers, ShutdownClose(c) PROVE Places'
  <2>1. call[c].provider \in Providers
    BY <1>9 DEF ShutdownClose, CallFits
  <2> QED
    BY <1>9, <2>1, ShutdownCloseEffect, PlacesSame DEF Moved
<1>10. CASE lane' = lane /\ write' = write
  BY <1>10, PlacesSame
<1> QED
  BY <1>1, <1>2, <1>3, <1>4, <1>5, <1>6, <1>7, <1>8, <1>9, <1>10, Zenon
     DEF LaneStep, CallStep, FlushCall, FlushCheck, FlushWake, FlushLast, FlushTimeout

-----------------------------------------------------------------------------
(* Waiters and shutdowns *)

\* A call that shuts down has closed its provider before it looks; a closed
\* provider has no callback inside; a waiter that has not been told has a
\* reason to wait.
ClosedFits ==
    \A c \in Callers : call[c].shutdown /\ call[c].pc \in {"check", "wait", "last", "drained"}
                       => lane[call[c].provider].closed
GateShut == \A p \in Providers : lane[p].closed => lane[p].inside = NoWrite
WaitersHaveReason ==
    \A c \in Callers : call[c].pc = "wait" /\ ~call[c].told => Pending(call[c].provider)
CallsFit == CallFits /\ ClosedFits /\ GateShut /\ WaitersHaveReason /\ DrainedIsFinal

LEMMA CallFields ==
    ASSUME CallType, NEW c \in Callers
    PROVE  /\ call[c] \in Call
           /\ call[c].pc \in {"idle", "close", "check", "wait", "last", "drained", "gaveup"}
           /\ call[c].provider \in Providers \cup {NoProvider}
           /\ call[c].shutdown \in BOOLEAN
           /\ call[c].told \in BOOLEAN
<1>1. call[c] \in Call
  BY DEF CallType
<1> QED
  BY <1>1 DEF Call

LEMMA PublishFacts ==
    ASSUME CallType, NEW p \in Providers, Publish(p)
    PROVE  /\ CallType'
           /\ \A c \in Callers :
                 /\ call'[c].pc = call[c].pc
                 /\ call'[c].provider = call[c].provider
                 /\ call'[c].shutdown = call[c].shutdown
                 /\ call'[c].pc = "wait" /\ ~call'[c].told => ~call[c].told /\ call[c].provider # p
<1>1. \A c \in Callers : call'[c] = IF call[c].provider = p /\ call[c].pc = "wait"
                                   THEN [call[c] EXCEPT !.told = TRUE] ELSE call[c]
  BY DEF Publish
<1>2. ASSUME NEW c \in Callers
      PROVE  /\ call'[c] \in Call
             /\ call'[c].pc = call[c].pc
             /\ call'[c].provider = call[c].provider
             /\ call'[c].shutdown = call[c].shutdown
             /\ call'[c].pc = "wait" /\ ~call'[c].told => ~call[c].told /\ call[c].provider # p
  <2>1. CASE call[c].provider = p /\ call[c].pc = "wait"
    <3>1. call'[c] = [call[c] EXCEPT !.told = TRUE]
      BY <1>1, <2>1
    <3> QED
      BY <2>1, <3>1, CallFields DEF Call
  <2>2. CASE ~(call[c].provider = p /\ call[c].pc = "wait")
    <3>1. call'[c] = call[c]
      BY <1>1, <2>2
    <3> QED
      BY <2>2, <3>1, CallFields
  <2> QED
    BY <2>1, <2>2
<1>3. CallType'
  BY <1>2 DEF Publish, CallType
<1> QED
  BY <1>2, <1>3

\* A step of a lane, after which the waiters on it are told.
LEMMA CallsPublish ==
    ASSUME CallType, CallsFit, NEW p \in Providers, Publish(p),
           NEW gate, NEW inside, NEW queue, NEW running, NEW active,
           Moved(p, gate, lane[p].closed, inside, queue, running, active),
           lane[p].closed => inside = NoWrite,
           lane[p].closed /\ lane[p].queue = <<>> /\ lane[p].active = NoWrite
             => queue = <<>> /\ active = NoWrite
    PROVE  CallType' /\ CallsFit'
<1> USE PublishFacts DEF CallsFit
<1>1. CallType' /\ CallFits'
  BY DEF CallFits
<1>2. \A q \in Providers : lane'[q].closed = lane[q].closed
  BY DEF Moved
<1>3. ClosedFits'
  BY <1>2 DEF ClosedFits, CallFits
<1>4. GateShut'
  BY DEF GateShut, Moved
<1>5. WaitersHaveReason'
  BY DEF WaitersHaveReason, CallFits, Moved, Pending
<1>6. DrainedIsFinal'
  BY DEF DrainedIsFinal, CallFits, ClosedFits, Moved
<1> QED
  BY <1>1, <1>3, <1>4, <1>5, <1>6

\* A step that changes one call and no lane.
LEMMA CallsOfOne ==
    ASSUME CallType, CallsFit, lane' = lane, NEW c \in Callers, NEW d \in Call,
           call' = [call EXCEPT ![c] = d],
           d.pc \notin {"idle", "gaveup"} => d.provider \in Providers,
           d.shutdown /\ d.pc \in {"check", "wait", "last", "drained"} => lane[d.provider].closed,
           d.pc = "wait" /\ ~d.told => Pending(d.provider),
           d.pc = "drained" => ~Pending(d.provider)
    PROVE  CallType' /\ CallsFit'
<1>0. CallType' /\ call'[c] = d /\ \A e \in Callers \ {c} : call'[e] = call[e]
  BY DEF CallType
<1> USE <1>0 DEF CallsFit
<1>1. CallFits'
  BY DEF CallFits
<1>3. ClosedFits'
  BY DEF ClosedFits
<1>4. GateShut'
  BY DEF GateShut
<1>5. WaitersHaveReason'
  BY DEF WaitersHaveReason, Pending
<1>6. DrainedIsFinal'
  BY DEF DrainedIsFinal, Pending
<1> QED
  BY <1>1, <1>3, <1>4, <1>5, <1>6

LEMMA CallsEntered ==
    ASSUME CallType, CallsFit, call' = call, NEW p \in Providers, NEW w, ~lane[p].closed,
           Moved(p, lane[p].gate, lane[p].closed, w, lane[p].queue, lane[p].running, lane[p].active)
    PROVE  CallType' /\ CallsFit'
<1> USE DEF CallsFit
<1>1. CallType' /\ CallFits'
  BY DEF CallType, CallFits
<1>3. ClosedFits'
  BY DEF ClosedFits, CallFits, Moved
<1>4. GateShut'
  BY DEF GateShut, Moved
<1>5. WaitersHaveReason'
  BY DEF WaitersHaveReason, CallFits, Moved, Pending
<1>6. DrainedIsFinal'
  BY DEF DrainedIsFinal, CallFits, Moved
<1> QED
  BY <1>1, <1>3, <1>4, <1>5, <1>6

LEMMA CallsShutdown ==
    ASSUME LaneType, CallType, CallsFit, NEW c \in Callers, NEW p \in Providers, ShutdownCall(c, p)
    PROVE  CallType' /\ CallsFit'
<1>0. /\ Moved(p, TRUE, lane[p].closed, lane[p].inside, lane[p].queue, lane[p].running, lane[p].active)
      /\ CallType' /\ call'[c].pc = "close" /\ call'[c].provider = p
      /\ \A d \in Callers \ {c} : call'[d] = call[d]
  BY ShutdownCallEffect DEF CallType
<1> USE <1>0 DEF CallsFit
<1>1. CallFits'
  BY DEF CallFits
<1>3. ClosedFits'
  BY DEF ClosedFits, CallFits, Moved
<1>4. GateShut'
  BY DEF GateShut, Moved
<1>5. WaitersHaveReason'
  BY DEF WaitersHaveReason, CallFits, Moved, Pending
<1>6. DrainedIsFinal'
  BY DEF DrainedIsFinal, CallFits, Moved
<1> QED
  BY <1>1, <1>3, <1>4, <1>5, <1>6

LEMMA CallsClosed ==
    ASSUME LaneType, CallType, CallsFit, NEW c \in Callers, ShutdownClose(c)
    PROVE  CallType' /\ CallsFit'
<1> DEFINE p == call[c].provider
<1>1. p \in Providers
  BY DEF ShutdownClose, CallsFit, CallFits
<1>2. /\ lane[p].inside = NoWrite
      /\ Moved(p, lane[p].gate, TRUE, lane[p].inside, lane[p].queue, lane[p].running, lane[p].active)
      /\ CallType'
      /\ call'[c] = [call[c] EXCEPT !.pc = "check"]
      /\ \A d \in Callers \ {c} :
            call'[d] = IF call[d].provider = p /\ call[d].pc = "wait"
                       THEN [call[d] EXCEPT !.told = TRUE] ELSE call[d]
  BY <1>1, ShutdownCloseEffect DEF CallType
<1>3. call'[c].pc = "check" /\ call'[c].provider = p
  BY <1>2, CallFields DEF Call
<1>4. ASSUME NEW d \in Callers \ {c}
      PROVE  /\ call'[d].pc = call[d].pc
             /\ call'[d].provider = call[d].provider
             /\ call'[d].shutdown = call[d].shutdown
             /\ call'[d].pc = "wait" /\ ~call'[d].told => ~call[d].told
  BY <1>2, CallFields DEF Call
<1> HIDE DEF p
<1>5. \A q \in Providers : /\ lane'[q].queue = lane[q].queue /\ lane'[q].active = lane[q].active
                           /\ lane'[q].inside = lane[q].inside
                           /\ lane[q].closed => lane'[q].closed
                           /\ q # p => lane'[q].closed = lane[q].closed
  BY <1>1, <1>2 DEF Moved
<1>6. lane'[p].closed
  BY <1>1, <1>2 DEF Moved
<1>7. CallFits'
  BY <1>1, <1>3, <1>4 DEF CallsFit, CallFits
<1>8. ClosedFits'
  BY <1>1, <1>3, <1>4, <1>5, <1>6 DEF CallsFit, ClosedFits, CallFits
<1>9. GateShut'
  BY <1>2, <1>5 DEF CallsFit, GateShut
<1>10. WaitersHaveReason'
  <2> SUFFICES ASSUME NEW d \in Callers, call'[d].pc = "wait", ~call'[d].told
               PROVE  Pending(call[d].provider) /\ call[d].provider \in Providers
                      /\ call'[d].provider = call[d].provider
    BY <1>5 DEF WaitersHaveReason, Pending
  <2> QED
    BY <1>3, <1>4 DEF CallsFit, WaitersHaveReason, CallFits
<1>11. DrainedIsFinal'
  <2> SUFFICES ASSUME NEW d \in Callers, call'[d].pc = "drained", call'[d].shutdown
               PROVE  lane'[call'[d].provider].queue = <<>> /\ lane'[call'[d].provider].active = NoWrite
    BY DEF DrainedIsFinal
  <2>1. d \in Callers \ {c}
    BY <1>3
  <2>2. /\ call[d].provider \in Providers /\ call'[d].provider = call[d].provider
        /\ call[d].pc = "drained" /\ call[d].shutdown
    BY <1>4, <2>1 DEF CallsFit, CallFits
  <2> QED
    BY <1>5, <2>2 DEF CallsFit, DrainedIsFinal
<1> QED
  BY <1>2, <1>7, <1>8, <1>9, <1>10, <1>11 DEF CallsFit

LEMMA CallsDied ==
    ASSUME LaneType, WriteType, CallType, CallsFit, NEW p \in Providers, LaneDies(p)
    PROVE  CallType' /\ CallsFit'
<1>1. Moved(p, FALSE, FALSE, NoWrite, <<>>, FALSE, NoWrite)
  BY LaneDiesEffect
<1>2. IdleCall \in Call /\ IdleCall.pc = "idle"
  BY DEF IdleCall, Call
<1>3. /\ CallType'
      /\ \A c \in Callers : call'[c] = IF call[c].provider = p THEN IdleCall ELSE call[c]
  BY <1>2 DEF LaneDies, CallType
<1>4. \A c \in Callers : call'[c].pc = "idle" \/ (call'[c] = call[c] /\ call[c].provider # p)
  BY <1>2, <1>3
<1> USE <1>1, <1>3, <1>4 DEF CallsFit
<1>5. CallFits'
  BY DEF CallFits
<1>6. ClosedFits'
  BY DEF ClosedFits, CallFits, Moved
<1>7. GateShut'
  BY DEF GateShut, Moved
<1>8. WaitersHaveReason'
  BY DEF WaitersHaveReason, CallFits, Moved, Pending
<1>9. DrainedIsFinal'
  BY DEF DrainedIsFinal, CallFits, Moved
<1> QED
  BY <1>5, <1>6, <1>7, <1>8, <1>9

LEMMA CallsNext ==
    ASSUME LaneType, WriteType, CallType, ExecFits, CallsFit, LaneStep
    PROVE  CallType' /\ CallsFit'
<1>1. ASSUME NEW p \in Providers, NEW w \in Writes, Enter(p, w) PROVE CallType' /\ CallsFit'
  <2>1. CASE lane' = lane
    BY <1>1, <2>1, EnterEffect DEF CallType, CallsFit, CallFits, ClosedFits, GateShut,
                                  WaitersHaveReason, DrainedIsFinal, Pending
  <2>2. CASE lane' # lane
    BY <1>1, <2>2, EnterEffect, CallsEntered
  <2> QED
    BY <2>1, <2>2
<1>2. ASSUME NEW p \in Providers, Queue(p) PROVE CallType' /\ CallsFit'
  BY <1>2, QueueEffect, CallsPublish, NullsAreApart DEF CallsFit, GateShut
<1>3. ASSUME NEW p \in Providers, QueueFails(p) PROVE CallType' /\ CallsFit'
  BY <1>3, QueueFailsEffect, CallsPublish
<1>4. ASSUME NEW p \in Providers, Take(p) PROVE CallType' /\ CallsFit'
  BY <1>4, TakeEffect, CallsPublish
<1>5. ASSUME NEW p \in Providers, exec[p] \in {"ok", "failed"}, Finish(p, exec[p])
      PROVE  CallType' /\ CallsFit'
  <2>1. lane[p].active # NoWrite
    BY <1>5 DEF ExecFits
  <2> QED
    BY <1>5, <2>1, FinishEffect, CallsPublish
<1>6. ASSUME NEW p \in Providers, Stop(p) PROVE CallType' /\ CallsFit'
  <2>1. /\ Publish(p)
        /\ Moved(p, lane[p].gate, lane[p].closed, lane[p].inside, lane[p].queue, FALSE, lane[p].active)
    BY <1>6, StopEffect
  <2>2. lane[p].closed => lane[p].inside = NoWrite
    BY DEF CallsFit, GateShut
  <2> QED
    BY <2>1, <2>2, CallsPublish
<1>7. ASSUME NEW c \in Callers, NEW p \in Providers, FlushCall(c, p) PROVE CallType' /\ CallsFit'
  <2> DEFINE d == [IdleCall EXCEPT !.pc = "check", !.provider = p]
  <2>1. d \in Call /\ d.pc = "check" /\ d.provider = p /\ d.shutdown = FALSE
    BY DEF IdleCall, Call
  <2>2. lane' = lane /\ call' = [call EXCEPT ![c] = d]
    BY <1>7 DEF FlushCall
  <2> HIDE DEF d
  <2> QED
    BY <2>1, <2>2, CallsOfOne
<1>8. ASSUME NEW c \in Callers, FlushTimeout(c) PROVE CallType' /\ CallsFit'
  <2>1. GaveUp \in Call /\ GaveUp.pc = "gaveup" /\ GaveUp.shutdown = FALSE
    BY DEF GaveUp, IdleCall, Call
  <2> QED
    BY <1>8, <2>1, CallsOfOne DEF FlushTimeout
<1>9. ASSUME NEW c \in Callers, FlushCheck(c) PROVE CallType' /\ CallsFit'
  <2> DEFINE pc == IF Pending(call[c].provider) THEN "wait" ELSE "last"
             d == [call[c] EXCEPT !.pc = pc, !.told = FALSE]
  <2>1. /\ d \in Call /\ d.pc = pc /\ d.provider = call[c].provider
        /\ d.shutdown = call[c].shutdown /\ pc \in {"wait", "last"}
    BY CallFields DEF Call
  <2>2. lane' = lane /\ call' = [call EXCEPT ![c] = d]
    BY <1>9 DEF FlushCheck, CallType
  <2>3. pc = "wait" => Pending(call[c].provider)
    OBVIOUS
  <2>4. /\ call[c].provider \in Providers
        /\ call[c].shutdown => lane[call[c].provider].closed
    BY <1>9 DEF FlushCheck, CallsFit, CallFits, ClosedFits
  <2> HIDE DEF d, pc
  <2> QED
    BY <2>1, <2>2, <2>3, <2>4, CallsOfOne
<1>10. ASSUME NEW c \in Callers, FlushWake(c) PROVE CallType' /\ CallsFit'
  <2> DEFINE d == [call[c] EXCEPT !.pc = "check"]
  <2>1. d \in Call /\ d.pc = "check" /\ d.provider = call[c].provider /\ d.shutdown = call[c].shutdown
    BY CallFields DEF Call
  <2>2. lane' = lane /\ call' = [call EXCEPT ![c] = d]
    BY <1>10 DEF FlushWake, CallType
  <2>4. /\ call[c].provider \in Providers
        /\ call[c].shutdown => lane[call[c].provider].closed
    BY <1>10 DEF FlushWake, CallsFit, CallFits, ClosedFits
  <2> HIDE DEF d
  <2> QED
    BY <2>1, <2>2, <2>4, CallsOfOne
<1>11. ASSUME NEW c \in Callers, FlushLast(c) PROVE CallType' /\ CallsFit'
  <2>4. /\ call[c].provider \in Providers
        /\ call[c].shutdown => lane[call[c].provider].closed
    BY <1>11 DEF FlushLast, CallsFit, CallFits, ClosedFits
  <2>5. CASE Pending(call[c].provider)
    <3>1. GaveUp \in Call /\ GaveUp.pc = "gaveup" /\ GaveUp.shutdown = FALSE
      BY DEF GaveUp, IdleCall, Call
    <3> QED
      BY <1>11, <2>5, <3>1, CallsOfOne DEF FlushLast
  <2>6. CASE ~Pending(call[c].provider)
    <3> DEFINE d == [call[c] EXCEPT !.pc = "drained"]
    <3>1. d \in Call /\ d.pc = "drained" /\ d.provider = call[c].provider /\ d.shutdown = call[c].shutdown
      BY CallFields DEF Call
    <3>2. lane' = lane /\ call' = [call EXCEPT ![c] = d]
      BY <1>11, <2>6 DEF FlushLast, CallType
    <3> HIDE DEF d
    <3> QED
      BY <2>4, <2>6, <3>1, <3>2, CallsOfOne
  <2> QED
    BY <2>5, <2>6
<1>12. CASE lane' = lane /\ call' = call
  BY <1>12 DEF CallType, CallsFit, CallFits, ClosedFits, GateShut, WaitersHaveReason, DrainedIsFinal, Pending
<1> QED
  BY <1>1, <1>2, <1>3, <1>4, <1>5, <1>6, <1>7, <1>8, <1>9, <1>10, <1>11, <1>12,
     CallsShutdown, CallsClosed, CallsDied, Zenon
     DEF LaneStep, CallStep

-----------------------------------------------------------------------------
(* The drain thread *)

\* What is pending has a thread that runs: no write is left to one that has stopped.
PendingIsServed == \A p \in Providers : Pending(p) => lane[p].running

LEMMA ServedBy ==
    ASSUME PendingIsServed, NEW p \in Providers,
           NEW gate, NEW closed, NEW inside, NEW queue, NEW running, NEW active,
           Moved(p, gate, closed, inside, queue, running, active),
           queue # <<>> \/ active # NoWrite => running
    PROVE  LaneType' /\ PendingIsServed'
BY DEF PendingIsServed, Moved, Pending, LaneType

LEMMA LaneNext ==
    ASSUME LaneType, WriteType, CallType, CallFits, ExecFits, PendingIsServed, LaneStep
    PROVE  LaneType' /\ WriteType' /\ PendingIsServed'
<1> DEFINE Goal == LaneType' /\ WriteType' /\ PendingIsServed'
<1>0. \A p \in Providers : lane[p].queue # <<>> \/ lane[p].active # NoWrite => lane[p].running
  BY DEF PendingIsServed, Pending
<1>1. ASSUME NEW p \in Providers, NEW w \in Writes, Enter(p, w) PROVE Goal
  <2>1. WriteType'
    BY <1>1, EnterEffect DEF Wrote, WriteType
  <2>2. CASE lane' = lane
    BY <2>1, <2>2 DEF LaneType, PendingIsServed, Pending
  <2>3. CASE lane' # lane
    <3>1. Moved(p, lane[p].gate, lane[p].closed, w, lane[p].queue, lane[p].running, lane[p].active)
      BY <1>1, <2>3, EnterEffect
    <3> QED
      BY <1>0, <2>1, <3>1, ServedBy
  <2> QED
    BY <2>2, <2>3
<1>2. ASSUME NEW p \in Providers, Queue(p) PROVE Goal
  <2>1. /\ Moved(p, lane[p].gate, lane[p].closed, NoWrite, Append(lane[p].queue, lane[p].inside),
                TRUE, lane[p].active)
        /\ WriteType'
    BY <1>2, QueueEffect DEF Wrote, WriteType
  <2> QED
    BY <2>1, ServedBy
<1>3. ASSUME NEW p \in Providers, QueueFails(p) PROVE Goal
  <2>1. /\ Moved(p, lane[p].gate, lane[p].closed, NoWrite, lane[p].queue, lane[p].running, lane[p].active)
        /\ WriteType'
    BY <1>3, QueueFailsEffect DEF Wrote, WriteType
  <2> QED
    BY <1>0, <2>1, ServedBy
<1>4. ASSUME NEW p \in Providers, Take(p) PROVE Goal
  <2>1. /\ Moved(p, lane[p].gate, lane[p].closed, NoWrite, Tail(lane[p].queue), TRUE, lane[p].queue[1])
        /\ WriteType'
    BY <1>4, TakeEffect DEF Wrote, WriteType
  <2> QED
    BY <2>1, ServedBy
<1>5. ASSUME NEW p \in Providers, exec[p] \in {"ok", "failed"}, Finish(p, exec[p]) PROVE Goal
  <2>0. lane[p].active # NoWrite
    BY <1>5 DEF ExecFits
  <2>1. /\ Moved(p, lane[p].gate, lane[p].closed, lane[p].inside, lane[p].queue, lane[p].running, NoWrite)
        /\ WriteType'
    BY <1>5, <2>0, FinishEffect DEF Wrote, WriteType
  <2> QED
    BY <1>0, <2>1, ServedBy
<1>6. ASSUME NEW p \in Providers, LaneDies(p) PROVE Goal
  <2>1. Moved(p, FALSE, FALSE, NoWrite, <<>>, FALSE, NoWrite) /\ WriteType'
    BY <1>6, LaneDiesEffect DEF WriteType
  <2> QED
    BY <2>1, ServedBy
<1>7. ASSUME NEW p \in Providers, Stop(p) PROVE Goal
  <2>1. /\ Moved(p, lane[p].gate, lane[p].closed, lane[p].inside, lane[p].queue, FALSE, lane[p].active)
        /\ lane[p].active = NoWrite /\ lane[p].queue = <<>> /\ WriteType'
    BY <1>7, StopEffect DEF WriteType
  <2> QED
    BY <2>1, ServedBy
<1>8. ASSUME NEW c \in Callers, NEW p \in Providers, ShutdownCall(c, p) PROVE Goal
  <2>1. /\ Moved(p, TRUE, lane[p].closed, lane[p].inside, lane[p].queue, lane[p].running, lane[p].active)
        /\ WriteType'
    BY <1>8, ShutdownCallEffect DEF WriteType
  <2> QED
    BY <1>0, <2>1, ServedBy
<1>9. ASSUME NEW c \in Callers, ShutdownClose(c) PROVE Goal
  <2> DEFINE p == call[c].provider
  <2>1. p \in Providers
    BY <1>9 DEF ShutdownClose, CallFits
  <2>2. /\ Moved(p, lane[p].gate, TRUE, lane[p].inside, lane[p].queue, lane[p].running, lane[p].active)
        /\ WriteType'
    BY <1>9, <2>1, ShutdownCloseEffect DEF WriteType
  <2> HIDE DEF p
  <2> QED
    BY <1>0, <2>1, <2>2, ServedBy
<1>10. CASE lane' = lane /\ write' = write
  BY <1>10 DEF LaneType, WriteType, PendingIsServed, Pending
<1> QED
  BY <1>1, <1>2, <1>3, <1>4, <1>5, <1>6, <1>7, <1>8, <1>9, <1>10, Zenon
     DEF LaneStep, CallStep, FlushCall, FlushCheck, FlushWake, FlushLast, FlushTimeout

ExecType == exec \in [Providers -> {"none", "look", "admit", "ok", "failed"}]
ChargedType == charged \in [Providers -> [Sessions -> 0 .. MaxSession]]

\* What Next can do to the drain threads.
ExecStep ==
    \/ \E p \in Providers : Begin(p) \/ LookUp(p) \/ Admit(p) \/ ExecFails(p) \/ End(p) \/ ProcessDies(p)
    \/ /\ UNCHANGED <<exec, charged>>
       /\ \/ \E p \in Providers : \/ \E w \in Writes : Enter(p, w)
                                  \/ Queue(p) \/ QueueFails(p) \/ Stop(p)
          \/ \E c \in Callers : (\E p \in Providers : ShutdownCall(c, p)) \/ ShutdownClose(c)
          \/ lane' = lane

LEMMA NextIsExecStep ==
    ASSUME [Next]_vars
    PROVE  ExecStep
<1>1. CASE \E p \in Providers : Callback(p) \/ LaneOnly(Queue(p)) \/ Drain(p) \/ ExecFails(p) \/ ProcessDies(p)
  BY <1>1, Zenon DEF ExecStep, Callback, LaneOnly, Drain, storeVars
<1>2. CASE \E c \in Callers : Calls(c) \/ LaneOnly(CallStep(c))
  BY <1>2, Zenon DEF ExecStep, Calls, LaneOnly, CallStep, storeVars, FlushCall, FlushCheck, FlushWake,
                     FlushLast, FlushTimeout
<1>3. CASE \E r \in Workers : Recover(r) \/ Deliver(r) \/ WorkerFails(r)
  BY <1>3, Zenon DEF ExecStep, Recover, Deliver, ReadRows, Post, Receipt, ReceiptRefused, Mark, WorkerFails, WorkerOnly
<1>4. CASE \E k \in Keys : Delete(k)
  BY <1>4, Zenon DEF ExecStep, Delete, WorkerOnly
<1>5. CASE UNCHANGED vars
  BY <1>5, Zenon DEF ExecStep, vars
<1> QED
  BY <1>1, <1>2, <1>3, <1>4, <1>5, Zenon DEF Next

\* A step of one thread, with the active write of its lane.
LEMMA ThreadMoves ==
    ASSUME ExecType, ExecFits, NEW p \in Providers, NEW e \in {"none", "look", "admit", "ok", "failed"},
           exec' = [exec EXCEPT ![p] = e], \A q \in Providers \ {p} : lane'[q].active = lane[q].active,
           e = "none" <=> lane'[p].active = NoWrite
    PROVE  ExecType' /\ ExecFits'
BY DEF ExecType, ExecFits

LEMMA ExecNext ==
    ASSUME LaneType, WriteType, CallType, CallFits, ExecType, ExecFits, ExecStep
    PROVE  ExecType' /\ ExecFits'
<1>1. ASSUME NEW p \in Providers, Begin(p) PROVE ExecType' /\ ExecFits'
  <2>1. /\ Moved(p, lane[p].gate, lane[p].closed, NoWrite, Tail(lane[p].queue), TRUE, lane[p].queue[1])
        /\ lane[p].queue[1] \in Writes
    BY <1>1, TakeEffect DEF Begin
  <2>2. exec' = [exec EXCEPT ![p] = "look"]
    BY <1>1 DEF Begin
  <2> QED
    BY <2>1, <2>2, ThreadMoves, NullsAreApart DEF Moved
<1>2. ASSUME NEW p \in Providers, LookUp(p) PROVE ExecType' /\ ExecFits'
  <2>1. exec[p] # "none" /\ lane' = lane
        /\ (exec' = [exec EXCEPT ![p] = "admit"] \/ exec' = [exec EXCEPT ![p] = "failed"])
    BY <1>2 DEF LookUp
  <2> QED
    BY <2>1, ThreadMoves DEF ExecFits
<1>3. ASSUME NEW p \in Providers, Admit(p) PROVE ExecType' /\ ExecFits'
  <2>1. exec[p] # "none" /\ lane' = lane
        /\ (exec' = [exec EXCEPT ![p] = "ok"] \/ exec' = [exec EXCEPT ![p] = "failed"])
    BY <1>3 DEF Admit
  <2> QED
    BY <2>1, ThreadMoves DEF ExecFits
<1>4. ASSUME NEW p \in Providers, ExecFails(p) PROVE ExecType' /\ ExecFits'
  <2>1. exec[p] # "none" /\ lane' = lane /\ exec' = [exec EXCEPT ![p] = "failed"]
    BY <1>4 DEF ExecFails
  <2> QED
    BY <2>1, ThreadMoves DEF ExecFits
<1>5. ASSUME NEW p \in Providers, End(p) PROVE ExecType' /\ ExecFits'
  <2>0. exec[p] \in {"ok", "failed"} /\ Finish(p, exec[p]) /\ exec' = [exec EXCEPT ![p] = "none"]
    BY <1>5 DEF End
  <2>1. lane[p].active # NoWrite
    BY <2>0 DEF ExecFits
  <2>2. Moved(p, lane[p].gate, lane[p].closed, lane[p].inside, lane[p].queue, lane[p].running, NoWrite)
    BY <2>0, <2>1, FinishEffect
  <2> QED
    BY <2>0, <2>2, ThreadMoves DEF Moved
<1>6. ASSUME NEW p \in Providers, ProcessDies(p) PROVE ExecType' /\ ExecFits'
  <2>1. Moved(p, FALSE, FALSE, NoWrite, <<>>, FALSE, NoWrite) /\ exec' = [exec EXCEPT ![p] = "none"]
    BY <1>6, LaneDiesEffect DEF ProcessDies
  <2> QED
    BY <2>1, ThreadMoves DEF Moved
<1>7. ASSUME exec' = exec, \A p \in Providers : lane'[p].active = lane[p].active
      PROVE  ExecType' /\ ExecFits'
  BY <1>7 DEF ExecType, ExecFits
<1>8. ASSUME NEW p \in Providers, NEW w \in Writes, Enter(p, w)
      PROVE  \A q \in Providers : lane'[q].active = lane[q].active
  BY <1>8, EnterEffect DEF Moved
<1>9. ASSUME NEW p \in Providers, Queue(p) \/ QueueFails(p) \/ Stop(p)
      PROVE  \A q \in Providers : lane'[q].active = lane[q].active
  <2>1. CASE Queue(p)
    BY <2>1, QueueEffect DEF Moved
  <2>2. CASE QueueFails(p)
    BY <2>2, QueueFailsEffect DEF Moved
  <2>3. CASE Stop(p)
    BY <2>3, StopEffect DEF Moved
  <2> QED
    BY <1>9, <2>1, <2>2, <2>3
<1>10. ASSUME NEW c \in Callers, NEW p \in Providers, ShutdownCall(c, p)
       PROVE  \A q \in Providers : lane'[q].active = lane[q].active
  BY <1>10, ShutdownCallEffect DEF Moved
<1>11. ASSUME NEW c \in Callers, ShutdownClose(c)
       PROVE  \A q \in Providers : lane'[q].active = lane[q].active
  <2>1. call[c].provider \in Providers
    BY <1>11 DEF ShutdownClose, CallFits
  <2> QED
    BY <1>11, <2>1, ShutdownCloseEffect DEF Moved
<1>12. CASE UNCHANGED <<exec, charged>> /\ ~\E p \in Providers : Begin(p) \/ LookUp(p) \/ Admit(p)
                                              \/ ExecFails(p) \/ End(p) \/ ProcessDies(p)
  <2>1. exec' = exec
    BY <1>12
  <2>2. \A p \in Providers : lane'[p].active = lane[p].active
    BY <1>8, <1>9, <1>10, <1>11, <1>12, Zenon DEF ExecStep
  <2> QED
    BY <1>7, <2>1, <2>2
<1> QED
  BY <1>1, <1>2, <1>3, <1>4, <1>5, <1>6, <1>12, Zenon DEF ExecStep

LEMMA ChargedNext ==
    ASSUME LaneType, ExecFits, ChargedType, ExecStep
    PROVE  ChargedType'
<1>1. ASSUME NEW p \in Providers, LookUp(p), charged' # charged PROVE ChargedType'
  <2> DEFINE s == SessionOf[lane[p].active]
             old == charged[p]
             new == [old EXCEPT ![s] = @ + 1]
  <2>1. /\ MayCharge(p, s) /\ exec[p] # "none"
        /\ charged' = [charged EXCEPT ![p][s] = @ + 1]
    BY <1>1 DEF LookUp
  <2>2. lane[p].active \in Writes
    BY <2>1, LaneFields DEF ExecFits
  <2>3. s \in Sessions
    BY <2>2, WritesHaveKeys
  <2>4. charged' = [charged EXCEPT ![p] = new]
    BY <2>1
  <2> HIDE DEF s
  <2>5. old \in [Sessions -> 0 .. MaxSession] /\ old[s] < MaxSession
    BY <2>1 DEF ChargedType, MayCharge
  <2> HIDE DEF old
  <2>6. new \in [Sessions -> 0 .. MaxSession]
    BY <2>3, <2>5, OutboxBounds
  <2> HIDE DEF new
  <2> QED
    BY <2>4, <2>6 DEF ChargedType
<1>2. ASSUME NEW p \in Providers, ProcessDies(p) PROVE ChargedType'
  <2>1. [s \in Sessions |-> 0] \in [Sessions -> 0 .. MaxSession]
    BY OutboxBounds
  <2> QED
    BY <1>2, <2>1 DEF ProcessDies, ChargedType
<1>3. CASE charged' = charged
  BY <1>3 DEF ChargedType
<1> QED
  BY <1>1, <1>2, <1>3, Zenon DEF ExecStep, Begin, Admit, ExecFails, End

-----------------------------------------------------------------------------
(* The records and the recovery commands *)

RowsType == rows \in Seq(Record) /\ Len(rows) <= MaxRows
WorkerType == worker \in [Workers -> Worker]
ServerType == server \in [Keys -> ServerStates]

\* A batch in progress: what is left of it is pending, and nothing pending
\* stands before a row of it that is not in it.
OneAtWork == \A q, r \in Workers : worker[q].pc # "idle" /\ worker[r].pc # "idle" => q = r
BatchesFit ==
    \A r \in Workers :
        LET todo == worker[r].todo
        IN  /\ worker[r].pc \in {"post", "receipt", "mark"} <=> todo # {}
            /\ todo \subseteq PendingRows
            /\ \A k \in todo : \A i \in PendingRows : i <= k => i \in todo
            /\ Cardinality(todo) <= MaxBatch
\* What is delivered, and what is about to be marked so, the server has seen.
SeenByServer ==
    /\ \A i \in 1 .. Len(rows) : rows[i].delivered => server[rows[i].key] # "none"
    /\ \A r \in Workers : worker[r].pc \in {"receipt", "mark"} => server[RowAt(r).key] # "none"
StoreFits == OneAtWork /\ BatchesFit /\ DeliveredInOrder /\ SeenByServer

\* What Next can do to the store, the commands and the server.
StoreStep ==
    \/ (\E p \in Providers : Admit(p)) /\ UNCHANGED <<worker, server>>
    \/ \E r \in Workers : Recover(r) \/ Deliver(r) \/ WorkerFails(r)
    \/ \E k \in Keys : Delete(k)
    \/ UNCHANGED <<rows, worker, server>>

LEMMA NextIsStoreStep ==
    ASSUME [Next]_vars
    PROVE  StoreStep
<1>1. CASE \E p \in Providers : Callback(p) \/ LaneOnly(Queue(p)) \/ Drain(p) \/ ExecFails(p) \/ ProcessDies(p)
  BY <1>1, Zenon DEF StoreStep, Callback, LaneOnly, Drain, storeVars, Begin, LookUp, Admit, End, ExecFails, ProcessDies
<1>2. CASE \E c \in Callers : Calls(c) \/ LaneOnly(CallStep(c))
  BY <1>2, Zenon DEF StoreStep, Calls, LaneOnly, storeVars
<1>3. CASE \E r \in Workers : Recover(r) \/ Deliver(r) \/ WorkerFails(r)
  BY <1>3, Zenon DEF StoreStep
<1>4. CASE \E k \in Keys : Delete(k)
  BY <1>4, Zenon DEF StoreStep
<1>5. CASE UNCHANGED vars
  BY <1>5, Zenon DEF StoreStep, vars
<1> QED
  BY <1>1, <1>2, <1>3, <1>4, <1>5, Zenon DEF Next

LEMMA RowFields ==
    ASSUME RowsType
    PROVE  /\ Len(rows) \in Nat
           /\ \A i \in 1 .. Len(rows) :
                 /\ rows[i] \in Record /\ rows[i].key \in Keys
                 /\ rows[i].delivered \in BOOLEAN
<1>1. Len(rows) \in Nat /\ \A i \in 1 .. Len(rows) : rows[i] \in Record
  BY LenProperties, ElementOfSeq DEF RowsType
<1> QED
  BY <1>1 DEF Record

LEMMA WorkerFields ==
    ASSUME WorkerType, NEW r \in Workers
    PROVE  /\ worker[r] \in Worker
           /\ worker[r].pc \in {"idle", "read", "post", "receipt", "mark"}
           /\ worker[r].todo \subseteq 1 .. MaxRows
           /\ IsFiniteSet(worker[r].todo)
<1>1. worker[r] \in Worker
  BY DEF WorkerType
<1>2. worker[r].pc \in {"idle", "read", "post", "receipt", "mark"} /\ worker[r].todo \subseteq 1 .. MaxRows
  BY <1>1 DEF Worker
<1>3. IsFiniteSet(1 .. MaxRows)
  BY OutboxBounds, FS_Interval
<1> QED
  BY <1>1, <1>2, <1>3, FS_Subset

LEMMA IdleFacts ==
    /\ IdleWorker \in Worker /\ IdleWorker.pc = "idle" /\ IdleWorker.todo = {}
    /\ Cardinality({}) = 0 /\ 0 <= MaxBatch
BY FS_EmptySet, OutboxBounds DEF IdleWorker, Worker

\* The row a command works on.
LEMMA RowAtFacts ==
    ASSUME RowsType, WorkerType, BatchesFit, NEW r \in Workers, worker[r].pc \in {"post", "receipt", "mark"}
    PROVE  /\ First(worker[r].todo) \in worker[r].todo
           /\ \A k \in worker[r].todo : First(worker[r].todo) <= k
           /\ First(worker[r].todo) \in 1 .. Len(rows)
           /\ ~rows[First(worker[r].todo)].delivered
           /\ RowAt(r).key \in Keys
<1>1. worker[r].todo # {} /\ worker[r].todo \subseteq PendingRows /\ worker[r].todo \in SUBSET Nat
  BY WorkerFields, OutboxBounds DEF BatchesFit
<1>2. First(worker[r].todo) \in worker[r].todo /\ \A k \in worker[r].todo : First(worker[r].todo) <= k
  BY <1>1, FirstIsLeast
<1>3. First(worker[r].todo) \in PendingRows
  BY <1>1, <1>2
<1> QED
  BY <1>2, <1>3, RowFields DEF PendingRows, RowAt

\* Records are added behind the others, pending.
RowsGrow ==
    /\ Len(rows) \in Nat /\ Len(rows') \in Nat /\ Len(rows) <= Len(rows')
    /\ \A i \in 1 .. Len(rows) : rows'[i] = rows[i]
    /\ \A i \in 1 .. Len(rows') : i > Len(rows) => ~rows'[i].delivered

LEMMA AdmitGrows ==
    ASSUME LaneType, ExecFits, RowsType, NEW p \in Providers, Admit(p)
    PROVE  RowsType' /\ RowsGrow
<1>1. CASE rows' = rows
  BY <1>1, RowFields DEF RowsType, RowsGrow
<1>2. CASE rows' # rows
  <2> DEFINE w == lane[p].active
  <2>1. ~Refused(w) /\ RowOf(w) = {} /\ exec[p] # "none" /\ rows' = Append(rows, RecordOf(w))
    BY <1>2 DEF Admit
  <2>2. w \in Writes
    BY <2>1, LaneFields DEF ExecFits
  <2>3. RecordOf(w) \in Record /\ ~RecordOf(w).delivered
    BY <2>2, WritesHaveKeys DEF RecordOf, Record
  <2>4. ~(Len(rows) >= MaxRows)
    BY <2>1 DEF Refused
  <2> HIDE DEF w
  <2>5. /\ rows' \in Seq(Record) /\ Len(rows) \in Nat /\ Len(rows') = Len(rows) + 1
        /\ \A i \in 1 .. Len(rows) : rows'[i] = rows[i]
        /\ rows'[Len(rows) + 1] = RecordOf(w)
    BY <2>1, <2>3, AppendFacts DEF RowsType
  <2>6. RowsType'
    BY <2>4, <2>5, OutboxBounds DEF RowsType
  <2>7. \A i \in 1 .. Len(rows') : i > Len(rows) => i = Len(rows) + 1
    BY <2>5
  <2> QED
    BY <2>3, <2>5, <2>6, <2>7 DEF RowsGrow
<1> QED
  BY <1>1, <1>2

LEMMA GrowFits ==
    ASSUME RowsType, WorkerType, StoreFits, RowsGrow, UNCHANGED <<worker, server>>
    PROVE  StoreFits'
<1>1. /\ PendingRows \subseteq PendingRows'
      /\ \A i \in PendingRows' : i \in PendingRows \/ i > Len(rows)
      /\ \A i \in PendingRows : i \in Int /\ i <= Len(rows)
  BY DEF PendingRows, RowsGrow
<1>2. OneAtWork'
  BY DEF StoreFits, OneAtWork
<1>3. BatchesFit'
  <2> SUFFICES ASSUME NEW r \in Workers
               PROVE  /\ worker[r].todo \subseteq PendingRows'
                      /\ \A k \in worker[r].todo : \A i \in PendingRows' : i <= k => i \in worker[r].todo
    BY DEF StoreFits, BatchesFit
  <2>1. /\ worker[r].todo \subseteq PendingRows
        /\ \A k \in worker[r].todo : \A i \in PendingRows : i <= k => i \in worker[r].todo
    BY DEF StoreFits, BatchesFit
  <2>2. \A i \in PendingRows' : i \in Int
    BY DEF PendingRows
  <2>3. Len(rows) \in Nat
    BY DEF RowsGrow
  <2> QED
    BY <1>1, <2>1, <2>2, <2>3
<1>4. DeliveredInOrder'
  BY DEF StoreFits, DeliveredInOrder, InOrder, RowsGrow
<1>5. SeenByServer'
  <2>1. \A i \in 1 .. Len(rows') : rows'[i].delivered => i \in 1 .. Len(rows) /\ rows'[i] = rows[i]
    BY DEF RowsGrow
  <2>2. \A i \in 1 .. Len(rows') : rows'[i].delivered => server'[rows'[i].key] # "none"
    BY <2>1 DEF StoreFits, SeenByServer
  <2>3. ASSUME NEW r \in Workers, worker[r].pc \in {"receipt", "mark"}
        PROVE  server'[RowAt(r)'.key] # "none"
    <3>1. First(worker[r].todo) \in 1 .. Len(rows)
      BY <2>3, RowAtFacts DEF StoreFits
    <3>2. RowAt(r)' = RowAt(r)
      BY <3>1 DEF RowAt, RowsGrow
    <3> QED
      BY <2>3, <3>2 DEF StoreFits, SeenByServer
  <2> QED
    BY <2>2, <2>3 DEF SeenByServer
<1> QED
  BY <1>2, <1>3, <1>4, <1>5 DEF StoreFits

\* What the server has seen it does not unsee.
ServerGrows == \A k \in Keys : server[k] # "none" => server'[k] # "none"

LEMMA AcceptGrows ==
    ASSUME ServerType, NEW k \in Keys, Accept(k)
    PROVE  ServerType' /\ ServerGrows /\ server'[k] # "none"
BY DEF Accept, ServerType, ServerStates, ServerGrows

\* A command that moves on with its batch, or ends; the records stay.
LEMMA WorkerMoves ==
    ASSUME RowsType, WorkerType, ServerType, StoreFits, rows' = rows, ServerGrows,
           NEW r \in Workers, NEW x \in Worker, worker' = [worker EXCEPT ![r] = x],
           x.pc # "idle" => \A q \in Workers \ {r} : worker[q].pc = "idle",
           x.pc \in {"post", "receipt", "mark"} <=> x.todo # {},
           x.todo = {} \/ x.todo = worker[r].todo \/ x.todo = Batch,
           x.pc \in {"receipt", "mark"} => server'[rows[First(x.todo)].key] # "none"
    PROVE  WorkerType' /\ StoreFits'
<1>1. WorkerType' /\ worker'[r] = x /\ \A q \in Workers \ {r} : worker'[q] = worker[q]
  BY DEF WorkerType
<1>2. OneAtWork'
  BY <1>1 DEF StoreFits, OneAtWork
<1>3. PendingRows' = PendingRows
  BY DEF PendingRows
<1>4. BatchesFit'
  <2>1. /\ x.todo \subseteq PendingRows
        /\ \A k \in x.todo : \A i \in PendingRows : i <= k => i \in x.todo
        /\ Cardinality(x.todo) <= MaxBatch
    <3>1. CASE x.todo = {}
      BY <3>1, IdleFacts
    <3>2. CASE x.todo = worker[r].todo
      BY <3>2 DEF StoreFits, BatchesFit
    <3>3. CASE x.todo = Batch
      BY <3>3, BatchFacts DEF RowsType
    <3> QED
      BY <3>1, <3>2, <3>3
  <2> QED
    BY <1>1, <1>3, <2>1 DEF StoreFits, BatchesFit
<1>5. DeliveredInOrder'
  BY DEF StoreFits, DeliveredInOrder
<1>6. SeenByServer'
  <2>1. \A i \in 1 .. Len(rows') : rows'[i].delivered => server'[rows'[i].key] # "none"
    BY RowFields DEF StoreFits, SeenByServer, ServerGrows
  <2>2. ASSUME NEW q \in Workers, worker'[q].pc \in {"receipt", "mark"}
        PROVE  server'[RowAt(q)'.key] # "none"
    <3>1. CASE q = r
      BY <1>1, <2>2, <3>1 DEF RowAt
    <3>2. CASE q # r
      <4>1. worker'[q] = worker[q] /\ RowAt(q)' = RowAt(q)
        BY <1>1, <3>2 DEF RowAt
      <4>2. RowAt(q).key \in Keys
        BY <2>2, <4>1, RowAtFacts DEF StoreFits
      <4> QED
        BY <2>2, <4>1, <4>2 DEF StoreFits, SeenByServer, ServerGrows
    <3> QED
      BY <3>1, <3>2
  <2> QED
    BY <2>1, <2>2 DEF SeenByServer
<1> QED
  BY <1>1, <1>2, <1>4, <1>5, <1>6 DEF StoreFits

\* The first row of the batch is marked: all rows before it are delivered.
LEMMA MarkFits ==
    ASSUME RowsType, WorkerType, ServerType, StoreFits, NEW r \in Workers, Mark(r)
    PROVE  RowsType' /\ WorkerType' /\ StoreFits'
<1> DEFINE todo == worker[r].todo
           h == First(todo)
           x == NextRow(todo)
           row == [rows[h] EXCEPT !.delivered = TRUE]
<1>1. worker[r].pc = "mark" /\ server' = server
  BY DEF Mark
<1>2. /\ h \in todo /\ h \in 1 .. Len(rows) /\ ~rows[h].delivered
      /\ \A k \in todo : h <= k
  BY <1>1, RowAtFacts DEF StoreFits
<1>3. /\ rows' = [rows EXCEPT ![h] = row]
      /\ worker' = [worker EXCEPT ![r] = x]
  BY DEF Mark, WorkerType
<1>4. row \in Record /\ row.key = rows[h].key /\ row.delivered
  BY <1>2, RowFields DEF Record
<1>5. /\ todo \subseteq 1 .. MaxRows /\ IsFiniteSet(todo) /\ todo \subseteq PendingRows
      /\ \A k \in todo : \A i \in PendingRows : i <= k => i \in todo
      /\ Cardinality(todo) <= MaxBatch
  BY WorkerFields DEF StoreFits, BatchesFit
<1>6. /\ x \in Worker
      /\ x.pc \in {"idle", "post"}
      /\ x.pc = "post" <=> x.todo # {}
      /\ x.todo = todo \ {h}
  BY <1>5, IdleFacts DEF NextRow, Rest, IdleWorker, Worker
<1> HIDE DEF x, row, h
<1>7. /\ rows' \in Seq(Record) /\ Len(rows') = Len(rows) /\ Len(rows) \in Nat
      /\ \A i \in 1 .. Len(rows) : rows'[i] = IF i = h THEN row ELSE rows[i]
  BY <1>2, <1>3, <1>4, RowFields, ExceptSeq DEF RowsType
<1>8. RowsType'
  BY <1>7 DEF RowsType
<1>9. WorkerType' /\ worker'[r] = x /\ \A q \in Workers \ {r} : worker'[q] = worker[q]
  BY <1>3, <1>6 DEF WorkerType
<1>10. PendingRows' = PendingRows \ {h}
  <2>1. \A i \in 1 .. Len(rows) : ~rows'[i].delivered <=> (~rows[i].delivered /\ i # h)
    BY <1>2, <1>4, <1>7
  <2> QED
    BY <1>7, <2>1 DEF PendingRows
<1>11. \A q \in Workers \ {r} : worker[q].pc = "idle" /\ worker[q].todo = {}
  BY <1>1, WorkerFields DEF StoreFits, OneAtWork, BatchesFit
<1>12. OneAtWork'
  BY <1>9, <1>11 DEF OneAtWork
<1>13. BatchesFit'
  <2>1. Cardinality(x.todo) <= MaxBatch
    <3>1. Cardinality(x.todo) <= Cardinality(todo)
      BY <1>5, <1>6, FS_Subset
    <3>2. Cardinality(x.todo) \in Nat /\ Cardinality(todo) \in Nat
      BY <1>5, <1>6, FS_Subset, FS_CardinalityType
    <3> QED
      BY <1>5, <3>1, <3>2, OutboxBounds
  <2>2. /\ x.todo \subseteq PendingRows'
        /\ \A k \in x.todo : \A i \in PendingRows' : i <= k => i \in x.todo
    BY <1>5, <1>6, <1>10
  <2>3. \A q \in Workers \ {r} : worker'[q].todo = {} /\ worker'[q].pc = "idle"
    BY <1>9, <1>11
  <2> QED
    BY <1>6, <1>9, <2>1, <2>2, <2>3, IdleFacts DEF BatchesFit
<1>14. DeliveredInOrder'
  <2> SUFFICES ASSUME NEW i \in 1 .. Len(rows), NEW j \in 1 .. Len(rows), i < j, rows'[j].delivered
               PROVE  rows'[i].delivered
    BY <1>7 DEF DeliveredInOrder, InOrder
  <2>1. CASE j = h
    <3>1. CASE ~rows[i].delivered
      <4>1. i \in PendingRows /\ i <= h
        BY <2>1, <3>1, <1>7 DEF PendingRows
      <4>2. i \in todo
        BY <1>2, <1>5, <4>1
      <4> QED
        BY <1>2, <1>7, <2>1, <4>2
    <3>2. CASE rows[i].delivered
      BY <1>7, <2>1, <3>2
    <3> QED
      BY <3>1, <3>2
  <2>2. CASE j # h
    <3>1. rows[i].delivered
      BY <1>7, <2>2 DEF StoreFits, DeliveredInOrder, InOrder
    <3> QED
      BY <1>4, <1>7, <3>1
  <2> QED
    BY <2>1, <2>2
<1>15. SeenByServer'
  <2>1. server[rows[h].key] # "none"
    BY <1>1 DEF StoreFits, SeenByServer, RowAt, h
  <2>2. \A i \in 1 .. Len(rows') : rows'[i].delivered => server'[rows'[i].key] # "none"
    BY <1>1, <1>4, <1>7, <2>1 DEF StoreFits, SeenByServer
  <2>3. \A q \in Workers : worker'[q].pc \notin {"receipt", "mark"}
    BY <1>6, <1>9, <1>11
  <2> QED
    BY <2>2, <2>3 DEF SeenByServer
<1> QED
  BY <1>8, <1>9, <1>12, <1>13, <1>14, <1>15 DEF StoreFits

LEMMA StoreNext ==
    ASSUME LaneType, ExecFits, RowsType, WorkerType, ServerType, StoreFits, StoreStep
    PROVE  RowsType' /\ WorkerType' /\ ServerType' /\ StoreFits'
<1> DEFINE Goal == RowsType' /\ WorkerType' /\ ServerType' /\ StoreFits'
<1>0. ASSUME rows' = rows PROVE RowsType'
  BY <1>0 DEF RowsType
<1>00. ASSUME server' = server PROVE ServerType' /\ ServerGrows
  BY <1>00 DEF ServerType, ServerGrows
<1>1. ASSUME NEW p \in Providers, Admit(p), UNCHANGED <<worker, server>> PROVE Goal
  BY <1>1, AdmitGrows, GrowFits DEF WorkerType, ServerType
<1>2. ASSUME NEW r \in Workers, Recover(r) PROVE Goal
  <2> DEFINE x == [worker[r] EXCEPT !.pc = "read"]
  <2>1. /\ worker[r].pc = "idle" /\ rows' = rows /\ server' = server
        /\ worker' = [worker EXCEPT ![r] = x]
        /\ \A q \in Workers \ {r} : worker[q].pc = "idle"
    BY <1>2 DEF Recover, Locked
  <2>2. worker[r].todo = {}
    BY <2>1 DEF StoreFits, BatchesFit
  <2>3. x \in Worker /\ x.pc = "read" /\ x.todo = {}
    BY <2>2, WorkerFields DEF Worker
  <2> HIDE DEF x
  <2> QED
    BY <1>0, <1>00, <2>1, <2>3, WorkerMoves
<1>3. ASSUME NEW r \in Workers, ReadRows(r) PROVE Goal
  <2> DEFINE x == IF Batch = {} THEN IdleWorker ELSE [pc |-> "post", todo |-> Batch]
  <2>1. /\ worker[r].pc = "read" /\ rows' = rows /\ server' = server
        /\ worker' = [worker EXCEPT ![r] = x]
    BY <1>3 DEF ReadRows
  <2>2. \A q \in Workers \ {r} : worker[q].pc = "idle"
    BY <2>1, WorkerFields DEF StoreFits, OneAtWork
  <2>3. Batch \subseteq 1 .. MaxRows
    BY RowFields, OutboxBounds DEF Batch, PendingRows, RowsType
  <2>4. /\ x \in Worker /\ x.todo = Batch /\ x.pc \in {"idle", "post"}
        /\ x.pc = "post" <=> Batch # {}
    BY <2>3, IdleFacts DEF IdleWorker, Worker
  <2> HIDE DEF x
  <2> QED
    BY <1>0, <1>00, <2>1, <2>2, <2>4, WorkerMoves
<1>4. ASSUME NEW r \in Workers, Post(r) PROVE Goal
  <2> DEFINE x == [worker[r] EXCEPT !.pc = "receipt"]
  <2>1. /\ worker[r].pc = "post" /\ rows' = rows /\ Accept(RowAt(r).key)
        /\ worker' = [worker EXCEPT ![r] = x]
    BY <1>4 DEF Post
  <2>2. RowAt(r).key \in Keys /\ worker[r].todo # {}
    BY <2>1, RowAtFacts DEF StoreFits, BatchesFit
  <2>3. ServerType' /\ ServerGrows /\ server'[RowAt(r).key] # "none"
    BY <2>1, <2>2, AcceptGrows
  <2>4. \A q \in Workers \ {r} : worker[q].pc = "idle"
    BY <2>1, WorkerFields DEF StoreFits, OneAtWork
  <2>5. x \in Worker /\ x.pc = "receipt" /\ x.todo = worker[r].todo
    BY WorkerFields DEF Worker
  <2>6. server'[rows[First(x.todo)].key] # "none"
    BY <2>3, <2>5 DEF RowAt
  <2> HIDE DEF x
  <2> QED
    BY <1>0, <2>1, <2>2, <2>3, <2>4, <2>5, <2>6, WorkerMoves
<1>5. ASSUME NEW r \in Workers, Receipt(r) PROVE Goal
  <2> DEFINE x == [worker[r] EXCEPT !.pc = "mark"]
  <2>1. /\ worker[r].pc = "receipt" /\ rows' = rows /\ server' = server
        /\ worker' = [worker EXCEPT ![r] = x]
    BY <1>5 DEF Receipt
  <2>2. server[RowAt(r).key] # "none" /\ worker[r].todo # {}
    BY <2>1 DEF StoreFits, SeenByServer, BatchesFit
  <2>4. \A q \in Workers \ {r} : worker[q].pc = "idle"
    BY <2>1, WorkerFields DEF StoreFits, OneAtWork
  <2>5. x \in Worker /\ x.pc = "mark" /\ x.todo = worker[r].todo
    BY WorkerFields DEF Worker
  <2>6. server'[rows[First(x.todo)].key] # "none"
    BY <2>1, <2>2, <2>5 DEF RowAt
  <2> HIDE DEF x
  <2> QED
    BY <1>0, <1>00, <2>1, <2>2, <2>4, <2>5, <2>6, WorkerMoves
<1>6. ASSUME NEW r \in Workers, GiveUp(r), rows' = rows, ServerType', ServerGrows PROVE Goal
  BY <1>0, <1>6, IdleFacts, WorkerMoves DEF GiveUp
<1>7. ASSUME NEW r \in Workers, ReceiptRefused(r) PROVE Goal
  BY <1>00, <1>6, <1>7 DEF ReceiptRefused
<1>8. ASSUME NEW r \in Workers, WorkerFails(r) PROVE Goal
  <2>1. GiveUp(r) /\ rows' = rows
    BY <1>8 DEF WorkerFails
  <2>2. CASE server' = server
    BY <1>00, <1>6, <2>1, <2>2
  <2>3. CASE worker[r].pc = "post" /\ Accept(RowAt(r).key)
    <3>1. RowAt(r).key \in Keys
      BY <2>3, RowAtFacts DEF StoreFits
    <3>2. ServerType' /\ ServerGrows
      BY <2>3, <3>1, AcceptGrows
    <3> QED
      BY <1>6, <2>1, <3>2
  <2> QED
    BY <1>8, <2>2, <2>3 DEF WorkerFails
<1>9. ASSUME NEW r \in Workers, Mark(r) PROVE Goal
  BY <1>00, <1>9, MarkFits DEF Mark
<1>10. ASSUME NEW k \in Keys, Delete(k) PROVE Goal
  <2>1. rows' = rows /\ worker' = worker
    BY <1>10 DEF Delete
  <2>2. ServerType' /\ ServerGrows
    BY <1>10 DEF Delete, ServerType, ServerStates, ServerGrows
  <2>3. WorkerType' /\ OneAtWork' /\ BatchesFit' /\ DeliveredInOrder'
    BY <2>1 DEF WorkerType, StoreFits, OneAtWork, BatchesFit, PendingRows, DeliveredInOrder
  <2>4. SeenByServer'
    <3>1. \A i \in 1 .. Len(rows) : rows[i].delivered => server'[rows[i].key] # "none"
      BY <2>2, RowFields DEF StoreFits, SeenByServer, ServerGrows
    <3>2. \A r \in Workers : worker[r].pc \in {"receipt", "mark"} => server'[RowAt(r).key] # "none"
      BY <2>2, RowAtFacts DEF StoreFits, SeenByServer, ServerGrows
    <3> QED
      BY <2>1, <3>1, <3>2 DEF SeenByServer, RowAt
  <2> QED
    BY <1>0, <2>1, <2>2, <2>3, <2>4 DEF StoreFits
<1>11. CASE UNCHANGED <<rows, worker, server>>
  BY <1>11 DEF RowsType, WorkerType, ServerType, StoreFits, OneAtWork, BatchesFit, PendingRows,
               DeliveredInOrder, SeenByServer, RowAt
<1> QED
  BY <1>1, <1>2, <1>3, <1>4, <1>5, <1>7, <1>8, <1>9, <1>10, <1>11, Zenon DEF StoreStep, Deliver

-----------------------------------------------------------------------------
(* The theorems *)

FaultType == faults \in 0 .. MaxFaults

OutboxInv ==
    /\ LaneType /\ WriteType /\ CallType /\ FaultType
    /\ RowsType /\ ExecType /\ ChargedType /\ WorkerType /\ ServerType
    /\ ExecFits /\ Places /\ CallsFit /\ PendingIsServed /\ StoreFits

LEMMA FaultNext ==
    ASSUME FaultType, [Next]_vars
    PROVE  FaultType'
<1>1. CASE Fault
  BY <1>1, FaultsBounded DEF Fault, FaultType
<1>2. CASE faults' = faults
  BY <1>2 DEF FaultType
<1>3. Fault \/ faults' = faults
  <2>1. CASE \E p \in Providers : Callback(p) \/ LaneOnly(Queue(p)) \/ Drain(p) \/ ExecFails(p) \/ ProcessDies(p)
    BY <2>1, Zenon DEF Callback, LaneOnly, Enter, Queue, QueueFails, Drain, Begin, Take, Stop, LookUp, Admit,
                       End, Finish, ExecFails, ProcessDies, LaneDies
  <2>2. CASE \E c \in Callers : Calls(c) \/ LaneOnly(CallStep(c))
    BY <2>2, Zenon DEF Calls, LaneOnly, CallStep, FlushCall, ShutdownCall, FlushTimeout, FlushCheck, FlushWake,
                       FlushLast, ShutdownClose
  <2>3. CASE \E r \in Workers : Recover(r) \/ Deliver(r) \/ WorkerFails(r)
    BY <2>3, Zenon DEF Recover, Deliver, ReadRows, Post, Receipt, ReceiptRefused, Mark, WorkerFails
  <2>4. CASE \E k \in Keys : Delete(k)
    BY <2>4, Zenon DEF Delete
  <2>5. CASE UNCHANGED vars
    BY <2>5, Zenon DEF vars
  <2> QED
    BY <2>1, <2>2, <2>3, <2>4, <2>5, Zenon DEF Next
<1> QED
  BY <1>1, <1>2, <1>3

LEMMA OutboxInit == Init => OutboxInv
<1> SUFFICES ASSUME Init PROVE OutboxInv
  OBVIOUS
<1>1. NewLane \in Lane /\ NewLane.inside = NoWrite /\ NewLane.active = NoWrite
      /\ NewLane.queue = <<>> /\ NewLane.closed = FALSE
  BY EmptyFacts DEF NewLane, Lane
<1>2. IdleCall \in Call /\ IdleCall.pc = "idle" /\ IdleCall.shutdown = FALSE
  BY DEF IdleCall, Call
<1>3. \A p \in Providers : lane[p] = NewLane
  BY DEF Init, LaneInit
<1>4. LaneType /\ WriteType /\ CallType /\ FaultType
  BY <1>1, <1>2, FaultsBounded DEF Init, LaneInit, LaneType, WriteType, WriteStates, CallType, FaultType
<1>5. ExecType /\ ChargedType /\ ExecFits
  BY <1>1, <1>3, OutboxBounds DEF Init, ExecType, ChargedType, ExecFits
<1>6. RowsType /\ DeliveredInOrder
  BY FoundIsOutbox DEF Init, RowsType, DeliveredInOrder
<1>7. WorkerType /\ ServerType
  BY IdleFacts DEF Init, WorkerType, ServerType, ServerStates
<1>8. CallsFit
  <2>1. \A c \in Callers : call[c].pc = "idle" /\ ~call[c].shutdown
    BY <1>2 DEF Init, LaneInit
  <2> QED
    BY <1>1, <1>3, <2>1 DEF CallsFit, CallFits, ClosedFits, GateShut, WaitersHaveReason, DrainedIsFinal
<1>9. PendingIsServed
  BY <1>1, <1>3 DEF PendingIsServed, Pending
<1>10. Places
  <2>1. \A p \in Providers : Inside(p) = NoWrite /\ Active(p) = NoWrite /\ Queued(p) = {} /\ NoRepeat(lane[p].queue)
    BY <1>1, <1>3, EmptyValues DEF Inside, Active, Queued
  <2>2. \A w \in Writes : write[w] = "new"
    BY DEF Init, LaneInit
  <2> QED
    BY <2>1, <2>2 DEF Places, StatesFit, LanesApart, QueuesDistinct, NoneForgotten
<1>11. StoreFits
  <2>1. \A r \in Workers : worker[r].pc = "idle" /\ worker[r].todo = {}
    BY IdleFacts DEF Init
  <2>2. OneAtWork /\ BatchesFit
    BY <2>1, IdleFacts DEF OneAtWork, BatchesFit
  <2>3. SeenByServer
    <3>1. \A i \in 1 .. Len(rows) : rows[i].key \in Keys
      BY <1>6, RowFields
    <3>2. ASSUME NEW i \in 1 .. Len(rows), rows[i].delivered PROVE server[rows[i].key] = "durable"
      BY <3>1, <3>2 DEF Init
    <3> QED
      BY <2>1, <3>2 DEF SeenByServer
  <2> QED
    BY <1>6, <2>2, <2>3 DEF StoreFits
<1> QED
  BY <1>4, <1>5, <1>6, <1>7, <1>8, <1>9, <1>10, <1>11 DEF OutboxInv

LEMMA OutboxNext == OutboxInv /\ [Next]_vars => OutboxInv'
<1> SUFFICES ASSUME OutboxInv, [Next]_vars PROVE OutboxInv'
  OBVIOUS
<1> USE DEF OutboxInv
<1>1. LaneStep /\ ExecStep /\ StoreStep
  BY NextIsLaneStep, NextIsExecStep, NextIsStoreStep
<1>2. CallFits
  BY DEF CallsFit
<1>3. LaneType' /\ WriteType' /\ PendingIsServed'
  BY <1>1, <1>2, LaneNext
<1>4. CallType' /\ CallsFit'
  BY <1>1, CallsNext
<1>5. Places'
  BY <1>1, <1>2, PlacesNext
<1>6. ExecType' /\ ExecFits'
  BY <1>1, <1>2, ExecNext
<1>7. ChargedType'
  BY <1>1, ChargedNext
<1>8. RowsType' /\ WorkerType' /\ ServerType' /\ StoreFits'
  BY <1>1, StoreNext
<1>9. FaultType'
  BY FaultNext
<1> QED
  BY <1>3, <1>4, <1>5, <1>6, <1>7, <1>8, <1>9

LEMMA OutboxAlways == Spec => []OutboxInv
BY OutboxInit, OutboxNext, PTL DEF Spec

\* The types of the lane and of the outbox, with the bounds on the queue, on
\* the rows of the file, on a batch and on the quota a process has charged.
THEOREM OutboxTypes == Spec => []TypeOK
<1>1. OutboxInv => TypeOK
  <2> SUFFICES ASSUME OutboxInv PROVE TypeOK
    OBVIOUS
  <2> USE DEF OutboxInv
  <2>1. ASSUME NEW p \in Providers PROVE Len(lane[p].queue) <= Cardinality(Writes)
    <3>1. lane[p].queue \in Seq(Writes) /\ NoRepeat(lane[p].queue)
      BY LaneFields DEF Places, QueuesDistinct
    <3> QED
      BY <3>1, WritesAreFinite, NoRepetition DEF NoRepeat
  <2>2. LaneTypeOK
    BY <2>1 DEF LaneTypeOK, LaneType, WriteType, CallType, FaultType
  <2>3. \A r \in Workers : Cardinality(worker[r].todo) <= MaxBatch
    BY DEF StoreFits, BatchesFit
  <2> QED
    BY <2>2, <2>3 DEF TypeOK, RowsType, ExecType, ChargedType, WorkerType, ServerType
<1> QED
  BY <1>1, OutboxAlways, PTL

\* shutdown: once it has reported that the lane is drained, nothing is pending
\* then or later in that process.
THEOREM DrainIsFinal == Spec => []DrainedIsFinal
<1>1. OutboxInv => DrainedIsFinal
  BY DEF OutboxInv, CallsFit
<1> QED
  BY <1>1, OutboxAlways, PTL

\* RecoveryWorker.run: no record is delivered before one that was committed
\* earlier, over failures, crashes and commands that overlap.
THEOREM DeliveryIsInOrder == Spec => []DeliveredInOrder
<1>1. OutboxInv => DeliveredInOrder
  BY DEF OutboxInv, StoreFits
<1> QED
  BY <1>1, OutboxAlways, PTL

\* _queue_write and _drain_writes: a write that was accepted and is not decided
\* is in one place of one lane, the place that its state says, and nowhere twice.
THEOREM AcceptedWritesAreHeld == Spec => []Places
<1>1. OutboxInv => Places
  BY DEF OutboxInv
<1> QED
  BY <1>1, OutboxAlways, PTL

\* flush_pending: a caller that waits for its event and has not been told has
\* something to wait for, and what is pending has a thread that runs: no
\* notification is lost and no write is left to a thread that has stopped.
THEOREM NoWakeUpIsLost == Spec => [](WaitersHaveReason /\ PendingIsServed)
<1>1. OutboxInv => WaitersHaveReason /\ PendingIsServed
  BY DEF OutboxInv, CallsFit
<1> QED
  BY <1>1, OutboxAlways, PTL

\* mark_delivered: a record is marked only when the server has accepted an
\* entry with its key.
DeliveredWasAccepted == \A i \in 1 .. Len(rows) : rows[i].delivered => server[rows[i].key] # "none"

THEOREM OnlyAcceptedIsDelivered == Spec => []DeliveredWasAccepted
<1>1. OutboxInv => DeliveredWasAccepted
  BY DEF OutboxInv, StoreFits, SeenByServer, DeliveredWasAccepted
<1> QED
  BY <1>1, OutboxAlways, PTL

\* A write is decided once: what has been executed, has failed, was refused or was
\* lost with its process is not taken up again, by that process or a later one.
Decided == {"ok", "failed", "refused", "lost"}
DecisionsStay == \A w \in Writes : write[w] \in Decided => write'[w] = write[w]

LEMMA DecisionsStayNext ==
    ASSUME LaneType, WriteType, CallType, CallFits, ExecFits, Places, LaneStep
    PROVE  DecisionsStay
<1>0. ASSUME NEW v \in Writes, NEW state, Wrote(v, state), write[v] \notin Decided PROVE DecisionsStay
  BY <1>0 DEF Wrote, DecisionsStay
<1>1. ASSUME NEW p \in Providers, NEW w \in Writes, Enter(p, w) PROVE DecisionsStay
  BY <1>0, <1>1, EnterEffect DEF Decided
<1>2. ASSUME NEW p \in Providers, Queue(p) PROVE DecisionsStay
  <2>1. lane[p].inside \in Writes /\ Wrote(lane[p].inside, "queued")
    BY <1>2, QueueEffect
  <2>2. write[lane[p].inside] = "testing"
    BY <2>1, NullsAreApart DEF Places, StatesFit, Inside
  <2> QED
    BY <1>0, <2>1, <2>2 DEF Decided
<1>3. ASSUME NEW p \in Providers, QueueFails(p) PROVE DecisionsStay
  <2>1. lane[p].inside \in Writes /\ Wrote(lane[p].inside, "refused")
    BY <1>3, QueueFailsEffect
  <2>2. write[lane[p].inside] = "testing"
    BY <2>1, NullsAreApart DEF Places, StatesFit, Inside
  <2> QED
    BY <1>0, <2>1, <2>2 DEF Decided
<1>4. ASSUME NEW p \in Providers, Take(p) PROVE DecisionsStay
  <2>1. lane[p].queue # <<>> /\ lane[p].queue[1] \in Writes /\ Wrote(lane[p].queue[1], "active")
    BY <1>4, TakeEffect
  <2>2. lane[p].queue[1] \in Queued(p)
    BY <2>1, LaneFields, TailValues DEF Queued
  <2>3. write[lane[p].queue[1]] = "queued"
    BY <2>2 DEF Places, StatesFit
  <2> QED
    BY <1>0, <2>1, <2>3 DEF Decided
<1>5. ASSUME NEW p \in Providers, exec[p] \in {"ok", "failed"}, Finish(p, exec[p]) PROVE DecisionsStay
  <2>1. lane[p].active # NoWrite
    BY <1>5 DEF ExecFits
  <2>2. lane[p].active \in Writes /\ Wrote(lane[p].active, exec[p])
    BY <1>5, <2>1, FinishEffect
  <2>3. write[lane[p].active] = "active"
    BY <2>1 DEF Places, StatesFit, Active
  <2> QED
    BY <1>0, <2>2, <2>3 DEF Decided
<1>6. ASSUME NEW p \in Providers, LaneDies(p) PROVE DecisionsStay
  <2> SUFFICES ASSUME NEW w \in Writes, write[w] \in Decided PROVE write'[w] = write[w]
    BY DEF DecisionsStay
  <2>1. w # Inside(p) /\ w # Active(p) /\ w \notin Queued(p)
    BY NullsAreApart DEF Places, StatesFit, Decided
  <2>2. /\ w \notin {lane[p].inside, lane[p].active}
        /\ ~\E i \in 1 .. Len(lane[p].queue) : lane[p].queue[i] = w
    BY <2>1 DEF Inside, Active, Queued, ValuesOf
  <2>3. write'[w] = IF w \in {lane[p].inside, lane[p].active}
                       \/ \E i \in 1 .. Len(lane[p].queue) : lane[p].queue[i] = w
                    THEN "lost" ELSE write[w]
    BY <1>6, LaneDiesEffect
  <2> QED
    BY <2>2, <2>3, Zenon
<1>7. CASE write' = write
  BY <1>7 DEF DecisionsStay
<1> QED
  BY <1>1, <1>2, <1>3, <1>4, <1>5, <1>6, <1>7, Zenon
     DEF LaneStep, Stop, ShutdownCall, CallStep, ShutdownClose, FlushCall, FlushCheck, FlushWake, FlushLast, FlushTimeout

THEOREM EachWriteIsDecidedOnce == Spec => [][DecisionsStay]_vars
<1>1. OutboxInv /\ [Next]_vars => DecisionsStay
  BY NextIsLaneStep, DecisionsStayNext DEF OutboxInv, CallsFit
<1> QED
  BY <1>1, OutboxAlways, PTL DEF Spec

\* OutboxStore: a record stays in its place with its key and session, and once
\* it is delivered it stays so.
RecordsStay ==
    \A i \in 1 .. Len(rows) : /\ i <= Len(rows')
                              /\ rows'[i].key = rows[i].key
                              /\ rows'[i].session = rows[i].session
                              /\ rows[i].delivered => rows'[i].delivered

LEMMA RecordsStayNext ==
    ASSUME LaneType, ExecFits, RowsType, WorkerType, StoreFits, StoreStep
    PROVE  RecordsStay
<1>1. ASSUME NEW p \in Providers, Admit(p) PROVE RecordsStay
  BY <1>1, AdmitGrows DEF RowsGrow, RecordsStay
<1>2. ASSUME NEW r \in Workers, Mark(r) PROVE RecordsStay
  <2> DEFINE h == First(worker[r].todo)
             row == [rows[h] EXCEPT !.delivered = TRUE]
  <2>1. h \in 1 .. Len(rows)
    BY <1>2, RowAtFacts DEF Mark, StoreFits
  <2>2. rows' = [rows EXCEPT ![h] = row]
    BY <1>2 DEF Mark
  <2> HIDE DEF h
  <2>3. row \in Record /\ row.key = rows[h].key /\ row.session = rows[h].session /\ row.delivered
    BY <2>1, RowFields DEF Record
  <2> HIDE DEF row
  <2>4. /\ Len(rows') = Len(rows) /\ Len(rows) \in Nat
        /\ \A i \in 1 .. Len(rows) : rows'[i] = IF i = h THEN row ELSE rows[i]
    BY <2>1, <2>2, <2>3, RowFields, ExceptSeq DEF RowsType
  <2> QED
    BY <2>3, <2>4 DEF RecordsStay
<1>3. CASE rows' = rows
  BY <1>3, RowFields DEF RecordsStay
<1> QED
  BY <1>1, <1>2, <1>3, Zenon
     DEF StoreStep, Deliver, Recover, ReadRows, Post, Receipt, ReceiptRefused, WorkerFails, Delete

THEOREM OutboxKeepsRecords == Spec => [][RecordsStay]_vars
<1>1. OutboxInv /\ [Next]_vars => RecordsStay
  BY NextIsStoreStep, RecordsStayNext DEF OutboxInv
<1> QED
  BY <1>1, OutboxAlways, PTL DEF Spec

=============================================================================
