----------------------- MODULE SourceResources_proofs -----------------------
(***************************************************************************)
(* Theorems about SourceResources, for all resources, tokens, operators    *)
(* and bounds: its types, that it implements FencedLease, and what the     *)
(* lease is for.                                                           *)
(***************************************************************************)
EXTENDS SourceResources, TLAPS

-----------------------------------------------------------------------------
(* Values of the helpers *)

LEMMA AnyType == AnyResource \in Resources
BY ResourceAssumption DEF AnyResource

LEMMA NoJobType ==
    /\ NoJob \in Job
    /\ NoJob.pc = "none"
BY AnyType, BoundAssumption DEF NoJob, Job, Versions, Policies, Answers

LEMMA IdleAskType ==
    IdleAsk \in Ask /\ IdleAsk.pc = "idle" /\ IdleAsk.token = NoToken
BY DEF IdleAsk, Ask

\* A new job for a lease.
LEMMA JobForType ==
    ASSUME row \in [Resources -> Row], NEW r \in Resources, NEW t, NEW pc \in {"claimed"}
    PROVE  /\ JobFor(r, t, pc) \in Job
           /\ JobFor(r, t, pc).pc = pc
           /\ JobFor(r, t, pc).res = r
           /\ JobFor(r, t, pc).policy = row[r].policy
<1>1. row[r].policy \in Policies
  BY DEF Row
<1>2. NoJob \in Job
  BY NoJobType
<1> QED
  BY <1>1, <1>2 DEF JobFor, Job

LEMMA LeasedType ==
    ASSUME NEW x \in Row, NEW t \in Tokens
    PROVE  /\ Leased(x, t) \in Row
           /\ Leased(x, t).token = t
           /\ Leased(x, t).status = x.status
           /\ Leased(x, t).policy = x.policy
           /\ Leased(x, t).version = x.version
BY DEF Leased, Row

LEMMA UnleasedType ==
    ASSUME NEW x \in Row
    PROVE  /\ Unleased(x) \in Row
           /\ Unleased(x).token = NoToken
           /\ Unleased(x).status = x.status
           /\ Unleased(x).policy = x.policy
           /\ Unleased(x).version = x.version
BY DEF Unleased, Row

\* The outcome of a refresh changes the content only with content.
LEMMA ObservedType ==
    ASSUME NEW x \in Row, NEW j \in Job
    PROVE  /\ Observed(x, j) \in Row
           /\ Observed(x, j).policy = x.policy
           /\ Observed(x, j).version = x.version \/ (j.answer = "content" /\ Observed(x, j).version = j.got)
<1>1. CASE j.answer = "content"
  <2>1. Observed(x, j) = Verified(x, j.got)
    BY <1>1 DEF Observed
  <2>2. j.got \in Versions
    BY DEF Job
  <2> QED
    BY <1>1, <2>1, <2>2 DEF Verified, NextDue, Row, Statuses
<1>2. CASE j.answer = "same"
  <2>1. Observed(x, j) = Verified(x, x.version)
    BY <1>2 DEF Observed
  <2> QED
    BY <2>1 DEF Verified, NextDue, Row, Statuses
<1>3. CASE j.answer \notin {"content", "same"}
  <2>1. Observed(x, j) = Failed(x, j.answer)
    BY <1>3 DEF Observed
  <2> QED
    BY <2>1 DEF Failed, Row, Statuses
<1> QED
  BY <1>1, <1>2, <1>3

LEMMA PolicyRowType ==
    ASSUME NEW x \in Row, NEW p \in Policies
    PROVE  /\ PolicyRow(x, p) \in Row
           /\ PolicyRow(x, p).token = NoToken
           /\ PolicyRow(x, p).status = x.status
           /\ PolicyRow(x, p).version = x.version
BY UnleasedType DEF PolicyRow, Row

LEMMA PausedRowType ==
    ASSUME NEW x \in Row
    PROVE  /\ PausedRow(x) \in Row
           /\ PausedRow(x).token = NoToken
           /\ PausedRow(x).status = "paused"
           /\ PausedRow(x).version = x.version
BY UnleasedType DEF PausedRow, Row, Statuses

LEMMA CancelledType ==
    ASSUME NEW x \in Row, NEW t
    PROVE  /\ Cancelled(x, t) \in Row
           /\ Cancelled(x, t).token = x.token \/ Cancelled(x, t).token = NoToken
           /\ Cancelled(x, t).policy = x.policy
           /\ Cancelled(x, t).status = x.status
           /\ Cancelled(x, t).version = x.version
           /\ x.token # t => Cancelled(x, t) = x
BY UnleasedType DEF Cancelled, Row

-----------------------------------------------------------------------------
(* The steps, and their types *)

LEMMA NextCases ==
    ASSUME Next
    PROVE  \/ \E r \in Resources :
                 \/ PageChanges(r) \/ FallsDue(r) \/ LeaseExpires(r) \/ LeaseOutrun(r)
                 \/ \E p \in Policies : SetPolicy(r, p)
                 \/ Pause(r) \/ Resume(r) \/ Restore(r)
           \/ \E r \in Resources, t \in Tokens : Claim(r, t) \/ \E o \in Operators : Refresh(o, r, t)
           \/ \E t \in Tokens :
                 \/ DispatchEnqueue(t) \/ Start(t) \/ Fetch(t) \/ Apply(t) \/ Discard(t)
                 \/ DispatchLost(t) \/ FetchFails(t) \/ JobEnds(t) \/ WorkerCrash(t)
           \/ \E o \in Operators :
                 \/ RefreshEnqueue(o) \/ RefreshCancel(o) \/ RefreshEnqueueError(o) \/ RefreshCrash(o)
BY Zenon DEF Next, Clock, Operator, RequestStep, RequestFault, JobStep, JobFault

\* What the clock, an operator's command or a cancellation does to a row: its lease
\* stays, with its policy, or goes; nobody else pauses or revives it.
RowKept(r) ==
    /\ row'[r].version = row[r].version
    /\ \/ row'[r].token = row[r].token /\ row'[r].policy = row[r].policy
       \/ row'[r].token = NoToken
    /\ row'[r].status \in {"paused", "gone"} =>
         row'[r].token = NoToken \/ row'[r].status = row[r].status
    /\ asks' = asks => row'[r].status = row[r].status

RowStep(r) ==
    /\ row' \in [Resources -> Row]
    /\ RowKept(r)
    /\ \A q \in Resources \ {r} : row'[q] = row[q]
    /\ UNCHANGED job

\* Each of the next lemmas is about one kind of row step.
LEMMA RowStepBy ==
    ASSUME TypeOK, NEW r \in Resources, NEW x \in Row, row' = [row EXCEPT ![r] = x], UNCHANGED job,
           x.version = row[r].version,
           (x.token = row[r].token /\ x.policy = row[r].policy) \/ x.token = NoToken,
           x.status \in {"paused", "gone"} => x.token = NoToken \/ x.status = row[r].status,
           asks' = asks => x.status = row[r].status
    PROVE  RowStep(r)
BY DEF TypeOK, RowStep, RowKept

LEMMA ClockStep ==
    ASSUME TypeOK, NEW r \in Resources, FallsDue(r) \/ LeaseExpires(r) \/ LeaseOutrun(r)
    PROVE  RowStep(r)
<1>1. row[r] \in Row
  BY DEF TypeOK
<1>2. CASE FallsDue(r)
  <2> DEFINE x == [row[r] EXCEPT !.due = "now"]
  <2>1. x \in Row /\ x.version = row[r].version /\ x.token = row[r].token
        /\ x.policy = row[r].policy /\ x.status = row[r].status
    BY <1>1 DEF Row
  <2>2. row' = [row EXCEPT ![r] = x] /\ UNCHANGED job
    BY <1>2 DEF FallsDue
  <2> HIDE DEF x
  <2> QED
    BY <2>1, <2>2, RowStepBy
<1>3. CASE LeaseExpires(r) \/ LeaseOutrun(r)
  <2> DEFINE x == [row[r] EXCEPT !.live = FALSE]
  <2>1. x \in Row /\ x.version = row[r].version /\ x.token = row[r].token
        /\ x.policy = row[r].policy /\ x.status = row[r].status
    BY <1>1 DEF Row
  <2>2. row' = [row EXCEPT ![r] = x] /\ UNCHANGED job
    BY <1>3 DEF LeaseExpires, LeaseOutrun
  <2> HIDE DEF x
  <2> QED
    BY <2>1, <2>2, RowStepBy
<1> QED
  BY <1>2, <1>3

\* A resource that is paused or gone has no lease.
NoLeaseAtRest ==
    \A r \in Resources : row[r].status \in {"paused", "gone"} => row[r].token = NoToken

LEMMA OperatorStep ==
    ASSUME TypeOK, NoLeaseAtRest, NEW r \in Resources,
           (\E p \in Policies : SetPolicy(r, p)) \/ Pause(r) \/ Resume(r) \/ Restore(r)
    PROVE  RowStep(r)
<1>1. row[r] \in Row
  BY DEF TypeOK
<1>2. asks' = asks + 1 /\ asks \in Nat
  BY BoundAssumption DEF TypeOK, SetPolicy, Pause, Resume, Restore, Act, Asked
<1>3. asks' # asks
  BY <1>2
<1>4. ASSUME NEW p \in Policies, SetPolicy(r, p)
      PROVE  RowStep(r)
  <2> DEFINE x == PolicyRow(row[r], p)
  <2>1. row' = [row EXCEPT ![r] = x] /\ UNCHANGED job
    BY <1>4 DEF SetPolicy, Act
  <2>2. x \in Row /\ x.token = NoToken /\ x.version = row[r].version
    BY <1>1, PolicyRowType
  <2> HIDE DEF x
  <2> QED
    BY <1>3, <2>1, <2>2, RowStepBy
<1>5. CASE Pause(r)
  <2> DEFINE x == PausedRow(row[r])
  <2>1. row' = [row EXCEPT ![r] = x] /\ UNCHANGED job
    BY <1>5 DEF Pause, Act
  <2>2. x \in Row /\ x.token = NoToken /\ x.version = row[r].version
    BY <1>1, PausedRowType
  <2> HIDE DEF x
  <2> QED
    BY <1>3, <2>1, <2>2, RowStepBy
<1>6. CASE Resume(r)
  <2> DEFINE x == [row[r] EXCEPT !.status = "active", !.due = DueNow(row[r])]
  <2>1. row' = [row EXCEPT ![r] = x] /\ UNCHANGED job
    BY <1>6 DEF Resume, Act
  <2>2. x \in Row /\ x.token = row[r].token /\ x.version = row[r].version /\ x.status = "active"
    BY <1>1 DEF Row, DueNow, Statuses
  <2>3. x.token = NoToken
    BY <1>6, <2>2 DEF NoLeaseAtRest, Resume
  <2> HIDE DEF x
  <2> QED
    BY <1>3, <2>1, <2>2, <2>3, RowStepBy
<1>7. CASE Restore(r)
  <2> DEFINE y == Unleased(row[r])
             x == [y EXCEPT !.status = "active", !.missed = FALSE, !.due = DueNow(row[r])]
  <2>1. row' = [row EXCEPT ![r] = x] /\ UNCHANGED job
    BY <1>7 DEF Restore, Act
  <2>2. y \in Row /\ y.token = NoToken /\ y.version = row[r].version
    BY <1>1, UnleasedType
  <2> HIDE DEF y
  <2>3. x \in Row /\ x.token = NoToken /\ x.version = row[r].version
    BY <2>2 DEF Row, DueNow, Statuses
  <2> HIDE DEF x
  <2> QED
    BY <1>3, <2>1, <2>3, RowStepBy
<1> QED
  BY <1>4, <1>5, <1>6, <1>7

\* Each resource has a lease of its own.
LeasesDiffer ==
    \A r, q \in Resources : row[r].token = row[q].token /\ row[r].token # NoToken => r = q

LEMMA CancelStep ==
    ASSUME TypeOK, LeasesDiffer, NEW o \in Operators, RefreshCancel(o), ask[o].token # NoToken
    PROVE  \E r \in Resources : RowStep(r)
<1> DEFINE t == ask[o].token
<1>1. /\ row' = [q \in Resources |-> Cancelled(row[q], t)]
      /\ UNCHANGED <<job, asks>>
      /\ t # NoToken
  BY DEF RefreshCancel
<1> HIDE DEF t
<1>2. ASSUME NEW q \in Resources
      PROVE  RowKept(q) /\ row'[q] \in Row /\ (row[q].token # t => row'[q] = row[q])
  <2>1. row[q] \in Row /\ row'[q] = Cancelled(row[q], t)
    BY <1>1 DEF TypeOK
  <2> QED
    BY <1>1, <2>1, CancelledType DEF RowKept
<1>3. row' \in [Resources -> Row]
  BY <1>1, <1>2
<1>4. PICK r \in Resources : \A q \in Resources : q # r => row[q].token # t
  <2>1. CASE \E q \in Resources : row[q].token = t
    BY <1>1, <2>1 DEF LeasesDiffer
  <2>2. CASE ~\E q \in Resources : row[q].token = t
    BY <2>2, AnyType
  <2> QED
    BY <2>1, <2>2
<1> QED
  BY <1>1, <1>2, <1>3, <1>4 DEF RowStep

\* What a job's step does, alone: it keeps its resource and policy or is over, and
\* content that it brings is what the origin serves.
JobMoves(t) ==
    /\ job' \in [Tokens -> Job]
    /\ job[t].pc # "none"
    /\ job'[t].pc # "none" => job'[t].res = job[t].res /\ job'[t].policy = job[t].policy
    /\ job'[t].pc = "apply" /\ job'[t].answer = "content" => job'[t].got = page[job[t].res]
    /\ \A u \in Tokens \ {t} : job'[u] = job[u]
    /\ UNCHANGED <<row, page, asks>>

LEMMA JobMovesBy ==
    ASSUME TypeOK, NEW t \in Tokens, NEW x \in Job, job' = [job EXCEPT ![t] = x],
           UNCHANGED <<row, page, asks>>, job[t].pc # "none",
           x.pc # "none" => x.res = job[t].res /\ x.policy = job[t].policy,
           x.pc = "apply" /\ x.answer = "content" => x.got = page[job[t].res]
    PROVE  JobMoves(t)
BY DEF TypeOK, JobMoves

\* It is over, ...
LEMMA JobIsOver ==
    ASSUME TypeOK, NEW t \in Tokens, job' = [job EXCEPT ![t] = NoJob],
           UNCHANGED <<row, page, asks>>, job[t].pc # "none"
    PROVE  JobMoves(t)
BY NoJobType, JobMovesBy

\* ... or in the queue.
LEMMA JobIsQueued ==
    ASSUME TypeOK, NEW t \in Tokens, job' = [job EXCEPT ![t].pc = "queued"],
           UNCHANGED <<row, page, asks>>, job[t].pc # "none"
    PROVE  JobMoves(t)
<1> DEFINE x == [job[t] EXCEPT !.pc = "queued"]
<1>1. job[t] \in Job
  BY DEF TypeOK
<1>2. x \in Job /\ x.pc = "queued" /\ x.res = job[t].res /\ x.policy = job[t].policy
  BY <1>1 DEF Job
<1>3. job' = [job EXCEPT ![t] = x]
  OBVIOUS
<1> HIDE DEF x
<1> QED
  BY <1>2, <1>3, JobMovesBy

LEMMA WorkStep ==
    ASSUME TypeOK, NEW t \in Tokens,
           \/ DispatchEnqueue(t) \/ Start(t) \/ Fetch(t) \/ Discard(t)
           \/ DispatchLost(t) \/ FetchFails(t) \/ JobEnds(t) \/ WorkerCrash(t)
    PROVE  JobMoves(t)
<1>1. job[t] \in Job
  BY DEF TypeOK
<1>2. CASE DispatchEnqueue(t)
  BY <1>2, JobIsQueued DEF DispatchEnqueue
<1>3. CASE Discard(t) \/ DispatchLost(t) \/ JobEnds(t)
  BY <1>3, JobIsOver DEF Discard, DispatchLost, JobEnds
<1>4. CASE Start(t) /\ ~HasLease(t)
  BY <1>4, JobIsOver DEF Start
<1>5. CASE Start(t) /\ HasLease(t)
  <2> DEFINE x == [[job[t] EXCEPT !.pc = "fetch"] EXCEPT !.known = row[job[t].res].version]
  <2>1. row[job[t].res].version \in Versions
    BY <1>1 DEF TypeOK, Job, Row
  <2>2. x \in Job /\ x.pc = "fetch" /\ x.res = job[t].res /\ x.policy = job[t].policy
    BY <1>1, <2>1 DEF Job
  <2>3. job' = [job EXCEPT ![t] = x] /\ UNCHANGED <<row, page, asks>> /\ job[t].pc # "none"
    BY <1>5 DEF Start
  <2> HIDE DEF x
  <2> QED
    BY <2>2, <2>3, JobMovesBy
<1>6. CASE Fetch(t)
  <2>1. page[job[t].res] \in Versions
    BY <1>1 DEF TypeOK, Job
  <2>2. PICK a \in {"content", "same"} :
          job' = [job EXCEPT ![t] = [[[job[t] EXCEPT !.pc = "apply"] EXCEPT !.answer = a]
                                                  EXCEPT !.got = page[job[t].res]]]
    BY <1>6 DEF Fetch
  <2> DEFINE x == [[[job[t] EXCEPT !.pc = "apply"] EXCEPT !.answer = a]
                             EXCEPT !.got = page[job[t].res]]
  <2>3. /\ x \in Job /\ x.res = job[t].res /\ x.policy = job[t].policy
        /\ x.got = page[job[t].res]
    BY <1>1, <2>1 DEF Job, Answers
  <2>4. job' = [job EXCEPT ![t] = x] /\ UNCHANGED <<row, page, asks>> /\ job[t].pc # "none"
    BY <1>6, <2>2 DEF Fetch
  <2> HIDE DEF x
  <2> QED
    BY <2>3, <2>4, JobMovesBy
<1>7. CASE FetchFails(t)
  <2>1. PICK a \in Errors :
          job' = [job EXCEPT ![t] = [[job[t] EXCEPT !.pc = "apply"] EXCEPT !.answer = a]]
    BY <1>7 DEF FetchFails
  <2> DEFINE x == [[job[t] EXCEPT !.pc = "apply"] EXCEPT !.answer = a]
  <2>2. /\ x \in Job /\ x.res = job[t].res /\ x.policy = job[t].policy
        /\ x.answer # "content"
    BY <1>1 DEF Job, Answers, Errors
  <2>3. job' = [job EXCEPT ![t] = x] /\ UNCHANGED <<row, page, asks>> /\ job[t].pc # "none"
    BY <1>7, <2>1 DEF FetchFails
  <2> HIDE DEF x
  <2> QED
    BY <2>2, <2>3, JobMovesBy
<1>8. CASE WorkerCrash(t)
  <2> DEFINE x == [[[NoJob EXCEPT !.pc = "queued"] EXCEPT !.res = job[t].res]
                                                   EXCEPT !.policy = job[t].policy]
  <2>1. x \in Job /\ x.pc = "queued" /\ x.res = job[t].res /\ x.policy = job[t].policy
    BY <1>1, NoJobType DEF Job
  <2>2. job' = [job EXCEPT ![t] = x] /\ UNCHANGED <<row, page, asks>> /\ job[t].pc # "none"
    BY <1>8 DEF WorkerCrash
  <2> HIDE DEF x
  <2> QED
    BY <2>1, <2>2, JobMovesBy
<1> QED
  BY <1>2, <1>3, <1>4, <1>5, <1>6, <1>7, <1>8

\* A request knows its token as long as it is under way; while it has not enqueued its
\* job, nobody else does; and a token is of one request.
AskOwns ==
    /\ \A o \in Operators : ask[o].token = NoToken <=> ask[o].pc = "idle"
    /\ \A o \in Operators : ask[o].pc = "enqueue" => job[ask[o].token].pc = "claimed"
    /\ \A o, q \in Operators : ask[o].token = ask[q].token /\ ask[o].token # NoToken => o = q

LEMMA RequestStepCases ==
    ASSUME TypeOK, AskOwns, NEW o \in Operators,
           RefreshEnqueue(o) \/ RefreshEnqueueError(o) \/ RefreshCrash(o)
    PROVE  \/ UNCHANGED <<row, job, page, asks>>
           \/ \E t \in Tokens : JobMoves(t)
<1> DEFINE t == ask[o].token
<1>1. CASE ask[o].pc = "enqueue"
  <2>1. t \in Tokens /\ job[t].pc = "claimed"
    BY <1>1 DEF AskOwns, TypeOK, Ask
  <2>2. UNCHANGED <<row, page, asks>>
    BY DEF RefreshEnqueue, RefreshEnqueueError, RefreshCrash
  <2>3. job' = [job EXCEPT ![t].pc = "queued"] \/ job' = [job EXCEPT ![t] = NoJob]
    BY <1>1 DEF RefreshEnqueue, RefreshEnqueueError, RefreshCrash
  <2> HIDE DEF t
  <2> QED
    BY <2>1, <2>2, <2>3, JobIsQueued, JobIsOver
<1>2. CASE ask[o].pc # "enqueue"
  BY <1>2 DEF RefreshEnqueue, RefreshEnqueueError, RefreshCrash
<1> QED
  BY <1>1, <1>2

\* A lease is granted ...
Granted(r, t) ==
    /\ Unused(t)
    /\ row' \in [Resources -> Row] /\ job' \in [Tokens -> Job]
    /\ row'[r].token = t
    /\ row'[r].version = row[r].version
    /\ row'[r].status = row[r].status /\ row[r].status \notin {"paused", "gone"}
    /\ job'[t].pc = "claimed" /\ job'[t].res = r /\ job'[t].policy = row'[r].policy
    /\ \A q \in Resources \ {r} : row'[q] = row[q]
    /\ \A u \in Tokens \ {t} : job'[u] = job[u]
    /\ UNCHANGED page

\* ... and used.
Applied(t) ==
    LET r == job[t].res IN
    /\ job[t].pc = "apply"
    /\ row[r].token = t
    /\ row' \in [Resources -> Row] /\ job' \in [Tokens -> Job]
    /\ row'[r].token = NoToken
    /\ row'[r].version = row[r].version \/ (job[t].answer = "content" /\ row'[r].version = job[t].got)
    /\ job'[t].pc = "none"
    /\ \A q \in Resources \ {r} : row'[q] = row[q]
    /\ \A u \in Tokens \ {t} : job'[u] = job[u]
    /\ UNCHANGED <<page, asks>>

LEMMA GrantStep ==
    ASSUME TypeOK, NEW r \in Resources, NEW t \in Tokens,
           Claim(r, t) \/ \E o \in Operators : Refresh(o, r, t)
    PROVE  Granted(r, t)
<1> DEFINE y == Leased(row[r], t)
<1>1. row[r] \in Row /\ job[t] \in Job
  BY DEF TypeOK
<1>2. y \in Row /\ y.token = t /\ y.status = row[r].status /\ y.policy = row[r].policy /\ y.version = row[r].version
  BY <1>1, LeasedType
<1> HIDE DEF y
<1>3. [y EXCEPT !.due = "now"] \in Row
  BY <1>2 DEF Row
<1>4. PICK x \in {y, [y EXCEPT !.due = "now"]} : row' = [row EXCEPT ![r] = x]
  BY DEF Claim, Refresh, y
<1>5. /\ x \in Row /\ x.token = t /\ x.status = row[r].status
      /\ x.policy = row[r].policy /\ x.version = row[r].version
  BY <1>2, <1>3, <1>4 DEF Row
<1> DEFINE j == JobFor(r, t, "claimed")
<1>6. job' = [job EXCEPT ![t] = j] /\ Unused(t) /\ UNCHANGED page
  BY DEF Claim, Refresh
<1>7. j \in Job /\ j.pc = "claimed" /\ j.res = r /\ j.policy = row[r].policy
  BY JobForType DEF TypeOK
<1> HIDE DEF j
<1>8. row[r].status \notin {"paused", "gone"}
  BY DEF Claim, Refresh, Due
<1> QED
  BY <1>4, <1>5, <1>6, <1>7, <1>8 DEF TypeOK, Granted

LEMMA ApplyStep ==
    ASSUME TypeOK, NEW t \in Tokens, Apply(t)
    PROVE  Applied(t)
<1> DEFINE r == job[t].res
           y == Observed(row[r], job[t])
           x == Unleased(y)
<1>1. job[t] \in Job /\ r \in Resources /\ row[r] \in Row
  BY DEF TypeOK, Job
<1>2. y \in Row /\ (y.version = row[r].version \/ (job[t].answer = "content" /\ y.version = job[t].got))
  BY <1>1, ObservedType
<1>3. x \in Row /\ x.token = NoToken /\ x.version = y.version
  BY <1>2, UnleasedType
<1>4. /\ row' = [row EXCEPT ![r] = x] /\ job' = [job EXCEPT ![t] = NoJob]
      /\ job[t].pc = "apply" /\ row[r].token = t /\ UNCHANGED <<page, asks>>
  BY DEF Apply, HasLease
<1> HIDE DEF x, y
<1> QED
  BY <1>1, <1>2, <1>3, <1>4, NoJobType DEF TypeOK, Applied

-----------------------------------------------------------------------------
(* The invariant of leases *)

Leases == TypeOK /\ NoLeaseAtRest /\ LeasesDiffer /\ AskOwns /\ LeaseHasItsPolicy

LEMMA StepCases ==
    ASSUME TypeOK, NoLeaseAtRest, LeasesDiffer, AskOwns, [Next]_vars
    PROVE  \/ UNCHANGED <<row, job>>
           \/ \E r \in Resources : RowStep(r)
           \/ \E t \in Tokens : JobMoves(t)
           \/ \E r \in Resources, t \in Tokens : Granted(r, t)
           \/ \E t \in Tokens : Applied(t)
<1>1. CASE UNCHANGED vars
  BY <1>1 DEF vars
<1>2. ASSUME NEW r \in Resources,
             \/ PageChanges(r) \/ FallsDue(r) \/ LeaseExpires(r) \/ LeaseOutrun(r)
             \/ \E p \in Policies : SetPolicy(r, p)
             \/ Pause(r) \/ Resume(r) \/ Restore(r)
      PROVE  UNCHANGED <<row, job>> \/ RowStep(r)
  <2>1. CASE PageChanges(r)
    BY <2>1 DEF PageChanges
  <2> QED
    BY <1>2, <2>1, ClockStep, OperatorStep
<1>3. ASSUME NEW r \in Resources, NEW t \in Tokens, Claim(r, t) \/ \E o \in Operators : Refresh(o, r, t)
      PROVE  Granted(r, t)
  BY <1>3, GrantStep
<1>4. ASSUME NEW t \in Tokens,
             \/ DispatchEnqueue(t) \/ Start(t) \/ Fetch(t) \/ Apply(t) \/ Discard(t)
             \/ DispatchLost(t) \/ FetchFails(t) \/ JobEnds(t) \/ WorkerCrash(t)
      PROVE  JobMoves(t) \/ Applied(t)
  BY <1>4, WorkStep, ApplyStep
<1>5. ASSUME NEW o \in Operators,
             \/ RefreshEnqueue(o) \/ RefreshCancel(o) \/ RefreshEnqueueError(o) \/ RefreshCrash(o)
      PROVE  \/ UNCHANGED <<row, job>>
             \/ \E r \in Resources : RowStep(r)
             \/ \E t \in Tokens : JobMoves(t)
  <2>1. CASE RefreshCancel(o)
    <3>1. ask[o].token # NoToken
      BY <2>1 DEF AskOwns, RefreshCancel
    <3> QED
      BY <2>1, <3>1, CancelStep
  <2>2. CASE RefreshEnqueue(o) \/ RefreshEnqueueError(o) \/ RefreshCrash(o)
    BY <2>2, RequestStepCases
  <2> QED
    BY <1>5, <2>1, <2>2
<1>6. CASE Next
  BY <1>2, <1>3, <1>4, <1>5, <1>6, NextCases, Zenon
<1> QED
  BY <1>1, <1>6

\* The page only goes forward.
LEMMA PageGrows ==
    ASSUME TypeOK, [Next]_vars
    PROVE  page' \in [Resources -> Versions] /\ \A r \in Resources : page'[r] >= page[r]
<1>1. ASSUME NEW r \in Resources, PageChanges(r)
      PROVE  page' \in [Resources -> Versions] /\ \A q \in Resources : page'[q] >= page[q]
  BY <1>1, BoundAssumption DEF PageChanges, TypeOK, Versions
<1>2. CASE UNCHANGED page
  BY <1>2, BoundAssumption DEF TypeOK, Versions
<1>3. (\E r \in Resources : PageChanges(r)) \/ UNCHANGED page
  <2>1. CASE UNCHANGED vars
    BY <2>1 DEF vars
  <2>2. CASE Next
    BY <2>2, NextCases
       DEF FallsDue, LeaseExpires, LeaseOutrun, SetPolicy, Pause, Resume, Restore, Act, Claim,
           Refresh, DispatchEnqueue, Start, Fetch, Apply, Discard, DispatchLost, FetchFails,
           JobEnds, WorkerCrash, RefreshEnqueue, RefreshCancel, RefreshEnqueueError, RefreshCrash
  <2> QED
    BY <2>1, <2>2
<1> QED
  BY <1>1, <1>2, <1>3

\* Asks and faults count up to their bounds.
LEMMA Counts ==
    ASSUME TypeOK, [Next]_vars
    PROVE  asks' \in 0 .. MaxAsks /\ faults' \in 0 .. MaxFaults
<1>1. (asks < MaxAsks /\ asks' = asks + 1) \/ UNCHANGED asks
  <2>1. CASE UNCHANGED vars
    BY <2>1 DEF vars
  <2>2. CASE Next
    BY <2>2, NextCases
       DEF PageChanges, FallsDue, LeaseExpires, LeaseOutrun, SetPolicy, Pause, Resume, Restore, Act,
           Claim, Refresh, DispatchEnqueue, Start, Fetch, Apply, Discard, DispatchLost, FetchFails,
           JobEnds, WorkerCrash, RefreshEnqueue, RefreshCancel, RefreshEnqueueError, RefreshCrash,
           Asked
  <2> QED
    BY <2>1, <2>2
<1>2. Fault \/ UNCHANGED faults
  <2>1. CASE UNCHANGED vars
    BY <2>1 DEF vars
  <2>2. CASE Next
    BY <2>2, NextCases
       DEF PageChanges, FallsDue, LeaseExpires, LeaseOutrun, SetPolicy, Pause, Resume, Restore, Act,
           Claim, Refresh, DispatchEnqueue, Start, Fetch, Apply, Discard, DispatchLost, FetchFails,
           JobEnds, WorkerCrash, RefreshEnqueue, RefreshCancel, RefreshEnqueueError, RefreshCrash
  <2> QED
    BY <2>1, <2>2
<1> QED
  BY <1>1, <1>2, BoundAssumption DEF TypeOK, Fault

\* What a request does to its own record.
LEMMA AskCases ==
    ASSUME TypeOK, [Next]_vars
    PROVE  \/ UNCHANGED ask
           \/ \E o \in Operators, r \in Resources, t \in Tokens :
                 Granted(r, t) /\ ask' = [ask EXCEPT ![o] = [pc |-> "enqueue", token |-> t]]
           \/ \E o \in Operators : ask' = [ask EXCEPT ![o] = IdleAsk]
           \/ \E o \in Operators : ask[o].pc = "enqueue" /\ ask' = [ask EXCEPT ![o].pc = "cancel"]
<1>1. CASE UNCHANGED vars
  BY <1>1 DEF vars
<1>2. ASSUME NEW r \in Resources, NEW t \in Tokens, NEW o \in Operators, Refresh(o, r, t)
      PROVE  Granted(r, t) /\ ask' = [ask EXCEPT ![o] = [pc |-> "enqueue", token |-> t]]
  BY <1>2, GrantStep DEF Refresh
<1>3. ASSUME NEW r \in Resources,
             \/ PageChanges(r) \/ FallsDue(r) \/ LeaseExpires(r) \/ LeaseOutrun(r)
             \/ \E p \in Policies : SetPolicy(r, p)
             \/ Pause(r) \/ Resume(r) \/ Restore(r)
             \/ \E t \in Tokens : Claim(r, t)
      PROVE  UNCHANGED ask
  BY <1>3 DEF PageChanges, FallsDue, LeaseExpires, LeaseOutrun, SetPolicy, Pause, Resume,
              Restore, Act, Claim
<1>4. ASSUME NEW t \in Tokens,
             \/ DispatchEnqueue(t) \/ Start(t) \/ Fetch(t) \/ Apply(t) \/ Discard(t)
             \/ DispatchLost(t) \/ FetchFails(t) \/ JobEnds(t) \/ WorkerCrash(t)
      PROVE  UNCHANGED ask
  BY <1>4 DEF DispatchEnqueue, Start, Fetch, Apply, Discard, DispatchLost, FetchFails, JobEnds,
              WorkerCrash
<1>5. ASSUME NEW o \in Operators,
             \/ RefreshEnqueue(o) \/ RefreshCancel(o) \/ RefreshEnqueueError(o) \/ RefreshCrash(o)
      PROVE  \/ ask' = [ask EXCEPT ![o] = IdleAsk]
             \/ ask[o].pc = "enqueue" /\ ask' = [ask EXCEPT ![o].pc = "cancel"]
  BY <1>5 DEF RefreshEnqueue, RefreshCancel, RefreshEnqueueError, RefreshCrash
<1>6. CASE Next
  BY <1>2, <1>3, <1>4, <1>5, <1>6, NextCases
<1> QED
  BY <1>1, <1>6

\* Nobody touches the job of a request that has not enqueued it yet.
LEMMA ClaimStays ==
    ASSUME TypeOK, AskOwns, [Next]_vars, NEW o \in Operators,
           ask[o].pc = "enqueue", ask'[o].pc = "enqueue"
    PROVE  job'[ask[o].token] = job[ask[o].token]
<1> DEFINE u == ask[o].token
<1>1. u \in Tokens /\ job[u].pc = "claimed" /\ u # NoToken
  BY TokenAssumption DEF AskOwns, TypeOK, Ask
<1>2. CASE UNCHANGED vars
  BY <1>2 DEF vars
<1>3. ASSUME NEW r \in Resources,
             \/ PageChanges(r) \/ FallsDue(r) \/ LeaseExpires(r) \/ LeaseOutrun(r)
             \/ \E p \in Policies : SetPolicy(r, p)
             \/ Pause(r) \/ Resume(r) \/ Restore(r)
      PROVE  UNCHANGED job
  BY <1>3 DEF PageChanges, FallsDue, LeaseExpires, LeaseOutrun, SetPolicy, Pause, Resume, Restore, Act
<1>4. ASSUME NEW r \in Resources, NEW t \in Tokens, Claim(r, t) \/ \E q \in Operators : Refresh(q, r, t)
      PROVE  job'[u] = job[u]
  BY <1>1, <1>4, GrantStep DEF Granted, Unused
<1>5. ASSUME NEW t \in Tokens, DispatchEnqueue(t) \/ DispatchLost(t)
      PROVE  job'[u] = job[u]
  <2>1. t # u
    BY <1>5 DEF DispatchEnqueue, DispatchLost
  <2>2. JobMoves(t)
    BY <1>5, WorkStep
  <2> QED
    BY <1>1, <2>1, <2>2 DEF JobMoves
<1>6. ASSUME NEW t \in Tokens,
             \/ Start(t) \/ Fetch(t) \/ Apply(t) \/ Discard(t)
             \/ FetchFails(t) \/ JobEnds(t) \/ WorkerCrash(t)
      PROVE  job'[u] = job[u]
  <2>1. job[t].pc # "claimed"
    BY <1>6 DEF Start, Fetch, Apply, Discard, FetchFails, JobEnds, WorkerCrash
  <2>2. t # u
    BY <1>1, <2>1
  <2>3. JobMoves(t) \/ Applied(t)
    BY <1>6, WorkStep, ApplyStep
  <2> QED
    BY <1>1, <2>2, <2>3 DEF JobMoves, Applied
<1>7. ASSUME NEW q \in Operators,
             RefreshEnqueue(q) \/ RefreshCancel(q) \/ RefreshEnqueueError(q) \/ RefreshCrash(q)
      PROVE  job'[u] = job[u]
  <2>1. q # o
    <3>1. ask[q].pc = "enqueue" => ask'[q].pc # "enqueue"
      BY <1>7, IdleAskType DEF RefreshEnqueue, RefreshCancel, RefreshEnqueueError, RefreshCrash, TypeOK, Ask
    <3> QED
      BY <3>1
  <2>2. ask[q].token # u
    BY <1>1, <2>1 DEF AskOwns
  <2>3. \/ UNCHANGED job
        \/ job' = [job EXCEPT ![ask[q].token].pc = "queued"]
        \/ job' = [job EXCEPT ![ask[q].token] = NoJob]
    BY <1>7 DEF RefreshEnqueue, RefreshCancel, RefreshEnqueueError, RefreshCrash
  <2> QED
    BY <1>1, <2>2, <2>3 DEF TypeOK
<1>8. CASE Next
  BY <1>3, <1>4, <1>5, <1>6, <1>7, <1>8, NextCases
<1> QED
  BY <1>2, <1>8

LEMMA AskNext ==
    ASSUME TypeOK, AskOwns, [Next]_vars
    PROVE  ask' \in [Operators -> Ask] /\ AskOwns'
<1>1. CASE UNCHANGED ask
  <2>1. \A o \in Operators : ask[o].pc = "enqueue" => job'[ask[o].token] = job[ask[o].token]
    BY <1>1, ClaimStays
  <2> QED
    BY <1>1, <2>1 DEF AskOwns, TypeOK
<1>2. ASSUME NEW o \in Operators, NEW r \in Resources, NEW t \in Tokens,
             Granted(r, t), ask' = [ask EXCEPT ![o] = [pc |-> "enqueue", token |-> t]]
      PROVE  ask' \in [Operators -> Ask] /\ AskOwns'
  <2>1. [pc |-> "enqueue", token |-> t] \in Ask
    BY DEF Ask
  <2>2. ask' \in [Operators -> Ask]
    BY <1>2, <2>1 DEF TypeOK
  <2>3. ask'[o].pc = "enqueue" /\ ask'[o].token = t
    BY <1>2 DEF TypeOK
  <2>4. \A q \in Operators : q # o => ask'[q] = ask[q]
    BY <1>2 DEF TypeOK
  <2>5. \A q \in Operators : q # o /\ ask[q].pc = "enqueue" => job'[ask[q].token] = job[ask[q].token]
    BY <2>4, ClaimStays
  <2>6. job'[t].pc = "claimed" /\ t # NoToken /\ \A q \in Operators : ask[q].token # t
    BY <1>2, TokenAssumption DEF Granted, Unused
  <2> QED
    BY <2>2, <2>3, <2>4, <2>5, <2>6 DEF AskOwns
<1>3. ASSUME NEW o \in Operators, ask' = [ask EXCEPT ![o] = IdleAsk]
      PROVE  ask' \in [Operators -> Ask] /\ AskOwns'
  <2>1. ask' \in [Operators -> Ask]
    BY <1>3, IdleAskType DEF TypeOK
  <2>2. ask'[o].pc = "idle" /\ ask'[o].token = NoToken
    BY <1>3, IdleAskType DEF TypeOK
  <2>3. \A q \in Operators : q # o => ask'[q] = ask[q]
    BY <1>3 DEF TypeOK
  <2>4. \A q \in Operators : q # o /\ ask[q].pc = "enqueue" => job'[ask[q].token] = job[ask[q].token]
    BY <2>3, ClaimStays
  <2> QED
    BY <2>1, <2>2, <2>3, <2>4 DEF AskOwns
<1>4. ASSUME NEW o \in Operators, ask[o].pc = "enqueue", ask' = [ask EXCEPT ![o].pc = "cancel"]
      PROVE  ask' \in [Operators -> Ask] /\ AskOwns'
  <2> DEFINE a == [ask[o] EXCEPT !.pc = "cancel"]
  <2>1. a \in Ask /\ a.pc = "cancel" /\ a.token = ask[o].token
    BY DEF TypeOK, Ask
  <2>2. ask' = [ask EXCEPT ![o] = a]
    BY <1>4
  <2> HIDE DEF a
  <2>3. ask' \in [Operators -> Ask] /\ ask'[o] = a
    BY <2>1, <2>2 DEF TypeOK
  <2>4. \A q \in Operators : q # o => ask'[q] = ask[q]
    BY <2>2 DEF TypeOK
  <2>5. \A q \in Operators : q # o /\ ask[q].pc = "enqueue" => job'[ask[q].token] = job[ask[q].token]
    BY <2>4, ClaimStays
  <2> QED
    BY <1>4, <2>1, <2>3, <2>4, <2>5 DEF AskOwns
<1> QED
  BY <1>1, <1>2, <1>3, <1>4, AskCases

LEMMA TypeNext ==
    ASSUME TypeOK, NoLeaseAtRest, LeasesDiffer, AskOwns, [Next]_vars
    PROVE  TypeOK'
<1>1. row' \in [Resources -> Row]
  BY StepCases DEF TypeOK, RowStep, JobMoves, Granted, Applied
<1>2. job' \in [Tokens -> Job]
  BY StepCases DEF TypeOK, RowStep, JobMoves, Granted, Applied
<1> QED
  BY <1>1, <1>2, AskNext, PageGrows, Counts DEF TypeOK

LEMMA LeasesNext ==
    ASSUME Leases, [Next]_vars
    PROVE  Leases'
<1>0. TypeOK /\ NoLeaseAtRest /\ LeasesDiffer /\ AskOwns /\ LeaseHasItsPolicy
  BY DEF Leases
<1>1. TypeOK' /\ AskOwns'
  BY <1>0, TypeNext, AskNext
<1>2. NoToken \notin Tokens
  BY TokenAssumption
<1>3. CASE UNCHANGED <<row, job>>
  <2>1. row' = row /\ job' = job
    BY <1>3
  <2>2. NoLeaseAtRest' /\ LeasesDiffer'
    BY <1>0, <2>1 DEF NoLeaseAtRest, LeasesDiffer
  <2>3. LeaseHasItsPolicy'
    BY <1>0, <2>1 DEF LeaseHasItsPolicy
  <2> QED
    BY <1>0, <1>1, <2>2, <2>3 DEF Leases
<1>4. ASSUME NEW r \in Resources, RowStep(r)
      PROVE  NoLeaseAtRest' /\ LeasesDiffer' /\ LeaseHasItsPolicy'
  <2>1. NoLeaseAtRest'
    BY <1>0, <1>4 DEF NoLeaseAtRest, RowStep, RowKept
  <2>2. LeasesDiffer'
    BY <1>0, <1>4 DEF LeasesDiffer, RowStep, RowKept
  <2>3. LeaseHasItsPolicy'
    <3> SUFFICES ASSUME NEW t \in Tokens, job'[t].pc # "none", row'[job'[t].res].token = t
                 PROVE  job'[t].policy = row'[job'[t].res].policy
      BY DEF LeaseHasItsPolicy
    <3>1. job' = job /\ job[t].res \in Resources
      BY <1>0, <1>4 DEF RowStep, TypeOK, Job
    <3>2. row'[job[t].res].token = row[job[t].res].token /\ row'[job[t].res].policy = row[job[t].res].policy
      BY <1>2, <1>4, <3>1 DEF RowStep, RowKept
    <3> QED
      BY <1>0, <3>1, <3>2 DEF LeaseHasItsPolicy
  <2> QED
    BY <2>1, <2>2, <2>3
<1>5. ASSUME NEW t \in Tokens, JobMoves(t)
      PROVE  NoLeaseAtRest' /\ LeasesDiffer' /\ LeaseHasItsPolicy'
  BY <1>0, <1>5 DEF NoLeaseAtRest, LeasesDiffer, LeaseHasItsPolicy, JobMoves
<1>6. ASSUME NEW r \in Resources, NEW t \in Tokens, Granted(r, t)
      PROVE  NoLeaseAtRest' /\ LeasesDiffer' /\ LeaseHasItsPolicy'
  <2>1. NoLeaseAtRest'
    BY <1>0, <1>6 DEF NoLeaseAtRest, Granted
  <2>2. LeasesDiffer'
    BY <1>0, <1>6 DEF LeasesDiffer, Granted, Unused
  <2>3. LeaseHasItsPolicy'
    <3> SUFFICES ASSUME NEW u \in Tokens, job'[u].pc # "none", row'[job'[u].res].token = u
                 PROVE  job'[u].policy = row'[job'[u].res].policy
      BY DEF LeaseHasItsPolicy
    <3>1. CASE u = t
      BY <1>6, <3>1 DEF Granted
    <3>2. CASE u # t
      <4>1. job'[u] = job[u] /\ job[u].res \in Resources
        BY <1>0, <1>6, <3>2 DEF Granted, TypeOK, Job
      <4>2. job[u].res # r
        BY <1>6, <3>2, <4>1 DEF Granted
      <4>3. row'[job[u].res] = row[job[u].res]
        BY <1>6, <4>1, <4>2 DEF Granted
      <4> QED
        BY <1>0, <4>1, <4>3 DEF LeaseHasItsPolicy
    <3> QED
      BY <3>1, <3>2
  <2> QED
    BY <2>1, <2>2, <2>3
<1>7. ASSUME NEW t \in Tokens, Applied(t)
      PROVE  NoLeaseAtRest' /\ LeasesDiffer' /\ LeaseHasItsPolicy'
  <2>0. job[t].res \in Resources
    BY <1>0 DEF TypeOK, Job
  <2>1. NoLeaseAtRest'
    BY <1>0, <1>7, <2>0 DEF NoLeaseAtRest, Applied
  <2>2. LeasesDiffer'
    BY <1>0, <1>7, <2>0 DEF LeasesDiffer, Applied
  <2>3. LeaseHasItsPolicy'
    <3> SUFFICES ASSUME NEW u \in Tokens, job'[u].pc # "none", row'[job'[u].res].token = u
                 PROVE  job'[u].policy = row'[job'[u].res].policy
      BY DEF LeaseHasItsPolicy
    <3>1. u # t /\ job'[u] = job[u] /\ job[u].res \in Resources
      BY <1>0, <1>7 DEF Applied, TypeOK, Job
    <3>2. job[u].res # job[t].res
      BY <1>2, <1>7, <3>1 DEF Applied
    <3>3. row'[job[u].res] = row[job[u].res]
      BY <1>7, <3>1, <3>2 DEF Applied
    <3> QED
      BY <1>0, <3>1, <3>3 DEF LeaseHasItsPolicy
  <2> QED
    BY <2>1, <2>2, <2>3
<1> QED
  BY <1>0, <1>1, <1>3, <1>4, <1>5, <1>6, <1>7, StepCases DEF Leases

LEMMA LeasesInit ==
    ASSUME Init
    PROVE  Leases
<1>1. Canary \in Row /\ Canary.status = "active" /\ Canary.token = NoToken
  BY BoundAssumption DEF Canary, Row, Statuses, Policies, Versions
<1>2. Enrolled \in Row /\ Enrolled.status = "active" /\ Enrolled.token = NoToken
  BY <1>1 DEF Enrolled, Row, Policies
<1>3. row \in [Resources -> Row] /\ \A r \in Resources : row[r].token = NoToken
  BY <1>1, <1>2 DEF Init
<1>4. TypeOK
  BY <1>3, NoJobType, IdleAskType, BoundAssumption DEF Init, TypeOK, Versions
<1>5. AskOwns
  BY IdleAskType DEF Init, AskOwns
<1>6. LeaseHasItsPolicy
  BY NoJobType DEF Init, LeaseHasItsPolicy
<1> QED
  BY <1>3, <1>4, <1>5, <1>6 DEF Leases, NoLeaseAtRest, LeasesDiffer

\* In every reachable state every variable has its type.
THEOREM TypeCorrect == Spec => []TypeOK
<1>1. Leases /\ [Next]_vars => Leases'
  BY LeasesNext
<1> QED
  BY LeasesInit, <1>1, PTL DEF Spec, Leases

LEMMA LeasesAlways == Spec => []Leases
<1>1. Leases /\ [Next]_vars => Leases'
  BY LeasesNext
<1> QED
  BY LeasesInit, <1>1, PTL DEF Spec

\* apply_operator_policy_update revokes the lease: no refresh is applied under a policy
\* other than that of its lease.
THEOREM LeasesKeepTheirPolicy == Spec => []LeaseHasItsPolicy
BY LeasesAlways, PTL DEF Leases

\* A paused or tombstoned resource has no lease, so no answer that is under way can
\* revive it: only operators do.
THEOREM RevivedByOperators == Spec => OnlyOperatorsRevive
<1>1. Leases /\ [Next]_vars =>
        [\A r \in Resources :
            /\ row[r].status \in {"paused", "gone"}
            /\ asks' = asks
            => /\ row'[r].status = row[r].status
               /\ row'[r].version = row[r].version]_vars
  <2> SUFFICES ASSUME Leases, [Next]_vars, NEW r \in Resources,
                      row[r].status \in {"paused", "gone"}, asks' = asks
               PROVE  row'[r].status = row[r].status /\ row'[r].version = row[r].version
    OBVIOUS
  <2>1. TypeOK /\ NoLeaseAtRest /\ LeasesDiffer /\ AskOwns
    BY DEF Leases
  <2>2. row[r].token = NoToken /\ NoToken \notin Tokens
    BY <2>1, TokenAssumption DEF NoLeaseAtRest
  <2>3. CASE UNCHANGED <<row, job>>
    BY <2>3
  <2>4. ASSUME NEW q \in Resources, RowStep(q)
        PROVE  row'[r].status = row[r].status /\ row'[r].version = row[r].version
    BY <2>4 DEF RowStep, RowKept
  <2>5. ASSUME NEW t \in Tokens, JobMoves(t)
        PROVE  row' = row
    BY <2>5 DEF JobMoves
  <2>6. ASSUME NEW q \in Resources, NEW t \in Tokens, Granted(q, t)
        PROVE  row'[r] = row[r]
    BY <2>6 DEF Granted
  <2>7. ASSUME NEW t \in Tokens, Applied(t)
        PROVE  row'[r] = row[r]
    BY <2>2, <2>7 DEF Applied
  <2> QED
    BY <2>1, <2>3, <2>4, <2>5, <2>6, <2>7, StepCases
<1> QED
  BY LeasesAlways, <1>1, PTL DEF Spec, OnlyOperatorsRevive

-----------------------------------------------------------------------------
(* Content goes forward *)

\* What is stored was served; so is what a job brings; and a job that still has its
\* lease brings nothing older than what is stored.
Served ==
    /\ \A r \in Resources : row[r].version <= page[r]
    /\ \A t \in Tokens :
          job[t].pc = "apply" /\ job[t].answer = "content" =>
             /\ job[t].got <= page[job[t].res]
             /\ row[job[t].res].token = t => row[job[t].res].version <= job[t].got

LEMMA ServedInit ==
    ASSUME Init
    PROVE  Served
<1>0. Canary.version = 0 /\ Enrolled.version = 0
  BY DEF Canary, Enrolled
<1>1. \A r \in Resources : row[r].version = 0 /\ page[r] = 1
  BY <1>0 DEF Init
<1>2. \A t \in Tokens : job[t].pc = "none"
  BY NoJobType DEF Init
<1> QED
  BY <1>1, <1>2 DEF Served

\* The parts of Served, to be used one by one.
RowServed(r) == row[r].version <= page[r]
JobServed(t) ==
    job[t].pc = "apply" /\ job[t].answer = "content" =>
       /\ job[t].got <= page[job[t].res]
       /\ row[job[t].res].token = t => row[job[t].res].version <= job[t].got

LEMMA ServedNext ==
    ASSUME Leases, Leases', Served, [Next]_vars
    PROVE  Served'
<1>0. TypeOK /\ TypeOK' /\ NoLeaseAtRest /\ LeasesDiffer /\ AskOwns /\ NoToken \notin Tokens
  BY TokenAssumption DEF Leases
<1>1. ASSUME NEW r \in Resources
      PROVE  /\ row[r].version \in Int /\ row'[r].version \in Int
             /\ page[r] \in Int /\ page'[r] \in Int
             /\ row[r].version <= page[r] /\ page[r] <= page'[r]
  BY <1>0, PageGrows, BoundAssumption DEF TypeOK, Row, Versions, Served
<1>2. ASSUME NEW t \in Tokens
      PROVE  /\ job[t].got \in Int /\ job'[t].got \in Int
             /\ job[t].res \in Resources /\ job'[t].res \in Resources
  BY <1>0, BoundAssumption DEF TypeOK, Job, Versions
<1>3. ASSUME NEW t \in Tokens, job[t].pc = "apply", job[t].answer = "content"
      PROVE  /\ job[t].got <= page[job[t].res]
             /\ row[job[t].res].token = t => row[job[t].res].version <= job[t].got
  BY <1>3 DEF Served
<1>4. ASSUME NEW t \in Tokens, job'[t] = job[t],
             \/ row'[job[t].res].version = row[job[t].res].version
             \/ row'[job[t].res].token # t,
             row'[job[t].res].token = t => row[job[t].res].token = t
      PROVE  JobServed(t)'
  <2> DEFINE r == job[t].res
  <2>1. r \in Resources /\ job[t].got \in Int
    BY <1>2
  <2>2. page[r] \in Int /\ page'[r] \in Int /\ page[r] <= page'[r]
    BY <1>1, <2>1
  <2> HIDE DEF r
  <2>3. ASSUME job[t].pc = "apply", job[t].answer = "content"
        PROVE  /\ job[t].got <= page'[r]
               /\ row'[r].token = t => row'[r].version <= job[t].got
    BY <1>3, <1>4, <2>1, <2>2, <2>3 DEF r
  <2> QED
    BY <1>4, <2>3 DEF JobServed, r
<1>5. CASE UNCHANGED <<row, job>>
  <2>1. \A r \in Resources : RowServed(r)'
    BY <1>1, <1>5 DEF RowServed
  <2>2. \A t \in Tokens : JobServed(t)'
    BY <1>4, <1>5
  <2> QED
    BY <2>1, <2>2 DEF Served, RowServed, JobServed
<1>6. ASSUME NEW q \in Resources, RowStep(q)
      PROVE  Served'
  <2>1. \A r \in Resources : row'[r].version = row[r].version
    BY <1>6 DEF RowStep, RowKept
  <2>2. \A r \in Resources : row'[r].token # NoToken => row'[r].token = row[r].token
    BY <1>6 DEF RowStep, RowKept
  <2>3. \A r \in Resources : RowServed(r)'
    BY <1>1, <2>1 DEF RowServed
  <2>4. ASSUME NEW t \in Tokens
        PROVE  JobServed(t)'
    <3>1. job'[t] = job[t] /\ job[t].res \in Resources
      BY <1>2, <1>6 DEF RowStep
    <3> QED
      BY <1>0, <1>4, <2>1, <2>2, <3>1
  <2> QED
    BY <2>3, <2>4 DEF Served, RowServed, JobServed
<1>7. ASSUME NEW u \in Tokens, JobMoves(u)
      PROVE  Served'
  <2>1. row' = row /\ page' = page /\ \A t \in Tokens \ {u} : job'[t] = job[t]
    BY <1>7 DEF JobMoves
  <2>2. \A r \in Resources : RowServed(r)'
    BY <1>1, <2>1 DEF RowServed
  <2>3. ASSUME NEW t \in Tokens
        PROVE  JobServed(t)'
    <3>1. CASE t # u
      BY <1>4, <2>1, <3>1
    <3>2. CASE t = u
      <4> DEFINE r == job[t].res
      <4>1. ASSUME job'[t].pc = "apply", job'[t].answer = "content"
            PROVE  job'[t].res = r /\ job'[t].got = page[r]
        BY <1>7, <3>2, <4>1 DEF JobMoves
      <4>2. r \in Resources /\ row[r].version <= page[r] /\ page[r] \in Int
        BY <1>1, <1>2
      <4> QED
        BY <2>1, <4>1, <4>2 DEF JobServed
    <3> QED
      BY <3>1, <3>2
  <2> QED
    BY <2>2, <2>3 DEF Served, RowServed, JobServed
<1>8. ASSUME NEW q \in Resources, NEW u \in Tokens, Granted(q, u)
      PROVE  Served'
  <2>1. /\ \A r \in Resources : row'[r].version = row[r].version
        /\ row'[q].token = u
        /\ \A r \in Resources \ {q} : row'[r] = row[r]
        /\ job'[u].pc = "claimed"
        /\ \A t \in Tokens \ {u} : job'[t] = job[t]
    BY <1>8 DEF Granted
  <2>2. \A r \in Resources : RowServed(r)'
    BY <1>1, <2>1 DEF RowServed
  <2>3. ASSUME NEW t \in Tokens
        PROVE  JobServed(t)'
    <3>1. CASE t # u
      <4>1. job'[t] = job[t] /\ job[t].res \in Resources
        BY <1>2, <2>1, <3>1
      <4>2. row'[job[t].res].token = t => row[job[t].res].token = t
        BY <2>1, <3>1, <4>1
      <4> QED
        BY <1>4, <2>1, <4>1, <4>2
    <3>2. CASE t = u
      BY <2>1, <3>2 DEF JobServed
    <3> QED
      BY <3>1, <3>2
  <2> QED
    BY <2>2, <2>3 DEF Served, RowServed, JobServed
<1>9. ASSUME NEW u \in Tokens, Applied(u)
      PROVE  Served'
  <2> DEFINE q == job[u].res
  <2>1. /\ q \in Resources /\ row'[q].token = NoToken /\ job'[u].pc = "none" /\ page' = page
        /\ \A r \in Resources \ {q} : row'[r] = row[r]
        /\ \A t \in Tokens \ {u} : job'[t] = job[t]
        /\ \/ row'[q].version = row[q].version
           \/ job[u].pc = "apply" /\ job[u].answer = "content" /\ row'[q].version = job[u].got
    BY <1>2, <1>9 DEF Applied
  <2>2. row'[q].version <= page[q]
    BY <1>1, <1>3, <2>1
  <2> HIDE DEF q
  <2>3. ASSUME NEW r \in Resources
        PROVE  RowServed(r)'
    BY <1>1, <2>1, <2>2 DEF RowServed
  <2>4. ASSUME NEW t \in Tokens
        PROVE  JobServed(t)'
    <3>1. CASE t # u
      <4>1. job'[t] = job[t] /\ job[t].res \in Resources
        BY <1>2, <2>1, <3>1
      <4>2. CASE job[t].res = q
        <5>1. row'[job[t].res].token # t
          BY <1>0, <2>1, <4>2
        <5> QED
          BY <1>4, <4>1, <5>1
      <4>3. CASE job[t].res # q
        <5>1. row'[job[t].res] = row[job[t].res]
          BY <2>1, <4>1, <4>3
        <5> QED
          BY <1>4, <4>1, <5>1
      <4> QED
        BY <4>2, <4>3
    <3>2. CASE t = u
      BY <2>1, <3>2 DEF JobServed
    <3> QED
      BY <3>1, <3>2
  <2> QED
    BY <2>3, <2>4 DEF Served, RowServed, JobServed
<1> QED
  BY <1>0, <1>5, <1>6, <1>7, <1>8, <1>9, StepCases

\* A late answer never puts an older version over a newer one.
THEOREM ContentIsMonotone == Spec => ContentGoesForward
<1>1. Leases /\ [Next]_vars => Leases'
  BY LeasesNext
<1>2. Leases /\ Leases' /\ Served /\ [Next]_vars => Served'
  BY ServedNext
<1>3. Leases /\ Leases' /\ Served /\ [Next]_vars =>
        [\A r \in Resources : row'[r].version >= row[r].version]_vars
  <2> SUFFICES ASSUME Leases, Leases', Served, [Next]_vars, NEW r \in Resources
               PROVE  row'[r].version >= row[r].version
    OBVIOUS
  <2>1. TypeOK /\ TypeOK' /\ NoLeaseAtRest /\ LeasesDiffer /\ AskOwns
    BY DEF Leases
  <2>2. row[r].version \in Int /\ row'[r].version \in Int
    BY <2>1, BoundAssumption DEF TypeOK, Row, Versions
  <2>3. CASE row'[r].version = row[r].version
    BY <2>2, <2>3
  <2>4. CASE \E t \in Tokens : Applied(t)
    <3>1. PICK t \in Tokens : Applied(t)
      BY <2>4
    <3>2. CASE r = job[t].res
      BY <2>2, <3>1, <3>2 DEF Applied, Served
    <3>3. CASE r # job[t].res
      BY <2>2, <3>1, <3>3 DEF Applied
    <3> QED
      BY <3>2, <3>3
  <2>5. ASSUME ~\E t \in Tokens : Applied(t)
        PROVE  row'[r].version = row[r].version
    BY <2>1, <2>5, StepCases DEF RowStep, RowKept, JobMoves, Granted
  <2> QED
    BY <2>3, <2>4, <2>5
<1> QED
  BY LeasesInit, ServedInit, <1>1, <1>2, <1>3, PTL DEF Spec, ContentGoesForward

-----------------------------------------------------------------------------
(* The refinement *)

LEMMA RefinementInit ==
    ASSUME Init
    PROVE  Lease!LeaseInit
<1>1. Leases
  BY LeasesInit
<1>0. Canary.token = NoToken /\ Enrolled.token = NoToken
  BY DEF Canary, Enrolled
<1>2. \A r \in Resources : row[r].token = NoToken /\ row[r].version \in Versions
  BY <1>0, <1>1 DEF Init, Leases, TypeOK, Row
<1>3. Holders = {}
  BY NoJobType DEF Init, Holders
<1> QED
  BY <1>2, <1>3 DEF Lease!LeaseInit

LEMMA RefinementNext ==
    ASSUME Leases, Leases', [Next]_vars
    PROVE  [Lease!LeaseNext]_(Lease!leaseVars)
<1> DEFINE owner == [r \in Resources |-> row[r].token]
           value == [r \in Resources |-> row[r].version]
<1>0. TypeOK /\ TypeOK' /\ NoLeaseAtRest /\ LeasesDiffer /\ AskOwns /\ NoToken \notin Tokens
  BY TokenAssumption DEF Leases
<1>1. CASE UNCHANGED <<row, job>>
  BY <1>1 DEF Lease!leaseVars, Holders
<1>2. ASSUME NEW r \in Resources, RowStep(r)
      PROVE  Lease!Revoke(r) \/ UNCHANGED Lease!leaseVars
  <2>1. value' = value /\ Holders' = Holders
    BY <1>2 DEF RowStep, RowKept, Holders
  <2>2. CASE row'[r].token = row[r].token
    <3>1. owner' = owner
      BY <1>2, <2>2 DEF RowStep
    <3> QED
      BY <2>1, <3>1 DEF Lease!leaseVars
  <2>3. CASE row'[r].token # row[r].token
    <3>1. row'[r].token = NoToken /\ owner[r] # NoToken
      BY <1>2, <2>3 DEF RowStep, RowKept
    <3>2. \A q \in Resources : row'[q].token = IF q = r THEN NoToken ELSE row[q].token
      BY <1>2, <3>1 DEF RowStep
    <3>3. owner' = [owner EXCEPT ![r] = NoToken]
      BY <3>2
    <3> QED
      BY <2>1, <3>1, <3>3 DEF Lease!Revoke
  <2> QED
    BY <2>2, <2>3
<1>3. ASSUME NEW t \in Tokens, JobMoves(t)
      PROVE  Lease!GiveUp(t) \/ UNCHANGED Lease!leaseVars
  <2>1. owner' = owner /\ value' = value
    BY <1>3 DEF JobMoves
  <2>2. t \in Holders
    BY <1>3 DEF JobMoves, Holders
  <2>3. Holders' = IF job'[t].pc = "none" THEN Holders \ {t} ELSE Holders
    BY <1>3, <2>2 DEF JobMoves, Holders
  <2> QED
    BY <2>1, <2>2, <2>3 DEF Lease!GiveUp, Lease!leaseVars
<1>4. ASSUME NEW r \in Resources, NEW t \in Tokens, Granted(r, t)
      PROVE  Lease!Grant(r, t)
  <2>1. value' = value
    BY <1>4 DEF Granted
  <2>2. owner' = [owner EXCEPT ![r] = t]
    BY <1>4 DEF Granted
  <2>3. Holders' = Holders \cup {t} /\ t \notin Holders
    BY <1>4 DEF Granted, Unused, Holders
  <2>4. \A q \in Resources : owner[q] # t
    BY <1>4 DEF Granted, Unused
  <2> QED
    BY <2>1, <2>2, <2>3, <2>4 DEF Lease!Grant
<1>5. ASSUME NEW t \in Tokens, Applied(t)
      PROVE  \E r \in Resources : \E v \in Versions : Lease!Use(r, t, v)
  <2>1. job[t].res \in Resources /\ row'[job[t].res].version \in Versions
    BY <1>0 DEF TypeOK, Job, Row
  <2> PICK r \in Resources : r = job[t].res
    BY <2>1
  <2> PICK v \in Versions : v = row'[r].version
    BY <2>1
  <2>2. t \in Holders /\ owner[r] = t
    BY <1>5 DEF Applied, Holders
  <2>3. Holders' = Holders \ {t}
    BY <1>5 DEF Applied, Holders
  <2>4. owner' = [owner EXCEPT ![r] = NoToken] /\ value' = [value EXCEPT ![r] = v]
    BY <1>5 DEF Applied
  <2>5. Lease!Use(r, t, v)
    BY <2>2, <2>3, <2>4 DEF Lease!Use
  <2> QED
    BY <2>5
<1> QED
  BY <1>0, <1>1, <1>2, <1>3, <1>4, <1>5, StepCases DEF Lease!LeaseNext

\* The lease of a source resource is a fenced lease: one owner, who changes the content
\* once, whatever is late, lost, repeated or revoked.
THEOREM LeaseIsFenced == Spec => ImplementsLease
<1>1. Leases /\ [Next]_vars => Leases'
  BY LeasesNext
<1>2. Init => Lease!LeaseInit
  BY RefinementInit
<1>3. Leases /\ Leases' /\ [Next]_vars => [Lease!LeaseNext]_(Lease!leaseVars)
  BY RefinementNext
<1> QED
  BY LeasesInit, <1>1, <1>2, <1>3, PTL DEF Spec, ImplementsLease, Lease!LeaseSpec
=============================================================================
