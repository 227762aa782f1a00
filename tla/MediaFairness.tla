---------------------------- MODULE MediaFairness ----------------------------
(***************************************************************************)
(* Media jobs (audio and video) wait as rows; a dispatcher moves a few at  *)
(* a time into ARQ's media queue, fairly among the tenants.  It runs every *)
(* minute and whenever a job is ingested, retried, finished or due again,  *)
(* so its runs may overlap.  It reads the rows, counts what the tenants    *)
(* have in flight, asks ARQ about every candidate, chooses, and enqueues   *)
(* under the job's own id, which ARQ refuses while it is in use or has a   *)
(* result.                                                                 *)
(*                                                                         *)
(* The rows and the queue change between any two of these steps.  What the *)
(* task itself does (extraction, storage, the ledger) is in IngestJobs.    *)
(***************************************************************************)
EXTENDS Integers, Sequences, FiniteSets

CONSTANTS Tenants, Jobs,
          TenantOf,      \* [Jobs -> Tenants]
          MaxRuns,       \* bound: runs of the dispatcher at a time
          Limit,         \* media_tenant_fair_dispatch_batch_size
          PerTenant,     \* media_tenant_fair_per_tenant_inflight_limit
          Candidates,    \* media_tenant_fair_candidate_limit
          MaxOdd         \* bound: kinds of odd events, each of which happens once

ASSUME JobsAssumption == IsFiniteSet(Jobs) /\ TenantOf \in [Jobs -> Tenants]
ASSUME SettingsAssumption ==            \* _positive_setting
    /\ MaxRuns \in Nat \ {0}
    /\ Limit \in Nat \ {0}
    /\ PerTenant \in Nat \ {0}
    /\ Candidates \in Nat \ {0}
    /\ MaxOdd \in Nat

VARIABLES row,    \* jobs.status
          made,   \* jobs.created_at, by its place among them; 0: no such job
          arq,    \* the ARQ job whose id is the job's
          old,    \* dispatches that were running when its result was stored
          disp,   \* runs of the dispatcher
          cron,   \* requeue_stale_jobs: the job it is about to reset
          odd     \* the odd events so far

vars == <<row, made, arq, old, disp, cron, odd>>

-----------------------------------------------------------------------------
(* Types *)

Dispatchers == 1 .. MaxRuns
\* "due": pending_availability, and retry_after_at has passed.
Statuses == {"absent", "queued", "processing", "waiting", "due", "completed", "failed",
             "cancelled"}
\* "ending": still in progress for ARQ, although the row has its last commit.
ArqStates == {"none", "queued", "running", "ending", "result"}
Odd == {"overlap", "cancel", "failure", "defer", "stale", "fault"}

Dispatch == [pc      : {"idle", "count", "inspect", "put"},
             order   : [Jobs -> Nat],        \* created_at of what the first query found
             active  : [Tenants -> Nat],     \* active_by_tenant
             rest    : SUBSET Jobs,          \* candidates ARQ has not been asked about
             seen    : SUBSET Jobs,          \* active_job_ids
             chosen  : Seq(Jobs)]            \* what is left to enqueue
Idle == [pc |-> "idle", order |-> [j \in Jobs |-> 0], active |-> [t \in Tenants |-> 0],
         rest |-> {}, seen |-> {}, chosen |-> <<>>]

Init ==
    /\ row = [j \in Jobs |-> "absent"]
    /\ made = [j \in Jobs |-> 0]
    /\ arq = [j \in Jobs |-> "none"]
    /\ old = [j \in Jobs |-> {}]
    /\ disp = [d \in Dispatchers |-> Idle]
    /\ cron = {}
    /\ odd = {}

Happens(k) == k \notin odd /\ Cardinality(odd) < MaxOdd /\ odd' = odd \cup {k}

-----------------------------------------------------------------------------
(* _choose_fair_jobs *)

\* The rows of a tenant, and the oldest of some rows.
Of(rows, t) == {j \in rows : TenantOf[j] = t}
Oldest(rows, order) == CHOOSE j \in rows : \A k \in rows : order[j] <= order[k]

\* tenant_order: each tenant by the oldest of its rows, and the one whose turn
\* comes after that of the tenant of h.
Heads(rows, order) == {j \in rows : \A k \in Of(rows, TenantOf[j]) : order[j] <= order[k]}
NextHead(heads, h, order) ==
    LET later == {k \in heads : order[k] > order[h]}
    IN  Oldest(IF later = {} THEN heads ELSE later, order)

\* Mutant of Turn: the slots that the choice itself fills are not counted.
TurnUncounted(c, order, limit, perTenant) ==
    LET t == TenantOf[c.turn]
        next == [c EXCEPT !.turn = NextHead(c.heads, @, order)]
        j == Oldest(Of(c.left, t), order)
    IN  IF Len(c.selected) >= limit \/ c.active[t] >= perTenant \/ Of(c.left, t) = {} THEN next
        ELSE [next EXCEPT !.left = @ \ {j}, !.selected = Append(@, j)]

\* A tenant's turn in a round.
Turn(c, order, limit, perTenant) ==
    LET t == TenantOf[c.turn]
        next == [c EXCEPT !.turn = NextHead(c.heads, @, order)]
        j == Oldest(Of(c.left, t), order)
    IN  IF Len(c.selected) >= limit \/ c.active[t] >= perTenant \/ Of(c.left, t) = {} THEN next
        ELSE [next EXCEPT !.left = @ \ {j}, !.active[t] = @ + 1, !.selected = Append(@, j)]

\* Turn after turn, round after round; a round that selects something selects at
\* least one, so there are no more rounds than the limit.  (The choice from a
\* single state has TLC compute that state once.)
Turns(rows, order, active, limit, perTenant) ==
    LET first == [left |-> rows, active |-> active, heads |-> Heads(rows, order),
                  turn |-> Oldest(Heads(rows, order), order), selected |-> <<>>]
        last == limit * Cardinality(first.heads)
        after[n \in 0 .. last] ==
            IF n = 0 THEN first
            ELSE CHOOSE c \in {Turn(b, order, limit, perTenant) : b \in {after[n - 1]}} : TRUE
    IN  after[last]

Choose(rows, order, active, limit, perTenant) ==
    IF rows = {} THEN <<>> ELSE Turns(rows, order, active, limit, perTenant).selected

-----------------------------------------------------------------------------
(* dispatch_tenant_fair_media_jobs *)

\* Mutant of Dispatchable: what was deferred is forgotten.
QueuedOnly(j) == row[j] = "queued"

Dispatchable(j) == row[j] \in {"queued", "due"}

\* The first query: the oldest candidates of each tenant.  (The runs that
\* overlap are numbered; a number is free when its run is over.)
Pending ==
    LET ready == {j \in Jobs : Dispatchable(j)}
    IN  {j \in ready : Cardinality({k \in Of(ready, TenantOf[j]) : made[k] <= made[j]}) <= Candidates}

ReadPending(d) ==
    /\ disp[d].pc = "idle" /\ \A e \in 1 .. d - 1 : disp[e].pc # "idle"
    /\ \E found \in {Pending} :
          /\ found # {}
          /\ disp' = [disp EXCEPT ![d] =
                [Idle EXCEPT !.pc = "count", !.rest = found,
                             !.order = [j \in Jobs |-> IF j \in found THEN made[j] ELSE 0]]]
    /\ IF \E e \in Dispatchers : disp[e].pc # "idle" THEN Happens("overlap") ELSE UNCHANGED odd
    /\ UNCHANGED <<row, made, arq, old, cron>>

\* The second query, with a snapshot of its own.
CountActive(d) ==
    /\ disp[d].pc = "count"
    /\ disp' = [disp EXCEPT ![d].pc = "inspect",
                  ![d].active = [t \in Tenants |->
                     Cardinality({j \in Of(Jobs, t) : row[j] = "processing"})]]
    /\ UNCHANGED <<row, made, arq, old, cron, odd>>

\* A dispatch is over: a result that is stored now is none of its business.
Over(d) == old' = [j \in Jobs |-> old[j] \ {d}]

\* Enqueue these jobs.
Proceed(d, chosen) ==
    IF chosen = <<>> THEN disp' = [disp EXCEPT ![d] = Idle] /\ Over(d)
    ELSE disp' = [disp EXCEPT ![d] = [Idle EXCEPT !.pc = "put", !.chosen = chosen]]
         /\ UNCHANGED old

\* Mutant of ArqActive: a task that waits for a worker is not active.
ArqInProgress(j) == arq[j] \in {"running", "ending"}

\* _ACTIVE_ARQ_STATUSES
ArqActive(j) == arq[j] \in {"queued", "running", "ending"}

\* Go on with the next candidate, oldest first, or with what is chosen.
Asked(d) == Oldest(disp[d].rest, disp[d].order)
Found(d) == {j \in Jobs : disp[d].order[j] > 0}
Inspected(d, active) ==
    \E j \in {Asked(d)} :
    \E r \in {[disp[d] EXCEPT !.rest = @ \ {j},
                              !.active[TenantOf[j]] = IF active THEN @ + 1 ELSE @,
                              !.seen = IF active THEN @ \cup {j} ELSE @]} :
        IF r.rest # {} THEN disp' = [disp EXCEPT ![d] = r] /\ UNCHANGED old
        ELSE Proceed(d, Choose(Found(d) \ r.seen, r.order, r.active, Limit, PerTenant))

\* _is_active_in_media_queue
Inspect(d) ==
    /\ disp[d].pc = "inspect"
    /\ UNCHANGED <<row, made, arq, cron, odd>>
    /\ Inspected(d, ArqActive(Asked(d)))

\* Redis does not answer: the job counts as active.
InspectError(d) ==
    /\ disp[d].pc = "inspect"
    /\ Happens("fault")
    /\ UNCHANGED <<row, made, arq, cron>>
    /\ Inspected(d, TRUE)

\* enqueue_tenant_job; ARQ does nothing when the id is in use or has a result.
Put(d) ==
    LET j == Head(disp[d].chosen) IN
    /\ disp[d].pc = "put"
    /\ arq' = [arq EXCEPT ![j] = IF @ = "none" THEN "queued" ELSE @]
    /\ Proceed(d, Tail(disp[d].chosen))
    /\ UNCHANGED <<row, made, cron, odd>>

\* It raises (Redis, or the queue of that tenant is closed) or the worker dies;
\* the choices behind it are not put.
DispatchDies(d) ==
    /\ disp[d].pc # "idle"
    /\ disp' = [disp EXCEPT ![d] = Idle]
    /\ Over(d)
    /\ Happens("fault")
    /\ UNCHANGED <<row, made, arq, cron>>

-----------------------------------------------------------------------------
(* process_media *)

Start(j) ==
    /\ arq[j] = "queued"
    /\ arq' = [arq EXCEPT ![j] = "running"]
    /\ row' = [row EXCEPT ![j] = "processing"]
    /\ UNCHANGED <<made, old, disp, cron, odd>>

\* The last commit of the row.  The task itself goes on: it reflects the
\* subscription, wakes the dispatcher and sends the webhook.
End(j, status) ==
    /\ arq[j] = "running"
    /\ arq' = [arq EXCEPT ![j] = "ending"]
    /\ row' = [row EXCEPT ![j] = status]
    /\ UNCHANGED <<made, old, disp, cron>>

Complete(j) == End(j, "completed") /\ UNCHANGED odd

Fail(j) == End(j, "failed") /\ Happens("failure")

\* PendingAvailabilityError: the provider will have it later.
Defer(j) == End(j, "waiting") /\ Happens("defer")

\* process_media returns.  ARQ keeps every result for an hour, that of a deferred
\* job too.
Return(j) ==
    /\ arq[j] = "ending"
    /\ arq' = [arq EXCEPT ![j] = "result"]
    /\ old' = [old EXCEPT ![j] = {d \in Dispatchers : disp[d].pc # "idle"}]
    /\ UNCHANGED <<row, made, disp, cron, odd>>

Due(j) ==
    /\ row[j] = "waiting"
    /\ row' = [row EXCEPT ![j] = "due"]
    /\ UNCHANGED <<made, arq, old, disp, cron, odd>>

\* A dispatch has half an hour (job_timeout), so a result outlasts those it has met;
\* that of a completed job is not asked for.
ForgetResult(j) ==
    /\ arq[j] = "result" /\ old[j] = {} /\ row[j] # "completed"
    /\ arq' = [arq EXCEPT ![j] = "none"]
    /\ UNCHANGED <<row, made, old, disp, cron, odd>>

\* Shutdown or job_timeout: the row is cancelled; after a shutdown ARQ runs the
\* task again.
Abandon(j) ==
    /\ arq[j] = "running"
    /\ row' = [row EXCEPT ![j] = "cancelled"]
    /\ \E next \in {"queued", "ending"} : arq' = [arq EXCEPT ![j] = next]
    /\ Happens("fault")
    /\ UNCHANGED <<made, old, disp, cron>>

\* The worker is killed and ARQ runs the task again, or Redis loses it.
Lose(j) ==
    /\ ArqActive(j)
    /\ \E next \in {"queued", "none"} : arq' = [arq EXCEPT ![j] = next]
    /\ Happens("fault")
    /\ UNCHANGED <<row, made, old, disp, cron>>

-----------------------------------------------------------------------------
(* Requests and requeue_stale_jobs *)

Total == Cardinality({k \in Jobs : row[k] # "absent"})

\* Which of the unused names a new row of a tenant gets makes no difference.
Unused(t) == CHOOSE j \in Of(Jobs, t) : row[j] = "absent"

Ingest(j) ==
    /\ row[j] = "absent" /\ j = Unused(TenantOf[j])
    /\ row' = [row EXCEPT ![j] = "queued"]
    /\ made' = [made EXCEPT ![j] = Total + 1]
    /\ UNCHANGED <<arq, old, disp, cron, odd>>

\* cancel_job: the row only.
Cancel(j) ==
    /\ row[j] = "queued"
    /\ row' = [row EXCEPT ![j] = "cancelled"]
    /\ Happens("cancel")
    /\ UNCHANGED <<made, arq, old, disp, cron>>

\* retry_job: created_at stays.
Retry(j) ==
    /\ row[j] \in {"failed", "cancelled"}
    /\ row' = [row EXCEPT ![j] = "queued"]
    /\ UNCHANGED <<made, arq, old, disp, cron, odd>>

\* A row that was read as stale, a lost one or one that has only waited for half
\* an hour, and whose id is free in ARQ.
CheckStale(j) ==
    /\ cron = {}
    /\ arq[j] = "none"
    /\ \/ row[j] = "processing" /\ UNCHANGED odd
       \/ row[j] = "queued" /\ Happens("stale")
    /\ cron' = {j}
    /\ UNCHANGED <<row, made, arq, old, disp>>

\* Mutant of Reset: the others keep their places.
ResetKeepsPlaces(j) ==
    /\ j \in cron
    /\ row' = [row EXCEPT ![j] = "queued"]
    /\ made' = [made EXCEPT ![j] = Total]
    /\ cron' = {}
    /\ UNCHANGED <<arq, old, disp, odd>>

\* It is reset whatever it has become, and its created_at is now.
Reset(j) ==
    /\ j \in cron
    /\ row' = [row EXCEPT ![j] = "queued"]
    /\ made' = [k \in Jobs |-> IF k = j THEN Total
                              ELSE IF made[k] > made[j] THEN made[k] - 1 ELSE made[k]]
    /\ cron' = {}
    /\ UNCHANGED <<arq, old, disp, odd>>

-----------------------------------------------------------------------------

DispatchStep == \E d \in Dispatchers : ReadPending(d) \/ CountActive(d) \/ Inspect(d) \/ Put(d)
TaskStep == \E j \in Jobs : Start(j) \/ Complete(j) \/ Return(j)
TimePasses == \E j \in Jobs : Due(j) \/ ForgetResult(j)
CronStep == \E j \in Jobs : CheckStale(j) \/ Reset(j)

Next ==
    \/ DispatchStep \/ TaskStep \/ TimePasses \/ CronStep
    \/ \E d \in Dispatchers : InspectError(d) \/ DispatchDies(d)
    \/ \E j \in Jobs : Fail(j) \/ Defer(j) \/ Abandon(j) \/ Lose(j)
    \/ \E j \in Jobs : Ingest(j) \/ Cancel(j) \/ Retry(j)

Spec == Init /\ [][Next]_vars

\* The dispatcher comes every minute, workers run what is queued, time passes,
\* and requeue_stale_jobs comes every quarter of an hour.
Fairness == WF_vars(DispatchStep) /\ WF_vars(TaskStep) /\ WF_vars(TimePasses) /\ WF_vars(CronStep)
FairSpec == Spec /\ Fairness

-----------------------------------------------------------------------------
(* Properties *)

TypeOK ==
    /\ row \in [Jobs -> Statuses]
    /\ made \in [Jobs -> 0 .. Cardinality(Jobs)]
    /\ \A j \in Jobs : made[j] = 0 <=> row[j] = "absent"
    /\ \A j, k \in Jobs : made[j] = made[k] => j = k \/ made[j] = 0
    /\ arq \in [Jobs -> ArqStates]
    /\ old \in [Jobs -> SUBSET Dispatchers]
    /\ disp \in [Dispatchers -> Dispatch]
    /\ cron \in SUBSET Jobs /\ Cardinality(cron) <= 1
    /\ odd \subseteq Odd /\ Cardinality(odd) <= MaxOdd

\* The reference of the choice: a tenant's r-th candidate needs a r-th free slot,
\* every tenant's r-th comes before anybody's (r+1)-th, and within a rank the
\* tenant that has waited longest is first; the choice is the longest prefix of
\* this order that the limit admits.
FairChoice(selected, rows, order, active, limit, perTenant) ==
    LET elders == [j \in rows |-> {k \in Of(rows, TenantOf[j]) : order[k] < order[j]}]
        rank == [j \in rows |-> Cardinality(elders[j])]
        head == [j \in rows |-> Oldest(Of(rows, TenantOf[j]), order)]
        entitled == {j \in rows : active[TenantOf[j]] + rank[j] < perTenant}
        before(j, k) ==
            rank[j] < rank[k] \/ (rank[j] = rank[k] /\ order[head[j]] < order[head[k]])
        first == {j \in entitled : Cardinality({k \in entitled : before(k, j)}) < limit}
    IN  /\ {selected[n] : n \in 1 .. Len(selected)} = first
        /\ Len(selected) = Cardinality(first)
        /\ \A n, m \in 1 .. Len(selected) : before(selected[n], selected[m]) => n < m

\* The round robin is fair: for whatever a dispatch may have read and several limits,
\* _choose_fair_jobs makes the choice of the reference.
ChoiceIsFair ==
    \A d \in Dispatchers : disp[d].pc = "inspect" =>
        \A limit \in 1 .. Limit, perTenant \in 1 .. PerTenant + 1 :
            LET r == disp[d]
                rows == Found(d) \ r.seen
            IN  FairChoice(Choose(rows, r.order, r.active, limit, perTenant),
                           rows, r.order, r.active, limit, perTenant)

\* Rows and queue move while a dispatch reads, and its choice rests on what it has
\* read.  Still, as long as nothing is cancelled, lost or reset by the cron, a
\* tenant has no more tasks in flight than its limit, or its limit once for each
\* dispatch that overlaps.  (The first query has to show all that a tenant has
\* waiting: what it leaves out may be in the queue already, uncounted.)  In flight
\* is a task that waits for a worker or works on its row: process_media wakes the
\* dispatcher while ARQ still has it in progress with a row that is finished, so a
\* tenant's next task may be in the queue before the one it follows has returned.
InFlight(t) == {j \in Of(Jobs, t) : arq[j] \in {"queued", "running"}}
Undisturbed == odd \cap {"cancel", "stale", "fault"} = {}
QueryShowsAll == \A t \in Tenants : Cardinality(Of(Jobs, t)) <= Candidates
InFlightIsBounded ==
    Undisturbed /\ QueryShowsAll =>
        \A t \in Tenants :
            Cardinality(InFlight(t)) <= PerTenant * (IF "overlap" \in odd THEN MaxRuns ELSE 1)

\* dispatch_tenant_fair_media_jobs works "without tenant starvation": every job
\* that is queued, deferred or lost by a worker is settled in the end.
EveryJobSettles ==
    <>[]\A j \in Jobs : row[j] \in {"absent", "completed", "failed", "cancelled"}
=============================================================================
