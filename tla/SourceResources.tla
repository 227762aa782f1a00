-------------------------- MODULE SourceResources --------------------------
(***************************************************************************)
(* Watched web pages: a dispatcher leases due resources and enqueues one   *)
(* refresh job per lease; the job fetches the page outside of any          *)
(* transaction and applies the answer only under the same, unexpired       *)
(* lease; operators pause, resume, restore, refresh and change the policy  *)
(* meanwhile.                                                              *)
(*                                                                         *)
(* Every step is one transaction (under the row lock) or one Redis call.   *)
(* Time is what the code compares with it: whether a lease has expired,    *)
(* whether a due time has come.  backoff_until is left out: wherever it is *)
(* set, next_due_at is set to the same time.                               *)
(***************************************************************************)
EXTENDS Integers

CONSTANTS Resources,   \* source_resources rows of kind http
          Tokens,      \* lease tokens; one is taken again when nothing holds it
          Operators,   \* operator requests in flight
          NoToken,
          MaxVersion,  \* bound: versions of a page
          MaxAsks,     \* bound: operator actions
          MaxFaults    \* bound: crashes, late jobs, error answers, lost enqueues

ASSUME TokenAssumption == NoToken \notin Tokens
ASSUME ResourceAssumption == Resources # {}
ASSUME BoundAssumption == MaxVersion \in Nat \ {0} /\ MaxAsks \in Nat /\ MaxFaults \in Nat

VARIABLES row,     \* source_resources rows
          page,    \* the version that the origin serves
          job,     \* refresh_source_resource, by the token in its ARQ id
          ask,     \* operator requests between their commit and their answer
          asks,    \* operator actions so far
          faults   \* faults so far

vars == <<row, page, job, ask, asks, faults>>

-----------------------------------------------------------------------------
(* Types *)

Versions == 0 .. MaxVersion            \* 0: never fetched
Statuses == {"active", "unreachable", "gone", "paused"}
Policies == {"manual", "interval"}     \* adaptive is scheduled as interval
Errors == {"missing", "gone", "error"} \* 404; 410; robots, timeout, 5xx, ...
Answers == {"none", "content", "same"} \cup Errors

Row == [status  : Statuses,
        policy  : Policies,
        due     : {"never", "later", "now"},   \* next_due_at against the clock
        token   : Tokens \cup {NoToken},
        live    : BOOLEAN,                     \* refresh_lease_expires_at > now
        missed  : BOOLEAN,                     \* last_failure_reason = "http_404"
        version : Versions]                    \* content_digest and validators
Job == [pc     : {"none", "claimed", "queued", "fetch", "apply"},
        res    : Resources,
        known  : Versions,                     \* the validators it sends
        answer : Answers,
        got    : Versions,
        policy : Policies]                     \* history: the policy of its lease
Ask == [pc : {"idle", "enqueue", "cancel"}, token : Tokens \cup {NoToken}]

AnyResource == CHOOSE r \in Resources : TRUE
NoJob == [pc |-> "none", res |-> AnyResource, known |-> 0, answer |-> "none",
          got |-> 0, policy |-> "manual"]
IdleAsk == [pc |-> "idle", token |-> NoToken]

\* A row as the canary script inserts it, and as the enrolment of saved pages does.
Canary == [status |-> "active", policy |-> "interval", due |-> "now", token |-> NoToken,
           live |-> FALSE, missed |-> FALSE, version |-> 0]
Enrolled == [Canary EXCEPT !.policy = "manual", !.due = "never"]

Init ==
    /\ row \in [Resources -> {Canary, Enrolled}]
    /\ page = [r \in Resources |-> 1]
    /\ job = [t \in Tokens |-> NoJob]
    /\ ask = [o \in Operators |-> IdleAsk]
    /\ asks = 0
    /\ faults = 0

Fault == faults < MaxFaults /\ faults' = faults + 1

\* uuid4: a token that nobody knows.
Unused(t) == /\ job[t].pc = "none"
             /\ \A r \in Resources : row[r].token # t
             /\ \A o \in Operators : ask[o].token # t

-----------------------------------------------------------------------------
(* The origin and the clock *)

PageChanges(r) ==
    /\ page[r] < MaxVersion
    /\ page' = [page EXCEPT ![r] = @ + 1]
    /\ UNCHANGED <<row, job, ask, asks, faults>>

FallsDue(r) ==
    /\ row[r].due = "later"
    /\ row' = [row EXCEPT ![r].due = "now"]
    /\ UNCHANGED <<page, job, ask, asks, faults>>

\* A lease runs out after its job has ended ...
LeaseExpires(r) ==
    /\ row[r].live
    /\ job[row[r].token].pc = "none"
    /\ row' = [row EXCEPT ![r].live = FALSE]
    /\ UNCHANGED <<page, job, ask, asks, faults>>

\* ... or before: a slow queue, robots request or page.
LeaseOutrun(r) ==
    /\ row[r].live
    /\ job[row[r].token].pc # "none"
    /\ row' = [row EXCEPT ![r].live = FALSE]
    /\ Fault
    /\ UNCHANGED <<page, job, ask, asks>>

-----------------------------------------------------------------------------
(* The dispatcher *)

\* Mutant of Due: an unreachable resource is not claimed.
DueActiveOnly(r) == /\ row[r].policy # "manual"
                    /\ row[r].status = "active"
                    /\ row[r].due = "now"
                    /\ ~row[r].live

\* is_due_for_refresh
Due(r) == /\ row[r].policy # "manual"
          /\ row[r].status \in {"active", "unreachable"}
          /\ row[r].due = "now"
          /\ ~row[r].live

Leased(x, t) == [x EXCEPT !.token = t, !.live = TRUE]
JobFor(r, t, pc) == [NoJob EXCEPT !.pc = pc, !.res = r, !.policy = row[r].policy]

\* claim_due_source_resources, committed before anything is enqueued.
Claim(r, t) ==
    /\ Due(r)
    /\ Unused(t)
    /\ row' = [row EXCEPT ![r] = Leased(@, t)]
    /\ job' = [job EXCEPT ![t] = JobFor(r, t, "claimed")]
    /\ UNCHANGED <<page, ask, asks, faults>>

DispatchEnqueue(t) ==
    /\ job[t].pc = "claimed"
    /\ \A o \in Operators : ask[o].token # t
    /\ job' = [job EXCEPT ![t].pc = "queued"]
    /\ UNCHANGED <<row, page, ask, asks, faults>>

\* The dispatcher dies, or an enqueue of the batch raises: the leases whose
\* jobs are not enqueued yet run out.
DispatchLost(t) ==
    /\ job[t].pc = "claimed"
    /\ \A o \in Operators : ask[o].token # t
    /\ job' = [job EXCEPT ![t] = NoJob]
    /\ Fault
    /\ UNCHANGED <<row, page, ask, asks>>

-----------------------------------------------------------------------------
(* refresh_source_resource *)

HasLease(t) == row[job[t].res].token = t /\ row[job[t].res].live

\* The row is read under its lease ...
Start(t) ==
    /\ job[t].pc = "queued"
    /\ job' = [job EXCEPT ![t] =
                 IF HasLease(t)
                 THEN [@ EXCEPT !.pc = "fetch", !.known = row[job[t].res].version]
                 ELSE NoJob]
    /\ UNCHANGED <<row, page, ask, asks, faults>>

\* ... and the page is requested, with the validators, outside of any
\* transaction.
Fetch(t) ==
    /\ job[t].pc = "fetch"
    /\ LET v == page[job[t].res]
       IN  \/ job' = [job EXCEPT ![t].pc = "apply", ![t].answer = "content", ![t].got = v]
           \/ /\ job[t].known = v
              /\ job' = [job EXCEPT ![t].pc = "apply", ![t].answer = "same", ![t].got = v]
    /\ UNCHANGED <<row, page, ask, asks, faults>>

FetchFails(t) ==
    /\ job[t].pc = "fetch"
    /\ \E a \in Errors : job' = [job EXCEPT ![t].pc = "apply", ![t].answer = a]
    /\ Fault
    /\ UNCHANGED <<row, page, ask, asks>>

NextDue(x) == IF x.policy = "manual" THEN "never" ELSE "later"
Unleased(x) == [x EXCEPT !.token = NoToken, !.live = FALSE]

\* apply_refresh_observation: content or confirmation ...
Verified(x, v) ==
    [x EXCEPT !.status = "active", !.missed = FALSE, !.due = NextDue(x), !.version = v]
\* Mutant of Failed: the outcome is written to the status as it is.
FailedAsAnswered(x, answer) ==
    [x EXCEPT !.status = answer, !.missed = (answer = "missing"), !.due = "later"]

\* ... or a failure, whose backoff is the next due time.
Failed(x, answer) ==
    [x EXCEPT !.status = IF answer = "gone" \/ (answer = "missing" /\ x.missed)
                         THEN "gone" ELSE "unreachable",
              !.missed = (answer = "missing"),
              !.due = "later"]

Observed(x, j) ==
    CASE j.answer = "content" -> Verified(x, j.got)
      [] j.answer = "same"    -> Verified(x, x.version)
      [] OTHER                -> Failed(x, j.answer)

\* Mutants of Apply: the token is not compared again after the fetch; the
\* lease is not cleared with the result.
ApplyAnyLease(t) ==
    /\ job[t].pc = "apply"
    /\ row[job[t].res].live
    /\ row' = [row EXCEPT ![job[t].res] = Unleased(Observed(@, job[t]))]
    /\ job' = [job EXCEPT ![t] = NoJob]
    /\ UNCHANGED <<page, ask, asks, faults>>
ApplyKeepingLease(t) ==
    /\ job[t].pc = "apply"
    /\ HasLease(t)
    /\ row' = [row EXCEPT ![job[t].res] = Observed(@, job[t])]
    /\ job' = [job EXCEPT ![t] = NoJob]
    /\ UNCHANGED <<page, ask, asks, faults>>

\* One transaction: the lease is checked again at the time of the result,
\* content is activated, the observation recorded and the lease cleared.
Apply(t) ==
    /\ job[t].pc = "apply"
    /\ HasLease(t)
    /\ row' = [row EXCEPT ![job[t].res] = Unleased(Observed(@, job[t]))]
    /\ job' = [job EXCEPT ![t] = NoJob]
    /\ UNCHANGED <<page, ask, asks, faults>>

\* The result comes after the lease.
Discard(t) ==
    /\ job[t].pc = "apply"
    /\ ~HasLease(t)
    /\ job' = [job EXCEPT ![t] = NoJob]
    /\ UNCHANGED <<row, page, ask, asks, faults>>

\* An exception (embedding, drift proposal, commit), a timeout, or a lost
\* queue entry ends the job; what it did is rolled back.
JobEnds(t) ==
    /\ job[t].pc \in {"queued", "fetch", "apply"}
    /\ job' = [job EXCEPT ![t] = NoJob]
    /\ Fault
    /\ UNCHANGED <<row, page, ask, asks>>

\* The worker dies and ARQ runs the job again.
WorkerCrash(t) ==
    /\ job[t].pc \in {"fetch", "apply"}
    /\ job' = [job EXCEPT ![t] = [NoJob EXCEPT !.pc = "queued", !.res = job[t].res,
                                            !.policy = job[t].policy]]
    /\ Fault
    /\ UNCHANGED <<row, page, ask, asks>>

-----------------------------------------------------------------------------
(* Operators: one action each, under the row lock *)

Asked == asks < MaxAsks /\ asks' = asks + 1
Act(r, x) == /\ row' = [row EXCEPT ![r] = x]
             /\ Asked
             /\ UNCHANGED <<page, job, ask, faults>>

\* Mutant of PolicyRow: a lease outlives the policy it was granted under.
PolicyRowLeased(x, p) ==
    [x EXCEPT !.policy = p,
              !.due = IF p = "manual" \/ x.status \in {"paused", "gone"} THEN "never"
                      ELSE IF x.status = "active" THEN "later" ELSE x.due]

\* apply_operator_policy_update
PolicyRow(x, p) ==
    [Unleased(x) EXCEPT !.policy = p,
        !.due = IF p = "manual" \/ x.status \in {"paused", "gone"} THEN "never"
                ELSE IF x.status = "active" THEN "later" ELSE x.due]

SetPolicy(r, p) == Act(r, PolicyRow(row[r], p))

\* Mutant of PausedRow: the lease survives the pause.
PausedRowLeased(x) == [x EXCEPT !.status = "paused", !.due = "never"]

PausedRow(x) == [Unleased(x) EXCEPT !.status = "paused", !.due = "never"]

Pause(r) == /\ row[r].status \notin {"gone", "paused"}
            /\ Act(r, PausedRow(row[r]))

DueNow(x) == IF x.policy = "manual" THEN "never" ELSE "now"

Resume(r) == /\ row[r].status = "paused"
             /\ Act(r, [row[r] EXCEPT !.status = "active", !.due = DueNow(row[r])])

Restore(r) == /\ row[r].status = "gone"
              /\ Act(r, [Unleased(row[r]) EXCEPT !.status = "active", !.missed = FALSE,
                                                 !.due = DueNow(row[r])])

\* POST .../refresh: the lease is committed, then the job is enqueued.
Refresh(o, r, t) ==
    /\ ask[o].pc = "idle"
    /\ row[r].status \in {"active", "unreachable"}
    /\ ~row[r].live
    /\ Unused(t)
    /\ row' = [row EXCEPT ![r] = [Leased(@, t) EXCEPT !.due = "now"]]
    /\ job' = [job EXCEPT ![t] = JobFor(r, t, "claimed")]
    /\ ask' = [ask EXCEPT ![o] = [pc |-> "enqueue", token |-> t]]
    /\ Asked
    /\ UNCHANGED <<page, faults>>

RefreshEnqueue(o) ==
    /\ ask[o].pc = "enqueue"
    /\ job' = [job EXCEPT ![ask[o].token].pc = "queued"]
    /\ ask' = [ask EXCEPT ![o] = IdleAsk]
    /\ UNCHANGED <<row, page, asks, faults>>

\* The enqueue raises; Redis may have the job nevertheless.
RefreshEnqueueError(o) ==
    /\ ask[o].pc = "enqueue"
    /\ \/ job' = [job EXCEPT ![ask[o].token] = NoJob]
       \/ job' = [job EXCEPT ![ask[o].token].pc = "queued"]
    /\ ask' = [ask EXCEPT ![o].pc = "cancel"]
    /\ Fault
    /\ UNCHANGED <<row, page, asks>>

\* cancel_operator_refresh_lease, if the row still has this lease.
Cancelled(x, t) ==
    IF x.token # t THEN x
    ELSE [Unleased(x) EXCEPT !.due = IF x.policy = "manual" THEN "never" ELSE x.due]

RefreshCancel(o) ==
    /\ ask[o].pc = "cancel"
    /\ row' = [r \in Resources |-> Cancelled(row[r], ask[o].token)]
    /\ ask' = [ask EXCEPT ![o] = IdleAsk]
    /\ UNCHANGED <<page, job, asks, faults>>

\* The API process dies between the commits.
RefreshCrash(o) ==
    /\ ask[o].pc # "idle"
    /\ job' = IF ask[o].pc = "enqueue" THEN [job EXCEPT ![ask[o].token] = NoJob] ELSE job
    /\ ask' = [ask EXCEPT ![o] = IdleAsk]
    /\ Fault
    /\ UNCHANGED <<row, page, asks>>

-----------------------------------------------------------------------------
(* Specification *)

Clock(r) == FallsDue(r) \/ LeaseExpires(r) \/ LeaseOutrun(r)

Operator(r) ==
    \/ \E p \in Policies : SetPolicy(r, p)
    \/ Pause(r) \/ Resume(r) \/ Restore(r)
    \/ \E o \in Operators, t \in Tokens : Refresh(o, r, t)

RequestStep(o) == RefreshEnqueue(o) \/ RefreshCancel(o)
RequestFault(o) == RefreshEnqueueError(o) \/ RefreshCrash(o)

JobStep(t) == DispatchEnqueue(t) \/ Start(t) \/ Fetch(t) \/ Apply(t) \/ Discard(t)
JobFault(t) == DispatchLost(t) \/ FetchFails(t) \/ JobEnds(t) \/ WorkerCrash(t)

Next ==
    \/ \E r \in Resources : \/ PageChanges(r) \/ Clock(r) \/ Operator(r)
                            \/ \E t \in Tokens : Claim(r, t)
    \/ \E t \in Tokens : JobStep(t) \/ JobFault(t)
    \/ \E o \in Operators : RequestStep(o) \/ RequestFault(o)

Spec == Init /\ [][Next]_vars

\* Time passes, the cron claims what is due, jobs and requests go on.
Fairness ==
    /\ \A r \in Resources : /\ WF_vars(FallsDue(r)) /\ WF_vars(LeaseExpires(r))
                            /\ WF_vars(\E t \in Tokens : Claim(r, t))
    /\ \A t \in Tokens : WF_vars(JobStep(t))
    /\ \A o \in Operators : WF_vars(RequestStep(o))

FairSpec == Spec /\ Fairness

-----------------------------------------------------------------------------
(* Properties *)

TypeOK ==
    /\ row \in [Resources -> Row]
    /\ page \in [Resources -> Versions]
    /\ job \in [Tokens -> Job]
    /\ ask \in [Operators -> Ask]
    /\ asks \in 0 .. MaxAsks
    /\ faults \in 0 .. MaxFaults

\* A lease is a fenced lease: only the job that has it changes the content,
\* once, whatever expiries, new leases, late results and operators do.
Holders == {t \in Tokens : job[t].pc # "none"}
Lease == INSTANCE FencedLease WITH
    Values <- Versions,
    owner <- [r \in Resources |-> row[r].token],
    holders <- Holders,
    value <- [r \in Resources |-> row[r].version]
ImplementsLease == Lease!LeaseSpec

\* A slow fetch never puts an older version over a newer one: the stored
\* content goes forward, as the page does.
ContentGoesForward == [][\A r \in Resources : row'[r].version >= row[r].version]_vars

\* A paused or tombstoned resource comes back only by an operator's action:
\* the answer to a request that was under way changes neither its status nor
\* its content.
OnlyOperatorsRevive ==
    [][\A r \in Resources :
          /\ row[r].status \in {"paused", "gone"}
          /\ asks' = asks
          => /\ row'[r].status = row[r].status
             /\ row'[r].version = row[r].version]_vars

\* A refresh is not applied under a policy that has replaced the one it was
\* leased under.
LeaseHasItsPolicy ==
    \A t \in Tokens :
        /\ job[t].pc # "none"
        /\ row[job[t].res].token = t
        => job[t].policy = row[job[t].res].policy

\* What the origin serves is stored in the end, as long as the resource is
\* watched and has a due time, although jobs, answers and leases are lost.
Scheduled(r) == /\ row[r].policy # "manual"
                /\ row[r].status \in {"active", "unreachable"}
                /\ row[r].due # "never"
ContentCatchesUp ==
    \A r \in Resources :
        Scheduled(r) /\ row[r].version # page[r]
            ~> ~Scheduled(r) \/ row[r].version = page[r]

=============================================================================
