------------------------------ MODULE CanonSync ------------------------------
(***************************************************************************)
(* A repository bound to a tenant's canon (app/services/canon_sync.py):    *)
(* what a sync run reads, plans and writes while people edit the same      *)
(* pages.                                                                  *)
(*                                                                         *)
(* A run works in one transaction and means to commit once, but two of its *)
(* calls commit for it: the embedding of an updated page, and the archival *)
(* of a page whose file is gone.  pend holds what the run has written and  *)
(* not committed; a commit brings all of it into the tables.               *)
(*                                                                         *)
(* There is one binding and one run at a time.  Left out: the import caps, *)
(* rooms, tags, counters, the question a removed file files, the change    *)
(* probe of the watcher, and a second run that a poll and a person start   *)
(* at the same instant.                                                    *)
(***************************************************************************)
EXTENDS CanonPages

CONSTANTS
    Paths,      \* the files the repository can have
    SlugOf,     \* the slug each file's name gives
    NoFile,     \* the content of a path without a file
    Broken,     \* the content of a file that does not parse
    MaxPushes,  \* how many times the repository changes, a bound
    MaxFaults   \* how many crashes, timeouts and failures there are, a bound

ASSUME PathsExist == Paths # {}
ASSUME SlugOfIsSlug == SlugOf \in [Paths -> Slugs]
ASSUME FilesAreDistinct == NoFile # Broken /\ {NoFile, Broken} \intersect Bodies = {}
ASSUME BoundsAreNat == MaxPushes \in Nat /\ MaxFaults \in Nat

VARIABLES
    repo,       \* what the head commit of the repository holds
    row,        \* sync_source_files: known, and whether page_slug is set
    asked,      \* the conflict artifacts, by page and text
    accept,     \* the accept request of each editor
    run,        \* the sync run: its row, its job and its progress
    pend,       \* what the run has written and not committed
    pushes, faults

syncVars == <<repo, row, asked, accept, run, pend, pushes, faults>>
vars == <<pageVars, syncVars>>

Contents == Bodies \union {NoFile, Broken}
Actions == {"create", "skip", "conflict", "update"}
RowRecord == [known : BOOLEAN, claim : BOOLEAN]

NewRow == [known |-> FALSE, claim |-> FALSE]

RunRecord == [
    status : {"none", "queued", "running"},     \* the sync_runs row
    job : BOOLEAN,                              \* whether ARQ has its job
    pc : {"idle", "plan", "apply", "save", "embed", "remove"},
    files : [Paths -> Contents],                \* the checkout
    plan : [Paths -> Actions],                  \* what plan_import made of it
    rows : [Paths -> RowRecord],                \* the rows as they were loaded
    todo : SUBSET Paths,                        \* what this pass has still to do
    at : Paths, seen : PageRow]                 \* the update under way

\* What the run has written and not committed: pages created, archived pages
\* taken back to draft, rows inserted or updated, rows whose page_slug is set or
\* cleared, and artifacts.
PendRecord == [made : SUBSET (Slugs \X Bodies), revived : SUBSET Slugs,
               touched : SUBSET Paths, claimed : SUBSET Paths, dropped : SUBSET Paths,
               asked : SUBSET (Slugs \X Bodies)]

AcceptRecord == [pc : {"idle", "loaded", "claiming"}, path : Paths,
                 body : Bodies \union {NoBody}, seen : PageRow, found : BOOLEAN]

NoRun == [status |-> "none", job |-> FALSE, pc |-> "idle",
          files |-> [p \in Paths |-> NoFile], plan |-> [p \in Paths |-> "skip"],
          rows |-> [p \in Paths |-> NewRow],
          todo |-> {}, at |-> CHOOSE p \in Paths : TRUE, seen |-> NoPage]

NoPend == [made |-> {}, revived |-> {}, touched |-> {}, claimed |-> {},
           dropped |-> {}, asked |-> {}]

NoAccept == [pc |-> "idle", path |-> CHOOSE p \in Paths : TRUE, body |-> NoBody,
             seen |-> NoPage, found |-> FALSE]

Init ==
    /\ PagesInit
    /\ repo = [p \in Paths |-> NoFile]
    /\ row = [p \in Paths |-> NewRow]
    /\ asked = {}
    /\ accept = [e \in Editors |-> NoAccept]
    /\ run = NoRun
    /\ pend = NoPend
    /\ pushes = 0
    /\ faults = 0

-----------------------------------------------------------------------------
(* The locks of the run's transaction, and its commit.                     *)

\* The run holds the uncommitted row of the page, or of the file.
PageHeld(s) == s \in pend.revived \/ \E b \in Bodies : <<s, b>> \in pend.made
RowHeld(p) == p \in pend.touched

\* A row the run inserts was inserted by someone else meanwhile; the unique
\* index refuses it.
InsertClashes == \E p \in pend.touched : ~run.rows[p].known /\ row[p].known

PageCommitted(s) ==
    IF \E b \in Bodies : <<s, b>> \in pend.made
    THEN Draft(CHOOSE b \in Bodies : <<s, b>> \in pend.made, "binding")
    ELSE IF s \in pend.revived THEN [page[s] EXCEPT !.status = "draft"] ELSE page[s]

RowCommitted(p) ==
    [known |-> row[p].known \/ p \in pend.touched,
     claim |-> IF p \in pend.claimed THEN TRUE
               ELSE IF p \in pend.dropped THEN FALSE ELSE row[p].claim]

\* Everything pending reaches the tables, with one page changed by the call
\* that commits.
CommitWith(s, new) ==
    /\ ~InsertClashes
    /\ page' = [[t \in Slugs |-> PageCommitted(t)] EXCEPT ![s] = new]
    /\ row' = [p \in Paths |-> RowCommitted(p)]
    /\ asked' = asked \union pend.asked

-----------------------------------------------------------------------------
(* The repository and the start of a run.                                  *)

\* The head commit moves.
Push(p, c) ==
    /\ pushes < MaxPushes
    /\ repo[p] # c
    /\ repo' = [repo EXCEPT ![p] = c]
    /\ pushes' = pushes + 1
    /\ UNCHANGED <<pageVars, row, asked, accept, run, pend, faults>>

StartWith(job) ==
    /\ run.status = "none"
    /\ run' = [run EXCEPT !.status = "queued", !.job = job]
    /\ UNCHANGED <<pageVars, repo, row, asked, accept, pend, pushes>>

\* The poller, the watcher or a person starts a run and queues its job.
Start == StartWith(TRUE) /\ UNCHANGED faults

\* The process stops between the commit and the enqueue.
StartLosesJob == faults < MaxFaults /\ faults' = faults + 1 /\ StartWith(FALSE)

\* The push hook starts a run and queues no job for it.
HookStarts == pushes > 0 /\ StartWith(FALSE) /\ UNCHANGED faults

\* Faulty: only a queued run may begin.
BeginQueued ==
    /\ run.status = "queued"
    /\ run.job
    /\ run.pc = "idle"
    /\ run' = [run EXCEPT !.status = "running", !.job = FALSE, !.pc = "plan"]
    /\ UNCHANGED <<pageVars, repo, row, asked, accept, pend, pushes, faults>>

\* run_sync_run: whatever the row says, the run is running.
Begin ==
    /\ run.job
    /\ run.pc = "idle"
    /\ run' = [run EXCEPT !.status = "running", !.job = FALSE, !.pc = "plan"]
    /\ UNCHANGED <<pageVars, repo, row, asked, accept, pend, pushes, faults>>

\* The transaction is rolled back and the run is failed.
Fails ==
    /\ run' = NoRun
    /\ pend' = NoPend
    /\ UNCHANGED <<pageVars, repo, row, asked, accept, pushes>>

-----------------------------------------------------------------------------
(* plan_import.                                                            *)

Parsed(p) == repo[p] \in Bodies

\* Two files claim one slug: validate_import_batch refuses the batch.
SlugClash == \E p, q \in Paths : p # q /\ Parsed(p) /\ Parsed(q) /\ SlugOf[p] = SlugOf[q]

ActionFor(p) ==
    LET s == SlugOf[p] IN
    IF ~Exists(s) THEN "create"
    ELSE IF page[s].body = repo[p] THEN "skip"
    ELSE IF page[s].status = "published" THEN "conflict" ELSE "update"

Plan ==
    /\ run.pc = "plan"
    /\ ~SlugClash
    /\ run' = [run EXCEPT !.pc = "apply", !.files = repo, !.rows = row,
                          !.plan = [p \in Paths |-> IF Parsed(p) THEN ActionFor(p) ELSE "skip"],
                          !.todo = {p \in Paths : Parsed(p)}]
    /\ UNCHANGED <<pageVars, repo, row, asked, accept, pend, pushes, faults>>

PlanRefused == run.pc = "plan" /\ SlugClash /\ Fails /\ UNCHANGED faults

-----------------------------------------------------------------------------
(* The plan is applied, one file after the other.                          *)

\* The binding owns the page: a row claims its slug, or the path has a row.
Owned(p) ==
    \/ run.rows[p].known
    \/ \E q \in Paths : run.rows[q].claim /\ SlugOf[q] = SlugOf[p]

\* Faulty: the plan is applied whoever owns the page.
ActionOfPlan(p) == run.plan[p]

ActionOf(p) ==
    IF run.plan[p] # "create" /\ ~Owned(p) THEN "conflict" ELSE run.plan[p]

\* The row of a file that was dealt with; claimed if its page is the binding's.
\* Only a page_slug that was not set when the run loaded the row is written.
Recorded(p, action) ==
    [pend EXCEPT !.touched = @ \union {p},
                 !.claimed = IF action # "conflict" /\ ~run.rows[p].claim
                             THEN @ \union {p} ELSE @]

Done(p) == run' = [run EXCEPT !.todo = @ \ {p}, !.pc = "apply", !.seen = NoPage]

ApplyTo(p, action) ==
    /\ run.pc = "apply"
    /\ p \in run.todo
    /\ ActionOf(p) = action

\* Faulty: create_canon_page is called without commit=False.
ApplyCreateCommits(p) ==
    /\ ApplyTo(p, "create")
    /\ ~Exists(SlugOf[p])
    /\ CommitWith(SlugOf[p], Draft(run.files[p], "binding"))
    /\ pend' = [NoPend EXCEPT !.touched = {p}, !.claimed = {p}]
    /\ Done(p)
    /\ UNCHANGED <<edit, edits, repo, accept, pushes, faults>>

ApplyCreate(p) ==
    /\ ApplyTo(p, "create")
    /\ ~Exists(SlugOf[p])
    /\ pend' = [Recorded(p, "create") EXCEPT
                    !.made = @ \union {<<SlugOf[p], run.files[p]>>}]
    /\ Done(p)
    /\ UNCHANGED <<pageVars, repo, row, asked, accept, pushes, faults>>

\* A person made a page of that slug since the plan.
CreateRefused(p) ==
    ApplyTo(p, "create") /\ Exists(SlugOf[p]) /\ Fails /\ UNCHANGED faults

ApplySkip(p) ==
    /\ ApplyTo(p, "skip")
    /\ pend' = Recorded(p, "skip")
    /\ Done(p)
    /\ UNCHANGED <<pageVars, repo, row, asked, accept, pushes, faults>>

\* A conflict writes an artifact and no page, and a row for the path.
ApplyConflict(p) ==
    /\ ApplyTo(p, "conflict")
    /\ pend' = [Recorded(p, "conflict") EXCEPT
                    !.asked = @ \union {<<SlugOf[p], run.files[p]>>}]
    /\ Done(p)
    /\ UNCHANGED <<pageVars, repo, row, asked, accept, pushes, faults>>

\* update_canon_page loads the page ...
ApplyUpdate(p) ==
    /\ ApplyTo(p, "update")
    /\ run' = [run EXCEPT !.pc = "save", !.at = p, !.seen = page[SlugOf[p]]]
    /\ UNCHANGED <<pageVars, repo, row, asked, accept, pend, pushes, faults>>

\* ... saves the text, and process_prebuilt_item commits before it embeds.
SaveUpdate ==
    LET s == SlugOf[run.at] IN
    /\ run.pc = "save"
    /\ run.seen.body # run.files[run.at]
    /\ CommitWith(s, Updated(page[s], run.seen, run.files[run.at]))
    /\ pend' = NoPend
    /\ run' = [run EXCEPT !.pc = "embed",
                          !.seen.status = StatusAfter(run.seen, run.files[run.at])]
    /\ UNCHANGED <<edit, edits, repo, accept, pushes, faults>>

\* Someone gave the page this very text since the plan: nothing to embed.
SameText == run.pc = "save" /\ run.seen.body = run.files[run.at]

\* The vectors are stored; an archived page becomes a draft again.
AfterUpdate ==
    /\ run.pc = "embed" \/ SameText
    /\ pend' = [Recorded(run.at, "update") EXCEPT
                    !.revived = IF run.seen.status = "archived"
                                THEN @ \union {SlugOf[run.at]} ELSE @]
    /\ Done(run.at)
    /\ UNCHANGED <<pageVars, repo, row, asked, accept, pushes, faults>>

\* The embedding service fails.
EmbedFails ==
    /\ run.pc = "embed"
    /\ faults < MaxFaults
    /\ faults' = faults + 1
    /\ Fails

-----------------------------------------------------------------------------
(* Files that left the repository, and the end of the run.                 *)

\* The rows of paths without a file.
Gone == {p \in Paths : run.rows[p].known /\ run.files[p] = NoFile}

Applied ==
    /\ run.pc = "apply"
    /\ run.todo = {}
    /\ run' = [run EXCEPT !.pc = "remove", !.todo = Gone]
    /\ UNCHANGED <<pageVars, repo, row, asked, accept, pend, pushes, faults>>

\* archive_canon_page commits, with everything pending; the row's claim is
\* dropped after it.
RemovePage(p) ==
    LET s == SlugOf[p] IN
    /\ run.pc = "remove"
    /\ p \in run.todo
    /\ run.rows[p].claim
    /\ CommitWith(s, [PageCommitted(s) EXCEPT !.status = "archived"])
    /\ pend' = [NoPend EXCEPT !.touched = {p}, !.dropped = {p}]
    /\ run' = [run EXCEPT !.todo = @ \ {p}]
    /\ UNCHANGED <<edit, edits, repo, accept, pushes, faults>>

\* A row that claims no page is only marked.
RemoveRow(p) ==
    /\ run.pc = "remove"
    /\ p \in run.todo
    /\ ~run.rows[p].claim
    /\ pend' = [pend EXCEPT !.touched = @ \union {p}]
    /\ run' = [run EXCEPT !.todo = @ \ {p}]
    /\ UNCHANGED <<pageVars, repo, row, asked, accept, pushes, faults>>

Finish ==
    /\ run.pc = "remove"
    /\ run.todo = {}
    /\ ~InsertClashes
    /\ page' = [s \in Slugs |-> PageCommitted(s)]
    /\ row' = [p \in Paths |-> RowCommitted(p)]
    /\ asked' = asked \union pend.asked
    /\ pend' = NoPend
    /\ run' = NoRun
    /\ UNCHANGED <<edit, edits, repo, accept, pushes, faults>>

\* The database refuses a row that was inserted meanwhile.
InsertRefused == run.pc # "idle" /\ InsertClashes /\ Fails /\ UNCHANGED faults

\* The worker dies and the job is run again; the row stays running.
RunDies ==
    /\ run.pc # "idle"
    /\ faults < MaxFaults
    /\ faults' = faults + 1
    /\ run' = [NoRun EXCEPT !.status = "running", !.job = TRUE]
    /\ pend' = NoPend
    /\ UNCHANGED <<pageVars, repo, row, asked, accept, pushes>>

\* The job exceeds its time limit: it is cancelled, not run again, and the
\* handler of errors does not see a cancellation.
RunTimesOut ==
    /\ run.pc # "idle"
    /\ faults < MaxFaults
    /\ faults' = faults + 1
    /\ run' = [NoRun EXCEPT !.status = "running"]
    /\ pend' = NoPend
    /\ UNCHANGED <<pageVars, repo, row, asked, accept, pushes>>

-----------------------------------------------------------------------------
(* People.                                                                 *)

CreatePageFree(s, b) == ~PageHeld(s) /\ CreatePage(s, b) /\ UNCHANGED syncVars

LoadPageIdle(e, op, s, b) ==
    accept[e].pc = "idle" /\ LoadPage(e, op, s, b) /\ UNCHANGED syncVars

SavePageFree(e) == ~PageHeld(edit[e].slug) /\ SavePage(e) /\ UNCHANGED syncVars

\* accept_repo_version reads the file and the page ...
AcceptLoad(e, p) ==
    /\ MayEdit
    /\ edit[e].pc = "idle"
    /\ accept[e].pc = "idle"
    /\ Parsed(p)
    /\ Exists(SlugOf[p])
    /\ accept' = [accept EXCEPT ![e] = [pc |-> "loaded", path |-> p, body |-> repo[p],
                                        seen |-> page[SlugOf[p]], found |-> FALSE]]
    /\ UNCHANGED <<page, edit, repo, row, asked, run, pend, pushes, faults>>

\* ... commits the text, and looks up the row of the path ...
AcceptText(e) ==
    LET s == SlugOf[accept[e].path] IN
    /\ accept[e].pc = "loaded"
    /\ ~PageHeld(s)
    /\ page' = [page EXCEPT ![s] = Updated(@, accept[e].seen, accept[e].body)]
    /\ accept' = [accept EXCEPT ![e].pc = "claiming",
                                ![e].found = row[accept[e].path].known]
    /\ UNCHANGED <<edit, edits, repo, row, asked, run, pend, pushes, faults>>

\* ... and commits the claim.  The insert of a row that exists by now fails.
AcceptClaim(e) ==
    LET p == accept[e].path IN
    /\ accept[e].pc = "claiming"
    /\ ~RowHeld(p)
    /\ row' = IF row[p].known = accept[e].found
              THEN [row EXCEPT ![p] = [known |-> TRUE, claim |-> TRUE]] ELSE row
    /\ accept' = [accept EXCEPT ![e] = NoAccept]
    /\ UNCHANGED <<pageVars, repo, asked, run, pend, pushes, faults>>

\* The request is lost between its two commits.
AcceptDies(e) ==
    /\ accept[e].pc = "claiming"
    /\ faults < MaxFaults
    /\ faults' = faults + 1
    /\ accept' = [accept EXCEPT ![e] = NoAccept]
    /\ UNCHANGED <<pageVars, repo, row, asked, run, pend, pushes>>

-----------------------------------------------------------------------------

RunStep ==
    \/ Begin \/ Plan \/ PlanRefused
    \/ \E p \in Paths : ApplyCreate(p) \/ CreateRefused(p) \/ ApplySkip(p)
                          \/ ApplyConflict(p) \/ ApplyUpdate(p)
    \/ SaveUpdate \/ AfterUpdate \/ Applied
    \/ \E p \in Paths : RemovePage(p) \/ RemoveRow(p)
    \/ Finish \/ InsertRefused

Fault ==
    \/ StartLosesJob \/ EmbedFails \/ RunDies \/ RunTimesOut
    \/ \E e \in Editors : AcceptDies(e)

Person ==
    \/ \E s \in Slugs, b \in Bodies : CreatePageFree(s, b)
    \/ \E e \in Editors, s \in Slugs, b \in Bodies \union {NoBody},
          op \in {"update", "publish", "archive"} : LoadPageIdle(e, op, s, b)
    \/ \E e \in Editors : SavePageFree(e) \/ AcceptText(e) \/ AcceptClaim(e)
    \/ \E e \in Editors, p \in Paths : AcceptLoad(e, p)

Next ==
    \/ \E p \in Paths, c \in Contents : Push(p, c)
    \/ Start \/ HookStarts
    \/ RunStep
    \/ Fault
    \/ Person

SafeSpec == Init /\ [][Next]_vars

\* The poller comes back and the worker goes on with what it took.
Spec == SafeSpec /\ WF_vars(Start \/ RunStep)

-----------------------------------------------------------------------------
(* Properties.                                                             *)

TypeOK ==
    /\ PagesTypeOK
    /\ repo \in [Paths -> Contents]
    /\ row \in [Paths -> RowRecord]
    /\ asked \in SUBSET (Slugs \X Bodies)
    /\ accept \in [Editors -> AcceptRecord]
    /\ run \in RunRecord
    /\ pend \in PendRecord
    /\ pushes \in 0 .. MaxPushes
    /\ faults \in 0 .. MaxFaults

\* Whatever cuts a run short between its commits, a crash, a failed embedding, a
\* refused insert or a time-out, a page that the binding made is known by the row
\* of a file of its name: no later run takes the binding's own page for a
\* stranger's.
OwnPagesAreKnown ==
    \A s \in Slugs :
        page[s].by = "binding" => \E p \in Paths : SlugOf[p] = s /\ row[p].known

\* A run changes the text of a page only if an earlier commit has left a row of a
\* file of that name: a page that appears while the run is under way, between its
\* plan and its write, is not overwritten.
StrangersAreAsked ==
    [][\A s \in Slugs :
        RunStep /\ Exists(s) /\ page'[s].body # page[s].body
            => \E p \in Paths : SlugOf[p] = s /\ row[p].known]_vars

\* What docs/tenant-canon-design.md:446 says: a run does not change the text of a
\* page that a person wrote and that no file has been given.
PersonsPagesAreKept ==
    [][\A s \in Slugs :
        /\ RunStep
        /\ page[s].by = "person"
        /\ \A p \in Paths : SlugOf[p] = s => ~row[p].claim
        => page'[s].body = page[s].body]_vars

\* A run that is active, and that no job will go on with.
Stranded == run.status # "none" /\ ~run.job /\ run.pc = "idle"

\* What the canon is to make of a file: its text, or a question about it; and no
\* claim of a file that is gone.
Mirrored(p) ==
    CASE repo[p] = NoFile -> ~row[p].claim
      [] repo[p] = Broken -> TRUE
      [] OTHER -> page[SlugOf[p]].body = repo[p] \/ <<SlugOf[p], repo[p]>> \in asked

\* Whatever people and crashes do, in the end every file is mirrored, unless the
\* active run was left without a job or two files have one name.
SyncCatchesUp == <>[](Stranded \/ SlugClash \/ \A p \in Paths : Mirrored(p))

=============================================================================
