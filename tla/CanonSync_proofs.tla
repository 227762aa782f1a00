-------------------------- MODULE CanonSync_proofs --------------------------
(***************************************************************************)
(* Theorems about CanonSync, for all slugs, files, texts and editors and   *)
(* every bound: its types, that the binding's pages are known, and that a  *)
(* run does not write over a page no earlier commit has recorded.          *)
(***************************************************************************)
EXTENDS CanonSync, TLAPS

-----------------------------------------------------------------------------
(* Values of the helpers.                                                  *)

LEMMA NoPageType == NoPage \in PageRow
BY DEF NoPage, PageRow, Statuses

LEMMA IdleType == Idle \in EditRecord
<1>1. (CHOOSE s \in Slugs : TRUE) \in Slugs
  BY SlugsExist
<1> QED
  BY <1>1, NoPageType DEF Idle, EditRecord

LEMMA AnyPathType == (CHOOSE p \in Paths : TRUE) \in Paths
BY PathsExist

LEMMA NoRunType == NoRun \in RunRecord /\ NoRun.pc = "idle" /\ NoRun.rows = [p \in Paths |-> NewRow]
BY AnyPathType, NoPageType DEF NoRun, RunRecord, Contents, Actions, NewRow, RowRecord

LEMMA NoPendType ==
    /\ NoPend \in PendRecord
    /\ NoPend.made = {} /\ NoPend.touched = {} /\ NoPend.claimed = {}
BY DEF NoPend, PendRecord

LEMMA NoAcceptType == NoAccept \in AcceptRecord
BY AnyPathType, NoPageType DEF NoAccept, AcceptRecord

LEMMA DraftType ==
    ASSUME NEW b \in Bodies, NEW who \in {"person", "binding"}
    PROVE  Draft(b, who) \in PageRow /\ Draft(b, who).by = who
BY DEF Draft, PageRow, Statuses

\* A save writes text and status, never the author.
LEMMA UpdatedType ==
    ASSUME NEW now \in PageRow, NEW seen \in PageRow, NEW b \in Bodies \union {NoBody}
    PROVE  Updated(now, seen, b) \in PageRow /\ Updated(now, seen, b).by = now.by
BY DEF Updated, Put, StatusAfter, PageRow, Statuses

LEMMA MarkedType ==
    ASSUME NEW now \in PageRow, NEW seen \in PageRow, NEW status \in Statuses
    PROVE  Marked(now, seen, status) \in PageRow /\ Marked(now, seen, status).by = now.by
BY DEF Marked, Put, PageRow

LEMMA PageCommittedType ==
    ASSUME TypeOK, NEW s \in Slugs
    PROVE  /\ PageCommitted(s) \in PageRow
           /\ \/ PageCommitted(s).by = page[s].by /\ PageCommitted(s).body = page[s].body
              \/ \E b \in Bodies : <<s, b>> \in pend.made
<1>0. page[s] \in PageRow
  BY DEF TypeOK, PagesTypeOK
<1>1. CASE \E b \in Bodies : <<s, b>> \in pend.made
  <2> DEFINE c == CHOOSE b \in Bodies : <<s, b>> \in pend.made
  <2>1. c \in Bodies
    BY <1>1
  <2>2. PageCommitted(s) = Draft(c, "binding")
    BY <1>1 DEF PageCommitted
  <2> HIDE DEF c
  <2> QED
    BY <1>1, <2>1, <2>2, DraftType
<1>2. CASE ~ \E b \in Bodies : <<s, b>> \in pend.made
  <2>1. CASE s \in pend.revived
    <3> DEFINE x == [page[s] EXCEPT !.status = "draft"]
    <3>1. x \in PageRow /\ x.by = page[s].by /\ x.body = page[s].body
      BY <1>0 DEF PageRow, Statuses
    <3>2. PageCommitted(s) = x
      BY <1>2, <2>1 DEF PageCommitted
    <3> HIDE DEF x
    <3> QED
      BY <3>1, <3>2
  <2>2. CASE s \notin pend.revived
    BY <1>0, <1>2, <2>2 DEF PageCommitted
  <2> QED
    BY <2>1, <2>2
<1> QED
  BY <1>1, <1>2

LEMMA RowCommittedType ==
    ASSUME TypeOK, NEW p \in Paths
    PROVE  /\ RowCommitted(p) \in RowRecord
           /\ RowCommitted(p).known = (row[p].known \/ p \in pend.touched)
           /\ RowCommitted(p).claim => p \in pend.claimed \/ row[p].claim
BY DEF TypeOK, RowCommitted, RowRecord

LEMMA RecordedType ==
    ASSUME TypeOK, NEW p \in Paths, NEW action \in Actions
    PROVE  /\ Recorded(p, action) \in PendRecord
           /\ Recorded(p, action).made = pend.made
           /\ Recorded(p, action).touched = pend.touched \union {p}
           /\ Recorded(p, action).claimed \subseteq pend.claimed \union {p}
BY DEF TypeOK, Recorded, PendRecord, Actions

\* What a plan makes of a file is one of four actions.
LEMMA ActionForType ==
    ASSUME NEW p \in Paths
    PROVE  ActionFor(p) \in Actions
BY DEF ActionFor, Actions

-----------------------------------------------------------------------------
(* The steps, and what they do to the tables.                              *)

LEMMA NextCases ==
    ASSUME Next
    PROVE  \/ \E p \in Paths, c \in Contents : Push(p, c)
           \/ Start \/ HookStarts \/ StartLosesJob \/ Begin \/ Plan \/ PlanRefused
           \/ \E p \in Paths :
                 \/ ApplyCreate(p) \/ CreateRefused(p) \/ ApplySkip(p) \/ ApplyConflict(p)
                 \/ ApplyUpdate(p) \/ RemovePage(p) \/ RemoveRow(p)
           \/ SaveUpdate \/ AfterUpdate \/ Applied \/ Finish \/ InsertRefused
           \/ EmbedFails \/ RunDies \/ RunTimesOut
           \/ \E s \in Slugs, b \in Bodies : CreatePageFree(s, b)
           \/ \E e \in Editors, s \in Slugs, b \in Bodies \union {NoBody},
                 op \in {"update", "publish", "archive"} : LoadPageIdle(e, op, s, b)
           \/ \E e \in Editors : SavePageFree(e) \/ AcceptText(e) \/ AcceptClaim(e) \/ AcceptDies(e)
           \/ \E e \in Editors, p \in Paths : AcceptLoad(e, p)
BY Zenon DEF Next, RunStep, Fault, Person

\* A file that is to be applied is one that parsed, and an update under way is of
\* one of them.
TodoParsed ==
    run.pc \in {"apply", "save", "embed"} =>
        /\ \A p \in run.todo : run.files[p] \in Bodies
        /\ run.pc # "apply" => run.at \in run.todo

\* A commit of the run, with at most one page changed by the call that commits.
Committing ==
    /\ pend' \in PendRecord /\ pend'.made = {} /\ pend'.claimed = {}
    /\ row' = [p \in Paths |-> RowCommitted(p)]
    /\ asked' = asked \union pend.asked
    /\ \E s \in Slugs, new \in PageRow :
          /\ new.by = page[s].by \/ new.by = PageCommitted(s).by
          /\ new.body = PageCommitted(s).body \/ (run.pc = "save" /\ s = SlugOf[run.at])
          /\ page' = [[t \in Slugs |-> PageCommitted(t)] EXCEPT ![s] = new]

\* A person's write to one page that the run does not hold.
PersonWrites ==
    /\ UNCHANGED <<row, asked, run, pend>>
    /\ \E s \in Slugs, new \in PageRow :
          /\ ~PageHeld(s)
          /\ new.by = page[s].by \/ new.by = "person"
          /\ page' = [page EXCEPT ![s] = new]

\* A person's claim of a page for a file.
PersonClaims ==
    /\ UNCHANGED <<page, asked, run, pend>>
    /\ \E p \in Paths : row' = [row EXCEPT ![p] = [known |-> TRUE, claim |-> TRUE]]

LEMMA SaveCommits ==
    ASSUME TypeOK, TodoParsed, SaveUpdate
    PROVE  Committing
<1> DEFINE s == SlugOf[run.at]
           new == Updated(page[s], run.seen, run.files[run.at])
<1>1. s \in Slugs /\ page[s] \in PageRow /\ run.seen \in PageRow
  BY SlugOfIsSlug DEF TypeOK, PagesTypeOK, RunRecord
<1>2. run.pc = "save" /\ run.files[run.at] \in Bodies
  BY DEF SaveUpdate, TodoParsed
<1>3. /\ page' = [[t \in Slugs |-> PageCommitted(t)] EXCEPT ![s] = new]
      /\ row' = [p \in Paths |-> RowCommitted(p)]
      /\ asked' = asked \union pend.asked
      /\ pend' = NoPend
  BY DEF SaveUpdate, CommitWith
<1>4. new \in PageRow /\ new.by = page[s].by
  BY <1>1, <1>2, UpdatedType
<1> HIDE DEF new
<1> QED
  BY <1>1, <1>2, <1>3, <1>4, NoPendType DEF Committing

LEMMA RemoveCommits ==
    ASSUME TypeOK, NEW p \in Paths, RemovePage(p)
    PROVE  Committing
<1> DEFINE s == SlugOf[p]
           old == PageCommitted(s)
           new == [old EXCEPT !.status = "archived"]
           left == [NoPend EXCEPT !.touched = {p}, !.dropped = {p}]
<1>1. s \in Slugs /\ old \in PageRow
  BY SlugOfIsSlug, PageCommittedType
<1>2. /\ page' = [[t \in Slugs |-> PageCommitted(t)] EXCEPT ![s] = new]
      /\ row' = [q \in Paths |-> RowCommitted(q)]
      /\ asked' = asked \union pend.asked
      /\ pend' = left
  BY DEF RemovePage, CommitWith
<1> HIDE DEF old
<1>3. new \in PageRow /\ new.by = old.by /\ new.body = old.body
  BY <1>1 DEF PageRow, Statuses
<1>4. left \in PendRecord /\ left.made = {} /\ left.claimed = {}
  BY DEF NoPend, PendRecord
<1> HIDE DEF new, left
<1> QED
  BY <1>1, <1>2, <1>3, <1>4 DEF Committing, old

LEMMA FinishCommits ==
    ASSUME TypeOK, Finish
    PROVE  Committing
<1>1. PICK s \in Slugs : TRUE
  BY SlugsExist
<1> DEFINE all == [t \in Slugs |-> PageCommitted(t)]
<1>2. /\ page' = all
      /\ row' = [p \in Paths |-> RowCommitted(p)]
      /\ asked' = asked \union pend.asked
      /\ pend' = NoPend
  BY DEF Finish
<1>3. all = [all EXCEPT ![s] = PageCommitted(s)]
  OBVIOUS
<1>4. PageCommitted(s) \in PageRow
  BY <1>1, PageCommittedType
<1> QED
  BY <1>1, <1>2, <1>3, <1>4, NoPendType DEF Committing

LEMMA PersonsWrite ==
    ASSUME TypeOK,
           \/ \E s \in Slugs, b \in Bodies : CreatePageFree(s, b)
           \/ \E e \in Editors : SavePageFree(e) \/ AcceptText(e)
    PROVE  PersonWrites
<1>1. ASSUME NEW s \in Slugs, NEW b \in Bodies, CreatePageFree(s, b)
      PROVE  PersonWrites
  BY <1>1, DraftType DEF CreatePageFree, CreatePage, syncVars, PersonWrites
<1>2. ASSUME NEW e \in Editors, SavePageFree(e)
      PROVE  PersonWrites
  <2> DEFINE s == edit[e].slug
             new == Saved(e, page[s])
  <2>1. /\ s \in Slugs /\ page[s] \in PageRow /\ edit[e].seen \in PageRow
        /\ edit[e].body \in Bodies \union {NoBody}
    BY DEF TypeOK, PagesTypeOK, EditRecord
  <2>2. new \in PageRow /\ new.by = page[s].by
    <3> HIDE DEF s
    <3>1. CASE edit[e].op = "update"
      BY <2>1, <3>1, UpdatedType DEF Saved
    <3>2. CASE edit[e].op = "publish"
      BY <2>1, <3>2, MarkedType DEF Saved, Statuses
    <3>3. CASE edit[e].op \notin {"update", "publish"}
      BY <2>1, <3>3, MarkedType DEF Saved, Statuses
    <3> QED
      BY <3>1, <3>2, <3>3
  <2>3. page' = [page EXCEPT ![s] = new] /\ ~PageHeld(s) /\ UNCHANGED syncVars
    BY <1>2 DEF SavePageFree, SavePage
  <2> HIDE DEF new, s
  <2> QED
    BY <2>1, <2>2, <2>3 DEF syncVars, PersonWrites, s
<1>3. ASSUME NEW e \in Editors, AcceptText(e)
      PROVE  PersonWrites
  <2> DEFINE s == SlugOf[accept[e].path]
             new == Updated(page[s], accept[e].seen, accept[e].body)
  <2>1. /\ s \in Slugs /\ page[s] \in PageRow /\ accept[e].seen \in PageRow
        /\ accept[e].body \in Bodies \union {NoBody}
    BY SlugOfIsSlug DEF TypeOK, PagesTypeOK, AcceptRecord
  <2>2. new \in PageRow /\ new.by = page[s].by
    BY <2>1, UpdatedType
  <2>3. /\ page' = [page EXCEPT ![s] = new] /\ ~PageHeld(s)
        /\ UNCHANGED <<row, asked, run, pend>>
    BY <1>3 DEF AcceptText
  <2> HIDE DEF new, s
  <2> QED
    BY <2>1, <2>2, <2>3 DEF PersonWrites, s
<1> QED
  BY <1>1, <1>2, <1>3

LEMMA PersonsClaim ==
    ASSUME TypeOK, NEW e \in Editors, AcceptClaim(e)
    PROVE  PersonClaims \/ UNCHANGED <<page, row, asked, run, pend>>
BY DEF AcceptClaim, TypeOK, AcceptRecord, PersonClaims, pageVars

\* Every step commits for the run, or is a person's write or claim, or leaves pages
\* and rows alone.
LEMMA TableSteps ==
    ASSUME TypeOK, TodoParsed, [Next]_vars
    PROVE  Committing \/ PersonWrites \/ PersonClaims \/ UNCHANGED <<page, row, asked>>
<1>1. CASE UNCHANGED vars
  BY <1>1 DEF vars, pageVars, syncVars
<1>2. CASE SaveUpdate \/ Finish \/ \E p \in Paths : RemovePage(p)
  BY <1>2, SaveCommits, RemoveCommits, FinishCommits
<1>3. CASE \/ \E s \in Slugs, b \in Bodies : CreatePageFree(s, b)
           \/ \E e \in Editors : SavePageFree(e) \/ AcceptText(e)
  BY <1>3, PersonsWrite
<1>4. CASE \E e \in Editors : AcceptClaim(e)
  BY <1>4, PersonsClaim
<1>5. CASE \/ \E p \in Paths, c \in Contents : Push(p, c)
           \/ Start \/ HookStarts \/ StartLosesJob \/ Begin \/ Plan \/ PlanRefused
           \/ \E p \in Paths :
                 \/ ApplyCreate(p) \/ CreateRefused(p) \/ ApplySkip(p) \/ ApplyConflict(p)
                 \/ ApplyUpdate(p) \/ RemoveRow(p)
           \/ AfterUpdate \/ Applied \/ InsertRefused
           \/ EmbedFails \/ RunDies \/ RunTimesOut
           \/ \E e \in Editors, s \in Slugs, b \in Bodies \union {NoBody},
                 op \in {"update", "publish", "archive"} : LoadPageIdle(e, op, s, b)
           \/ \E e \in Editors : AcceptDies(e)
           \/ \E e \in Editors, p \in Paths : AcceptLoad(e, p)
  BY <1>5
     DEF Push, Start, HookStarts, StartLosesJob, StartWith, Begin, Plan, PlanRefused,
         Fails, ApplyCreate, CreateRefused, ApplySkip, ApplyConflict, ApplyUpdate,
         RemoveRow, AfterUpdate, Applied, InsertRefused, EmbedFails, RunDies,
         RunTimesOut, MayEdit, LoadPageIdle, LoadPage, AcceptDies, AcceptLoad, pageVars,
         syncVars
<1> QED
  BY Zenon, <1>1, <1>2, <1>3, <1>4, <1>5, NextCases

-----------------------------------------------------------------------------
(* What a step does to the pending writes and to the run.                  *)

\* Pending writes are added to: a page with the row of a file of its name, and a
\* claim with its row.
PendGrows ==
    /\ pend' \in PendRecord
    /\ pend.touched \subseteq pend'.touched
    /\ pend'.claimed \subseteq pend.claimed \union pend'.touched
    /\ \A s \in Slugs, b \in Bodies :
          <<s, b>> \in pend'.made =>
             \/ <<s, b>> \in pend.made
             \/ ~Exists(s) /\ \E p \in pend'.touched : SlugOf[p] = s

LEMMA RecordedGrows ==
    ASSUME TypeOK, NEW p \in Paths, NEW action \in Actions, NEW x \in PendRecord,
           x.made = Recorded(p, action).made, x.touched = Recorded(p, action).touched,
           x.claimed = Recorded(p, action).claimed, pend' = x
    PROVE  PendGrows
BY RecordedType DEF PendGrows

LEMMA CreateGrows ==
    ASSUME TypeOK, TodoParsed, NEW p \in Paths, ApplyCreate(p)
    PROVE  PendGrows
<1> DEFINE r == Recorded(p, "create")
           x == [r EXCEPT !.made = @ \union {<<SlugOf[p], run.files[p]>>}]
<1>1. /\ r \in PendRecord /\ r.made = pend.made /\ r.touched = pend.touched \union {p}
      /\ r.claimed \subseteq pend.claimed \union {p}
  BY RecordedType DEF Actions
<1>2. pend' = x /\ ~Exists(SlugOf[p]) /\ run.files[p] \in Bodies
  BY DEF ApplyCreate, ApplyTo, TodoParsed
<1>3. SlugOf[p] \in Slugs
  BY SlugOfIsSlug
<1> HIDE DEF r
<1>4. /\ x \in PendRecord /\ x.touched = r.touched /\ x.claimed = r.claimed
      /\ x.made = r.made \union {<<SlugOf[p], run.files[p]>>}
  BY <1>1, <1>2, <1>3 DEF PendRecord
<1> HIDE DEF x
<1> QED
  BY <1>1, <1>2, <1>3, <1>4 DEF PendGrows

LEMMA ConflictGrows ==
    ASSUME TypeOK, TodoParsed, NEW p \in Paths, ApplyConflict(p)
    PROVE  PendGrows
<1> DEFINE r == Recorded(p, "conflict")
           x == [r EXCEPT !.asked = @ \union {<<SlugOf[p], run.files[p]>>}]
<1>1. r \in PendRecord
  BY RecordedType DEF Actions
<1>2. pend' = x /\ run.files[p] \in Bodies
  BY DEF ApplyConflict, ApplyTo, TodoParsed
<1>3. SlugOf[p] \in Slugs
  BY SlugOfIsSlug
<1> HIDE DEF r
<1>4. x \in PendRecord /\ x.made = r.made /\ x.touched = r.touched /\ x.claimed = r.claimed
  BY <1>1, <1>2, <1>3 DEF PendRecord
<1> HIDE DEF x
<1> QED
  BY <1>1, <1>2, <1>4, RecordedGrows DEF r, Actions

LEMMA UpdateGrows ==
    ASSUME TypeOK, AfterUpdate
    PROVE  PendGrows
<1> DEFINE r == Recorded(run.at, "update")
           x == [r EXCEPT !.revived = IF run.seen.status = "archived"
                                      THEN @ \union {SlugOf[run.at]} ELSE @]
<1>1. run.at \in Paths /\ SlugOf[run.at] \in Slugs
  BY SlugOfIsSlug DEF TypeOK, RunRecord
<1>2. r \in PendRecord
  BY <1>1, RecordedType DEF Actions
<1>3. pend' = x
  BY DEF AfterUpdate
<1> HIDE DEF r
<1>4. x \in PendRecord /\ x.made = r.made /\ x.touched = r.touched /\ x.claimed = r.claimed
  BY <1>1, <1>2 DEF PendRecord
<1> HIDE DEF x
<1> QED
  BY <1>1, <1>2, <1>3, <1>4, RecordedGrows DEF r, Actions

LEMMA SkipGrows ==
    ASSUME TypeOK, NEW p \in Paths, ApplySkip(p) \/ RemoveRow(p)
    PROVE  PendGrows
<1>1. CASE ApplySkip(p)
  BY <1>1, RecordedType, RecordedGrows DEF ApplySkip, Actions
<1>2. CASE RemoveRow(p)
  <2> DEFINE x == [pend EXCEPT !.touched = @ \union {p}]
  <2>1. /\ x \in PendRecord /\ x.made = pend.made /\ x.touched = pend.touched \union {p}
        /\ x.claimed = pend.claimed
    BY DEF TypeOK, PendRecord
  <2>2. pend' = x
    BY <1>2 DEF RemoveRow
  <2> HIDE DEF x
  <2> QED
    BY <2>1, <2>2 DEF PendGrows
<1> QED
  BY <1>1, <1>2

LEMMA PendSteps ==
    ASSUME TypeOK, TodoParsed, [Next]_vars
    PROVE  Committing \/ pend' = NoPend \/ PendGrows
<1>1. CASE UNCHANGED pend
  BY <1>1 DEF TypeOK, PendGrows
<1>2. CASE SaveUpdate \/ Finish \/ \E p \in Paths : RemovePage(p)
  BY <1>2, SaveCommits, RemoveCommits, FinishCommits
<1>3. CASE AfterUpdate \/ \E p \in Paths : ApplyCreate(p) \/ ApplyConflict(p) \/ ApplySkip(p) \/ RemoveRow(p)
  BY <1>3, CreateGrows, ConflictGrows, UpdateGrows, SkipGrows
<1>4. CASE PlanRefused \/ InsertRefused \/ EmbedFails \/ RunDies \/ RunTimesOut \/ \E p \in Paths : CreateRefused(p)
  BY <1>4 DEF PlanRefused, InsertRefused, EmbedFails, RunDies, RunTimesOut, CreateRefused, Fails
<1>5. CASE \/ UNCHANGED vars
           \/ \E p \in Paths, c \in Contents : Push(p, c)
           \/ Start \/ HookStarts \/ StartLosesJob \/ Begin \/ Plan \/ Applied
           \/ \E p \in Paths : ApplyUpdate(p)
           \/ \E s \in Slugs, b \in Bodies : CreatePageFree(s, b)
           \/ \E e \in Editors, s \in Slugs, b \in Bodies \union {NoBody},
                 op \in {"update", "publish", "archive"} : LoadPageIdle(e, op, s, b)
           \/ \E e \in Editors : SavePageFree(e) \/ AcceptText(e) \/ AcceptClaim(e) \/ AcceptDies(e)
           \/ \E e \in Editors, p \in Paths : AcceptLoad(e, p)
  <2>1. UNCHANGED pend
    BY <1>5
       DEF vars, syncVars, Push, Start, HookStarts, StartLosesJob, StartWith, Begin, Plan, Applied,
           ApplyUpdate, CreatePageFree, LoadPageIdle, SavePageFree, AcceptText, AcceptClaim,
           AcceptDies, AcceptLoad
  <2> QED
    BY <1>1, <2>1
<1> QED
  BY Zenon, <1>2, <1>3, <1>4, <1>5, NextCases

\* The run keeps its type; the rows it holds are those it has loaded; and what it
\* is about to update is a page of the binding's.
RunNext ==
    /\ run' \in RunRecord
    /\ TodoParsed'
    /\ run'.rows = run.rows \/ run'.rows = row \/ run'.rows = [p \in Paths |-> NewRow]
    /\ run'.pc = "save" => (run.pc = "save" /\ run'.at = run.at) \/ Owned(run'.at)

LEMMA RunUnchanged ==
    ASSUME TypeOK, TodoParsed, UNCHANGED run
    PROVE  RunNext
BY DEF TypeOK, TodoParsed, RunNext

LEMMA RunReset ==
    ASSUME NEW status \in {"none", "queued", "running"}, NEW job \in BOOLEAN,
           run' = [NoRun EXCEPT !.status = status, !.job = job]
    PROVE  RunNext
<1> DEFINE x == [NoRun EXCEPT !.status = status, !.job = job]
<1>1. NoRun \in RunRecord /\ NoRun.pc = "idle" /\ NoRun.rows = [p \in Paths |-> NewRow]
  BY NoRunType
<1>2. x \in RunRecord /\ x.pc = "idle" /\ x.rows = [p \in Paths |-> NewRow]
  BY <1>1 DEF RunRecord
<1> HIDE DEF x
<1> QED
  BY <1>2 DEF x, RunNext, TodoParsed

LEMMA RunEnds ==
    ASSUME run' = NoRun
    PROVE  RunNext
BY NoRunType DEF RunNext, TodoParsed

LEMMA RunSteps ==
    ASSUME TypeOK, TodoParsed, [Next]_vars
    PROVE  RunNext
<1>0. run \in RunRecord /\ row \in [Paths -> RowRecord] /\ repo \in [Paths -> Contents]
  BY DEF TypeOK
<1>1. CASE Start \/ StartLosesJob \/ HookStarts
  <2>1. PICK job \in BOOLEAN : StartWith(job)
    BY <1>1 DEF Start, StartLosesJob, HookStarts
  <2> DEFINE x == [run EXCEPT !.status = "queued", !.job = job]
  <2>2. run' = x
    BY <2>1 DEF StartWith
  <2>3. /\ x \in RunRecord /\ x.pc = run.pc /\ x.rows = run.rows /\ x.files = run.files
        /\ x.todo = run.todo /\ x.at = run.at
    BY <1>0 DEF RunRecord
  <2> HIDE DEF x
  <2> QED
    BY <2>2, <2>3 DEF TodoParsed, RunNext
<1>2. CASE Begin
  BY <1>0, <1>2 DEF Begin, RunRecord, TodoParsed, RunNext
<1>3. CASE Plan
  <2> DEFINE plan == [p \in Paths |-> IF Parsed(p) THEN ActionFor(p) ELSE "skip"]
             todo == {p \in Paths : Parsed(p)}
             x == [run EXCEPT !.pc = "apply", !.files = repo, !.rows = row,
                              !.plan = plan, !.todo = todo]
  <2>1. plan \in [Paths -> Actions] /\ todo \in SUBSET Paths /\ \A p \in todo : repo[p] \in Bodies
    BY ActionForType DEF Parsed, Actions
  <2>2. run' = x
    BY <1>3 DEF Plan
  <2> HIDE DEF plan, todo
  <2>3. /\ x \in RunRecord /\ x.pc = "apply" /\ x.rows = row /\ x.files = repo /\ x.todo = todo
    BY <1>0, <2>1 DEF RunRecord
  <2> HIDE DEF x
  <2> QED
    BY <2>1, <2>2, <2>3 DEF TodoParsed, RunNext
<1>4. ASSUME NEW p \in Paths, ApplyCreate(p) \/ ApplySkip(p) \/ ApplyConflict(p)
      PROVE  RunNext
  <2> DEFINE x == [run EXCEPT !.todo = @ \ {p}, !.pc = "apply", !.seen = NoPage]
  <2>1. run' = x /\ run.pc = "apply"
    BY <1>4 DEF ApplyCreate, ApplySkip, ApplyConflict, ApplyTo, Done
  <2>2. /\ x \in RunRecord /\ x.pc = "apply" /\ x.rows = run.rows /\ x.files = run.files
        /\ x.todo = run.todo \ {p}
    BY <1>0, NoPageType DEF RunRecord
  <2> HIDE DEF x
  <2> QED
    BY <2>1, <2>2 DEF TodoParsed, RunNext
<1>5. ASSUME NEW p \in Paths, ApplyUpdate(p)
      PROVE  RunNext
  <2> DEFINE x == [run EXCEPT !.pc = "save", !.at = p, !.seen = page[SlugOf[p]]]
  <2>1. run' = x /\ run.pc = "apply" /\ p \in run.todo /\ Owned(p)
    BY <1>5 DEF ApplyUpdate, ApplyTo, ActionOf
  <2>2. page[SlugOf[p]] \in PageRow
    BY SlugOfIsSlug DEF TypeOK, PagesTypeOK
  <2>3. /\ x \in RunRecord /\ x.pc = "save" /\ x.rows = run.rows /\ x.files = run.files
        /\ x.todo = run.todo /\ x.at = p
    BY <1>0, <2>2 DEF RunRecord
  <2> HIDE DEF x
  <2> QED
    BY <2>1, <2>3 DEF TodoParsed, RunNext
<1>6. CASE SaveUpdate
  <2> DEFINE x == [run EXCEPT !.pc = "embed", !.seen.status = StatusAfter(run.seen, run.files[run.at])]
  <2>1. run' = x /\ run.pc = "save"
    BY <1>6 DEF SaveUpdate
  <2>2. StatusAfter(run.seen, run.files[run.at]) \in Statuses
    BY <1>0 DEF StatusAfter, RunRecord, PageRow, Statuses
  <2>3. /\ x \in RunRecord /\ x.pc = "embed" /\ x.rows = run.rows /\ x.files = run.files
        /\ x.todo = run.todo /\ x.at = run.at
    BY <1>0, <2>2 DEF RunRecord, PageRow
  <2> HIDE DEF x
  <2> QED
    BY <2>1, <2>3 DEF TodoParsed, RunNext
<1>7. CASE AfterUpdate
  <2> DEFINE x == [run EXCEPT !.todo = @ \ {run.at}, !.pc = "apply", !.seen = NoPage]
  <2>1. run' = x /\ run.pc \in {"save", "embed"}
    BY <1>7 DEF AfterUpdate, SameText, Done
  <2>2. /\ x \in RunRecord /\ x.pc = "apply" /\ x.rows = run.rows /\ x.files = run.files
        /\ x.todo = run.todo \ {run.at}
    BY <1>0, NoPageType DEF RunRecord
  <2> HIDE DEF x
  <2> QED
    BY <2>1, <2>2 DEF TodoParsed, RunNext
<1>8. CASE Applied
  BY <1>0, <1>8 DEF Applied, Gone, RunRecord, TodoParsed, RunNext
<1>9. ASSUME NEW p \in Paths, RemovePage(p) \/ RemoveRow(p)
      PROVE  RunNext
  BY <1>0, <1>9 DEF RemovePage, RemoveRow, RunRecord, TodoParsed, RunNext
<1>10. CASE PlanRefused \/ InsertRefused \/ EmbedFails \/ Finish \/ \E p \in Paths : CreateRefused(p)
  BY <1>10, RunEnds DEF PlanRefused, InsertRefused, EmbedFails, Finish, CreateRefused, Fails
<1>11. CASE RunDies
  BY <1>11, RunReset DEF RunDies
<1>12. CASE RunTimesOut
  <2>1. NoRun.job = FALSE /\ NoRun \in RunRecord
    BY NoRunType DEF NoRun
  <2>2. [NoRun EXCEPT !.status = "running"] = [NoRun EXCEPT !.status = "running", !.job = FALSE]
    BY <2>1 DEF RunRecord
  <2> QED
    BY <1>12, <2>2, RunReset DEF RunTimesOut
<1>13. CASE \/ UNCHANGED vars
            \/ \E p \in Paths, c \in Contents : Push(p, c)
            \/ \E s \in Slugs, b \in Bodies : CreatePageFree(s, b)
            \/ \E e \in Editors, s \in Slugs, b \in Bodies \union {NoBody},
                  op \in {"update", "publish", "archive"} : LoadPageIdle(e, op, s, b)
            \/ \E e \in Editors : SavePageFree(e) \/ AcceptText(e) \/ AcceptClaim(e) \/ AcceptDies(e)
            \/ \E e \in Editors, p \in Paths : AcceptLoad(e, p)
  <2>1. UNCHANGED run
    BY <1>13
       DEF vars, syncVars, Push, CreatePageFree, LoadPageIdle, SavePageFree, AcceptText, AcceptClaim,
           AcceptDies, AcceptLoad
  <2> QED
    BY <2>1, RunUnchanged
<1> QED
  BY Zenon, <1>1, <1>2, <1>3, <1>4, <1>5, <1>6, <1>7, <1>8, <1>9, <1>10, <1>11, <1>12, <1>13, NextCases

-----------------------------------------------------------------------------
(* Types.                                                                  *)

LEMMA TablesTyped ==
    ASSUME TypeOK, TodoParsed, [Next]_vars
    PROVE  /\ page' \in [Slugs -> PageRow]
           /\ row' \in [Paths -> RowRecord]
           /\ asked' \in SUBSET (Slugs \X Bodies)
<1>0. /\ page \in [Slugs -> PageRow] /\ row \in [Paths -> RowRecord]
      /\ asked \in SUBSET (Slugs \X Bodies) /\ pend \in PendRecord
  BY DEF TypeOK, PagesTypeOK
<1>1. CASE Committing
  <2>1. PICK s \in Slugs, new \in PageRow :
            page' = [[t \in Slugs |-> PageCommitted(t)] EXCEPT ![s] = new]
    BY <1>1 DEF Committing
  <2>2. [t \in Slugs |-> PageCommitted(t)] \in [Slugs -> PageRow]
    BY PageCommittedType
  <2>3. page' \in [Slugs -> PageRow]
    BY <2>1, <2>2
  <2>4. row' \in [Paths -> RowRecord]
    BY <1>1, RowCommittedType DEF Committing
  <2>5. asked' \in SUBSET (Slugs \X Bodies)
    BY <1>0, <1>1 DEF Committing, PendRecord
  <2> QED
    BY <2>3, <2>4, <2>5
<1>2. CASE PersonWrites
  BY <1>0, <1>2 DEF PersonWrites
<1>3. CASE PersonClaims
  BY <1>0, <1>3 DEF PersonClaims, RowRecord
<1>4. CASE UNCHANGED <<page, row, asked>>
  BY <1>0, <1>4
<1> QED
  BY <1>1, <1>2, <1>3, <1>4, TableSteps

LEMMA PendTyped ==
    ASSUME TypeOK, TodoParsed, [Next]_vars
    PROVE  pend' \in PendRecord
BY PendSteps, NoPendType DEF Committing, PendGrows

LEMMA EditsTyped ==
    ASSUME TypeOK, [Next]_vars
    PROVE  edit' \in [Editors -> EditRecord]
<1>0. edit \in [Editors -> EditRecord] /\ page \in [Slugs -> PageRow]
  BY DEF TypeOK, PagesTypeOK
<1>1. ASSUME NEW e \in Editors, NEW s \in Slugs, NEW b \in Bodies \union {NoBody},
             NEW op \in {"update", "publish", "archive"}, LoadPageIdle(e, op, s, b)
      PROVE  edit' \in [Editors -> EditRecord]
  BY <1>0, <1>1 DEF LoadPageIdle, LoadPage, EditRecord
<1>2. ASSUME NEW e \in Editors, SavePageFree(e)
      PROVE  edit' \in [Editors -> EditRecord]
  BY <1>0, <1>2, IdleType DEF SavePageFree, SavePage
<1>3. CASE UNCHANGED edit
  BY <1>0, <1>3
<1>4. \/ \E e \in Editors, s \in Slugs, b \in Bodies \union {NoBody},
            op \in {"update", "publish", "archive"} : LoadPageIdle(e, op, s, b)
      \/ \E e \in Editors : SavePageFree(e)
      \/ UNCHANGED edit
  <2>1. CASE UNCHANGED vars
    BY <2>1 DEF vars, pageVars
  <2>2. CASE Next
    BY <2>2, NextCases
       DEF Push, Start, HookStarts, StartLosesJob, StartWith, Begin, Plan, PlanRefused,
           Fails, ApplyCreate, CreateRefused, ApplySkip, ApplyConflict, ApplyUpdate,
           RemovePage, RemoveRow, SaveUpdate, AfterUpdate, Applied, Finish,
           InsertRefused, EmbedFails, RunDies, RunTimesOut, CreatePageFree, CreatePage,
           AcceptText, AcceptClaim, AcceptDies, AcceptLoad, pageVars
  <2> QED
    BY <2>1, <2>2
<1> QED
  BY Zenon, <1>1, <1>2, <1>3, <1>4

LEMMA AcceptsTyped ==
    ASSUME TypeOK, [Next]_vars
    PROVE  accept' \in [Editors -> AcceptRecord]
<1>0. /\ accept \in [Editors -> AcceptRecord] /\ page \in [Slugs -> PageRow]
      /\ row \in [Paths -> RowRecord]
  BY DEF TypeOK, PagesTypeOK
<1>1. ASSUME NEW e \in Editors, NEW p \in Paths, AcceptLoad(e, p)
      PROVE  accept' \in [Editors -> AcceptRecord]
  <2>1. page[SlugOf[p]] \in PageRow /\ repo[p] \in Bodies
    BY <1>0, <1>1, SlugOfIsSlug DEF AcceptLoad, Parsed
  <2> QED
    BY <1>0, <1>1, <2>1 DEF AcceptLoad, AcceptRecord
<1>2. ASSUME NEW e \in Editors, AcceptText(e)
      PROVE  accept' \in [Editors -> AcceptRecord]
  <2> DEFINE found == row[accept[e].path].known
             x == [accept[e] EXCEPT !.pc = "claiming", !.found = found]
  <2>1. accept[e] \in AcceptRecord /\ found \in BOOLEAN
    BY <1>0 DEF AcceptRecord, RowRecord
  <2>2. accept' = [accept EXCEPT ![e] = x]
    BY <1>0, <1>2 DEF AcceptText
  <2> HIDE DEF found
  <2>3. x \in AcceptRecord
    BY <2>1 DEF AcceptRecord
  <2> HIDE DEF x
  <2> QED
    BY <1>0, <2>2, <2>3
<1>3. ASSUME NEW e \in Editors, AcceptClaim(e) \/ AcceptDies(e)
      PROVE  accept' \in [Editors -> AcceptRecord]
  BY <1>0, <1>3, NoAcceptType DEF AcceptClaim, AcceptDies
<1>4. CASE UNCHANGED accept
  BY <1>0, <1>4
<1>5. \/ \E e \in Editors, p \in Paths : AcceptLoad(e, p)
      \/ \E e \in Editors : AcceptText(e) \/ AcceptClaim(e) \/ AcceptDies(e)
      \/ UNCHANGED accept
  <2>1. CASE UNCHANGED vars
    BY <2>1 DEF vars, syncVars
  <2>2. CASE Next
    BY <2>2, NextCases
       DEF Push, Start, HookStarts, StartLosesJob, StartWith, Begin, Plan, PlanRefused,
           Fails, ApplyCreate, CreateRefused, ApplySkip, ApplyConflict, ApplyUpdate,
           RemovePage, RemoveRow, SaveUpdate, AfterUpdate, Applied, Finish,
           InsertRefused, EmbedFails, RunDies, RunTimesOut, CreatePageFree, LoadPageIdle,
           SavePageFree, syncVars
  <2> QED
    BY <2>1, <2>2
<1> QED
  BY Zenon, <1>1, <1>2, <1>3, <1>4, <1>5

\* Edits, pushes and faults count up to their bounds, and the repository holds files.
LEMMA CountsTyped ==
    ASSUME TypeOK, [Next]_vars
    PROVE  /\ edits' \in 0 .. MaxEdits /\ pushes' \in 0 .. MaxPushes /\ faults' \in 0 .. MaxFaults
           /\ repo' \in [Paths -> Contents]
<1>1. MayEdit \/ UNCHANGED edits
  <2>1. CASE UNCHANGED vars
    BY <2>1 DEF vars, pageVars
  <2>2. CASE Next
    BY <2>2, NextCases
       DEF Push, Start, HookStarts, StartLosesJob, StartWith, Begin, Plan, PlanRefused,
           Fails, ApplyCreate, CreateRefused, ApplySkip, ApplyConflict, ApplyUpdate,
           RemovePage, RemoveRow, SaveUpdate, AfterUpdate, Applied, Finish,
           InsertRefused, EmbedFails, RunDies, RunTimesOut, CreatePageFree, CreatePage,
           LoadPageIdle, LoadPage, SavePageFree, SavePage, AcceptText, AcceptClaim,
           AcceptDies, AcceptLoad, pageVars
  <2> QED
    BY <2>1, <2>2
<1>2. (faults < MaxFaults /\ faults' = faults + 1) \/ UNCHANGED faults
  <2>1. CASE UNCHANGED vars
    BY <2>1 DEF vars, syncVars
  <2>2. CASE Next
    BY <2>2, NextCases
       DEF Push, Start, HookStarts, StartLosesJob, StartWith, Begin, Plan, PlanRefused,
           Fails, ApplyCreate, CreateRefused, ApplySkip, ApplyConflict, ApplyUpdate,
           RemovePage, RemoveRow, SaveUpdate, AfterUpdate, Applied, Finish,
           InsertRefused, EmbedFails, RunDies, RunTimesOut, CreatePageFree, LoadPageIdle,
           SavePageFree, AcceptText, AcceptClaim, AcceptDies, AcceptLoad, syncVars
  <2> QED
    BY <2>1, <2>2
<1>3. (\E p \in Paths, c \in Contents : Push(p, c)) \/ UNCHANGED <<repo, pushes>>
  <2>1. CASE UNCHANGED vars
    BY <2>1 DEF vars, syncVars
  <2>2. CASE Next
    BY <2>2, NextCases
       DEF Start, HookStarts, StartLosesJob, StartWith, Begin, Plan, PlanRefused, Fails,
           ApplyCreate, CreateRefused, ApplySkip, ApplyConflict, ApplyUpdate, RemovePage,
           RemoveRow, SaveUpdate, AfterUpdate, Applied, Finish, InsertRefused,
           EmbedFails, RunDies, RunTimesOut, CreatePageFree, LoadPageIdle, SavePageFree,
           AcceptText, AcceptClaim, AcceptDies, AcceptLoad, syncVars
  <2> QED
    BY <2>1, <2>2
<1>4. ASSUME NEW p \in Paths, NEW c \in Contents, Push(p, c)
      PROVE  pushes < MaxPushes /\ pushes' = pushes + 1 /\ repo' = [repo EXCEPT ![p] = c]
  BY <1>4 DEF Push
<1>5. edits' \in 0 .. MaxEdits
  BY <1>1, MaxEditsIsNat DEF TypeOK, PagesTypeOK, MayEdit
<1>6. faults' \in 0 .. MaxFaults
  BY <1>2, BoundsAreNat DEF TypeOK
<1>7. pushes' \in 0 .. MaxPushes
  BY <1>3, <1>4, BoundsAreNat DEF TypeOK
<1>8. repo' \in [Paths -> Contents]
  BY <1>3, <1>4 DEF TypeOK
<1> QED
  BY <1>5, <1>6, <1>7, <1>8

LEMMA TypeInit == Init => TypeOK /\ TodoParsed
<1>1. ASSUME Init
      PROVE  PagesTypeOK
  BY <1>1, NoPageType, IdleType, MaxEditsIsNat DEF Init, PagesInit, PagesTypeOK
<1>2. ASSUME Init
      PROVE  /\ repo \in [Paths -> Contents] /\ row \in [Paths -> RowRecord]
             /\ asked \in SUBSET (Slugs \X Bodies) /\ accept \in [Editors -> AcceptRecord]
             /\ run \in RunRecord /\ pend \in PendRecord
             /\ pushes \in 0 .. MaxPushes /\ faults \in 0 .. MaxFaults
  BY <1>2, NoAcceptType, NoRunType, NoPendType, BoundsAreNat
     DEF Init, Contents, NewRow, RowRecord
<1>3. ASSUME Init
      PROVE  TodoParsed
  BY <1>3, NoRunType DEF Init, TodoParsed
<1> QED
  BY <1>1, <1>2, <1>3 DEF TypeOK

LEMMA TypeNext == TypeOK /\ TodoParsed /\ [Next]_vars => TypeOK' /\ TodoParsed'
<1> SUFFICES ASSUME TypeOK, TodoParsed, [Next]_vars
             PROVE  TypeOK' /\ TodoParsed'
  OBVIOUS
<1>1. run' \in RunRecord /\ TodoParsed'
  BY RunSteps DEF RunNext
<1> QED
  BY <1>1, TablesTyped, PendTyped, EditsTyped, AcceptsTyped, CountsTyped DEF TypeOK, PagesTypeOK

\* Every variable stays in its type.
THEOREM TypeCorrect == SafeSpec => []TypeOK
<1>1. TypeOK /\ TodoParsed /\ [Next]_vars => TypeOK' /\ TodoParsed'
  BY TypeNext
<1> QED
  BY <1>1, TypeInit, PTL DEF SafeSpec

-----------------------------------------------------------------------------
(* The binding's pages are known, and strangers' pages are asked about.    *)

\* A page that is pending has its row pending with it, and is nobody else's.
PendKnown ==
    /\ \A s \in Slugs, b \in Bodies :
          <<s, b>> \in pend.made =>
             ~Exists(s) /\ \E p \in pend.touched : SlugOf[p] = s
    /\ pend.claimed \subseteq pend.touched

\* A claim is a claim of a known row; what the run has loaded is not forgotten; and
\* the page that it is about to save is one of a known row.
RowsKnown ==
    /\ \A p \in Paths : row[p].claim => row[p].known
    /\ \A p \in Paths : /\ run.rows[p].known => row[p].known
                        /\ run.rows[p].claim => run.rows[p].known
    /\ run.pc = "save" => \E p \in Paths : SlugOf[p] = SlugOf[run.at] /\ row[p].known

SyncInv == OwnPagesAreKnown /\ PendKnown /\ RowsKnown

\* What the cases of a step are for the tables and the pending writes together.
LEMMA Steps ==
    ASSUME TypeOK, TodoParsed, [Next]_vars
    PROVE  \/ Committing
           \/ PersonWrites
           \/ PersonClaims
           \/ UNCHANGED <<page, row>> /\ (pend' = NoPend \/ PendGrows)
BY TableSteps, PendSteps

\* A row that is known stays known, and only known rows are claimed.
LEMMA RowsNext ==
    ASSUME TypeOK, TodoParsed, SyncInv, [Next]_vars
    PROVE  \A p \in Paths : /\ row[p].known => row'[p].known
                            /\ row'[p].claim => row'[p].known
<1>0. row \in [Paths -> RowRecord]
  BY DEF TypeOK
<1>1. CASE Committing
  <2> SUFFICES ASSUME NEW p \in Paths
               PROVE  (row[p].known => row'[p].known) /\ (row'[p].claim => row'[p].known)
    OBVIOUS
  <2>1. row'[p] = RowCommitted(p)
    BY <1>1 DEF Committing
  <2>2. row[p].claim => row[p].known
    BY DEF SyncInv, RowsKnown
  <2>3. p \in pend.claimed => p \in pend.touched
    BY DEF SyncInv, PendKnown
  <2> QED
    BY <2>1, <2>2, <2>3, RowCommittedType
<1>2. CASE PersonClaims
  BY <1>0, <1>2 DEF PersonClaims, SyncInv, RowsKnown
<1>3. CASE UNCHANGED row
  BY <1>3 DEF SyncInv, RowsKnown
<1> QED
  BY <1>1, <1>2, <1>3, Steps DEF PersonWrites

LEMMA RowsKnownNext ==
    ASSUME TypeOK, TodoParsed, SyncInv, [Next]_vars
    PROVE  RowsKnown'
<1>1. \A p \in Paths : (row[p].known => row'[p].known) /\ (row'[p].claim => row'[p].known)
  BY RowsNext
<1>2. RunNext
  BY RunSteps
<1>3. \A p \in Paths : /\ run'.rows[p].known => row[p].known
                       /\ run'.rows[p].claim => run'.rows[p].known
  BY <1>2 DEF RunNext, SyncInv, RowsKnown, NewRow
<1>4. ASSUME run'.pc = "save"
      PROVE  \E p \in Paths : SlugOf[p] = SlugOf[run'.at] /\ row[p].known
  <2>1. CASE run.pc = "save" /\ run'.at = run.at
    BY <2>1 DEF SyncInv, RowsKnown
  <2>2. CASE Owned(run'.at)
    <3>1. run'.at \in Paths
      BY <1>2 DEF RunNext, RunRecord
    <3> QED
      BY <2>2, <3>1 DEF Owned, SyncInv, RowsKnown
  <2> QED
    BY <1>2, <1>4, <2>1, <2>2 DEF RunNext
<1> QED
  BY <1>1, <1>3, <1>4 DEF RowsKnown

LEMMA PendKnownNext ==
    ASSUME TypeOK, TodoParsed, SyncInv, [Next]_vars
    PROVE  PendKnown'
<1>1. CASE Committing
  BY <1>1 DEF Committing, PendKnown
<1>2. CASE PersonWrites
  <2>1. PICK s \in Slugs, new \in PageRow : ~PageHeld(s) /\ page' = [page EXCEPT ![s] = new]
    BY <1>2 DEF PersonWrites
  <2>2. pend' = pend
    BY <1>2 DEF PersonWrites
  <2>3. ASSUME NEW t \in Slugs, NEW b \in Bodies, <<t, b>> \in pend.made
        PROVE  page'[t] = page[t]
    BY <2>1, <2>3 DEF PageHeld, TypeOK, PagesTypeOK
  <2> QED
    BY <2>2, <2>3 DEF SyncInv, PendKnown, Exists
<1>3. CASE PersonClaims
  BY <1>3 DEF PersonClaims, SyncInv, PendKnown, Exists
<1>4. CASE UNCHANGED <<page, row>> /\ pend' = NoPend
  BY <1>4, NoPendType DEF PendKnown
<1>5. CASE UNCHANGED <<page, row>> /\ PendGrows
  <2>1. pend'.claimed \subseteq pend'.touched
    BY <1>5 DEF PendGrows, SyncInv, PendKnown
  <2>2. ASSUME NEW s \in Slugs, NEW b \in Bodies, <<s, b>> \in pend'.made
        PROVE  ~Exists(s) /\ \E p \in pend'.touched : SlugOf[p] = s
    BY <1>5, <2>2 DEF PendGrows, SyncInv, PendKnown
  <2> QED
    BY <1>5, <2>1, <2>2 DEF PendKnown, Exists
<1> QED
  BY <1>1, <1>2, <1>3, <1>4, <1>5, Steps

LEMMA OwnNext ==
    ASSUME TypeOK, TodoParsed, SyncInv, [Next]_vars
    PROVE  OwnPagesAreKnown'
<1>0. /\ page \in [Slugs -> PageRow]
      /\ \A p \in Paths : row[p].known => row'[p].known
      /\ pend.touched \subseteq Paths
  BY RowsNext DEF TypeOK, PagesTypeOK, PendRecord
<1> SUFFICES ASSUME NEW s \in Slugs, page'[s].by = "binding"
             PROVE  \E p \in Paths : SlugOf[p] = s /\ row'[p].known
  BY DEF OwnPagesAreKnown
<1>1. CASE page[s].by = "binding"
  BY <1>0, <1>1 DEF SyncInv, OwnPagesAreKnown
<1>2. CASE Committing /\ page[s].by # "binding"
  <2>1. page'[s].by = page[s].by \/ page'[s].by = PageCommitted(s).by
    BY <1>0, <1>2 DEF Committing
  <2>2. PageCommitted(s).by = page[s].by \/ \E b \in Bodies : <<s, b>> \in pend.made
    BY PageCommittedType
  <2>3. PICK b \in Bodies : <<s, b>> \in pend.made
    BY <1>2, <2>1, <2>2
  <2>4. PICK p \in pend.touched : SlugOf[p] = s
    BY <2>3 DEF SyncInv, PendKnown
  <2>5. p \in Paths /\ row'[p] = RowCommitted(p) /\ RowCommitted(p).known
    BY <1>0, <1>2, <2>4, RowCommittedType DEF Committing
  <2> QED
    BY <2>4, <2>5
<1>3. CASE PersonWrites /\ page[s].by # "binding"
  BY <1>0, <1>3 DEF PersonWrites
<1>4. CASE UNCHANGED page
  BY <1>1, <1>4
<1> QED
  BY <1>1, <1>2, <1>3, <1>4, Steps DEF PersonClaims

LEMMA SyncNext ==
    TypeOK /\ TodoParsed /\ SyncInv /\ [Next]_vars => TypeOK' /\ TodoParsed' /\ SyncInv'
BY TypeNext, OwnNext, PendKnownNext, RowsKnownNext DEF SyncInv

LEMMA SyncInit == Init => TypeOK /\ TodoParsed /\ SyncInv
<1>1. ASSUME Init
      PROVE  SyncInv
  BY <1>1, NoRunType, NoPendType
     DEF Init, PagesInit, NoPage, NewRow, SyncInv, OwnPagesAreKnown, PendKnown, RowsKnown
<1> QED
  BY <1>1, TypeInit

\* A page that the binding made is known by a row of a file of its name, wherever
\* its runs were cut short.
THEOREM BindingKnowsItsPages == SafeSpec => []OwnPagesAreKnown
<1>1. SyncInv => OwnPagesAreKnown
  BY DEF SyncInv
<1> QED
  BY <1>1, SyncNext, SyncInit, PTL DEF SafeSpec

\* A run's step commits, or leaves the pages alone.
LEMMA RunStepCommits ==
    ASSUME TypeOK, TodoParsed, RunStep
    PROVE  Committing \/ UNCHANGED page
<1>1. CASE SaveUpdate \/ Finish \/ \E p \in Paths : RemovePage(p)
  BY <1>1, SaveCommits, RemoveCommits, FinishCommits
<1>2. CASE \/ Begin \/ Plan \/ PlanRefused
           \/ \E p \in Paths : \/ ApplyCreate(p) \/ CreateRefused(p) \/ ApplySkip(p)
                              \/ ApplyConflict(p) \/ ApplyUpdate(p) \/ RemoveRow(p)
           \/ AfterUpdate \/ Applied \/ InsertRefused
  BY <1>2 DEF Begin, Plan, PlanRefused, ApplyCreate, CreateRefused, ApplySkip, ApplyConflict,
              ApplyUpdate, RemoveRow, AfterUpdate, Applied, InsertRefused, Fails, pageVars
<1> QED
  BY Zenon, <1>1, <1>2 DEF RunStep

LEMMA StrangersNext ==
    ASSUME TypeOK, TodoParsed, SyncInv, NEW s \in Slugs, RunStep, Exists(s),
           page'[s].body # page[s].body
    PROVE  \E p \in Paths : SlugOf[p] = s /\ row[p].known
<1>0. page \in [Slugs -> PageRow]
  BY DEF TypeOK, PagesTypeOK
<1>1. Committing
  BY RunStepCommits
<1>2. PageCommitted(s).body = page[s].body
  BY PageCommittedType DEF SyncInv, PendKnown
<1>3. run.pc = "save" /\ s = SlugOf[run.at]
  BY <1>0, <1>1, <1>2 DEF Committing
<1> QED
  BY <1>3 DEF SyncInv, RowsKnown

\* A run changes the text of a page only if an earlier commit has left a row of a
\* file of that name.
THEOREM RunsAskStrangers == SafeSpec => StrangersAreAsked
<1>1. TypeOK /\ TodoParsed /\ SyncInv
      => [\A s \in Slugs :
             RunStep /\ Exists(s) /\ page'[s].body # page[s].body
                 => \E p \in Paths : SlugOf[p] = s /\ row[p].known]_vars
  BY StrangersNext
<1> QED
  BY <1>1, SyncNext, SyncInit, PTL DEF SafeSpec, StrangersAreAsked

=============================================================================
