----------------------------- MODULE CanonPages -----------------------------
(***************************************************************************)
(* The pages of a tenant's canon and the people who edit them              *)
(* (app/services/canon_authoring.py).                                      *)
(*                                                                         *)
(* An edit loads a page, works on what it loaded and saves; no row is      *)
(* locked between the two, and a save writes only the columns whose value  *)
(* differs from the loaded one (Put), so two edits of one page merge       *)
(* column by column.                                                       *)
(*                                                                         *)
(* A body is a model value.  Title, summary, section, priority, room,      *)
(* charter memberships, revisions and the vectors of a page are left out.  *)
(***************************************************************************)
EXTENDS Naturals

CONSTANTS
    Slugs,      \* the names a page can have
    Bodies,     \* the texts it can hold
    NoBody,     \* the text of a page that does not exist
    Editors,    \* the people with an edit under way
    MaxEdits    \* how many edits are started, a bound of the model only

ASSUME SlugsExist == Slugs # {}
ASSUME NoBodyIsNoBody == NoBody \notin Bodies
ASSUME MaxEditsIsNat == MaxEdits \in Nat

VARIABLES
    page,       \* the row of each slug, with its item's text, and who made it
    edit,       \* what each editor's request has loaded
    edits       \* how many edits were started

pageVars == <<page, edit, edits>>

Statuses == {"none", "draft", "published", "archived"}

\* The row of one slug.  by is its created_by_subject: the machine that syncs
\* a repository writes "system:canon-sync", everyone else is a person.
PageRow == [status : Statuses, body : Bodies \union {NoBody},
            by : {"nobody", "person", "binding"}]

NoPage == [status |-> "none", body |-> NoBody, by |-> "nobody"]

\* An edit in memory: the page as it was loaded and what it is to become.
EditRecord == [pc : {"idle", "loaded"}, op : {"none", "update", "publish", "archive"},
               slug : Slugs, seen : PageRow, body : Bodies \union {NoBody}]

\* An editor without a request; the slug is any.
Idle == [pc |-> "idle", op |-> "none", slug |-> CHOOSE s \in Slugs : TRUE,
         seen |-> NoPage, body |-> NoBody]

Exists(s) == page[s].status # "none"

\* The new page: always a draft, whoever makes it.
Draft(body, who) == [status |-> "draft", body |-> body, by |-> who]

\* A column as the save leaves it: written only if it differs from what was
\* loaded, whatever another transaction has stored meanwhile.
Put(now, seen, next) == IF next = seen THEN now ELSE next

\* The status update_canon_page gives a page it loaded: a new text takes a
\* published page back to draft and leaves every other status alone.
StatusAfter(seen, body) ==
    IF body # seen.body /\ seen.status = "published" THEN "draft" ELSE seen.status

\* The row after update_canon_page has saved body over a page it loaded as seen.
Updated(now, seen, body) ==
    [status |-> Put(now.status, seen.status, StatusAfter(seen, body)),
     body |-> Put(now.body, seen.body, body),
     by |-> now.by]

\* The row after publish_canon_page or archive_canon_page.
Marked(now, seen, status) == [now EXCEPT !.status = Put(now.status, seen.status, status)]

PagesInit ==
    /\ page = [s \in Slugs |-> NoPage]
    /\ edit = [e \in Editors |-> Idle]
    /\ edits = 0

-----------------------------------------------------------------------------

MayEdit == edits < MaxEdits /\ edits' = edits + 1

\* create_canon_page: refused when the slug is taken; the unique index makes
\* the look-up and the insert one step.
CreatePage(s, b) ==
    /\ MayEdit
    /\ ~Exists(s)
    /\ page' = [page EXCEPT ![s] = Draft(b, "person")]
    /\ UNCHANGED edit

\* update_, publish_ and archive_canon_page begin with the page as it stands.
LoadPage(e, op, s, b) ==
    /\ MayEdit
    /\ edit[e].pc = "idle"
    /\ Exists(s)
    /\ op = "update" <=> b # NoBody
    /\ edit' = [edit EXCEPT ![e] = [pc |-> "loaded", op |-> op, slug |-> s,
                                    seen |-> page[s], body |-> b]]
    /\ UNCHANGED page

\* What the request commits, given the row as it is now.
Saved(e, now) ==
    CASE edit[e].op = "update" -> Updated(now, edit[e].seen, edit[e].body)
      [] edit[e].op = "publish" -> Marked(now, edit[e].seen, "published")
      [] OTHER -> Marked(now, edit[e].seen, "archived")

SavePage(e) ==
    /\ edit[e].pc = "loaded"
    /\ page' = [page EXCEPT ![edit[e].slug] = Saved(e, page[edit[e].slug])]
    /\ edit' = [edit EXCEPT ![e] = Idle]
    /\ UNCHANGED edits

PagesTypeOK ==
    /\ page \in [Slugs -> PageRow]
    /\ edit \in [Editors -> EditRecord]
    /\ edits \in 0 .. MaxEdits
=============================================================================
