---------------------------- MODULE PageLifecycle ----------------------------
(***************************************************************************)
(* The life of an intake page: create, patch, seal, delete, public upload, *)
(* export, and the custody events they leave.  Every HTTP request runs in  *)
(* its own goroutine and takes several SQL statements; only a statement or *)
(* a transaction is atomic, so a step here is one of those.                *)
(*                                                                         *)
(* Page rows live under INTEGER PRIMARY KEY ids, which SQLite hands out as *)
(* largest live id plus one: the id of a deleted last page is used again.  *)
(* Handlers keep the id they were called with across their steps.          *)
(*                                                                         *)
(* Left out: the settings a patch writes besides is_active (they change    *)
(* nothing else here), the upload rows and objects (module Intake), and    *)
(* validation, PIN and rate limiting, which only turn requests away: a     *)
(* request that is turned away is one that never begins.                   *)
(***************************************************************************)
EXTENDS Naturals

CONSTANTS
    Requests,   \* HTTP requests, each served once
    MaxPageId,  \* bound: page ids the model can hand out
    Slugs,      \* bound: the slugs the generator ever produces
    Keys,       \* E2E identities a page can be created with (or none)
    Abortable,  \* the requests whose context may be cancelled, or that may
                \* be cut by a database error or a crash of the process
    NoPage      \* what a read of a missing row returns

ASSUME BoundAssumption == MaxPageId \in Nat
ASSUME AbortAssumption == Abortable \subseteq Requests

VARIABLES
    pages,   \* the pages table: id -> row
    used,    \* history: every slug ever inserted
    events,  \* the custody_events table: page id -> its events
    req      \* the state of each request's handler

vars == <<pages, used, events, req>>

PageIds == 1..MaxPageId

Row == [slug : Slugs, key : Keys, active : BOOLEAN, sealed : BOOLEAN]

ASSUME NoPageAssumption == NoPage \notin Row

Ops == {"idle", "update", "seal", "delete", "upload", "export"}

Steps == {"idle", "write", "reread", "log", "seal", "recheck", "remove",
          "stream", "ok", "refused", "failed"}

Outcomes == {"ok", "refused", "failed"}

\* What an event says: the event type, the request that recorded it, and
\* whether its detail carries the post_seal mark.
EventTypes == {"page.updated", "page.sealed", "page.exported",
               "upload.accepted"}
Event == [type : EventTypes, by : Requests, late : BOOLEAN]

\* A handler: the operation, where it stands, the page id of the URL, and the
\* page as the handler last read it.
Handler == [op : Ops, at : Steps, page : PageIds \cup {0},
            seen : Row \cup {NoPage}]

IdleHandler == [op |-> "idle", at |-> "idle", page |-> 0, seen |-> NoPage]

Live(p) == pages[p] # NoPage

\* The page the handler last read still has its row.
SamePage(r) ==
    /\ req[r].page \in PageIds
    /\ req[r].seen # NoPage
    /\ Live(req[r].page)
    /\ pages[req[r].page].slug = req[r].seen.slug

Init ==
    /\ pages = [p \in PageIds |-> NoPage]
    /\ used = {}
    /\ events = [p \in PageIds |-> {}]
    /\ req = [r \in Requests |-> IdleHandler]

-----------------------------------------------------------------------------
\* Handler bookkeeping.

Begin(r, op, step, p) ==
    /\ req[r].at = "idle"
    /\ req' = [req EXCEPT ![r] =
                  [op |-> op, at |-> step, page |-> p, seen |-> pages[p]]]

At(r, op, step) == req[r].op = op /\ req[r].at = step

Goto(r, step) == req' = [req EXCEPT ![r].at = step]

GotoSeeing(r, step, row) ==
    req' = [req EXCEPT ![r] =
        [op |-> @.op, at |-> step, page |-> @.page, seen |-> row]]

-----------------------------------------------------------------------------
\* SQLite's choice of id for a new row: one more than the largest in use.
IsNextId(p) ==
    /\ \A q \in PageIds : q >= p => ~Live(q)
    /\ p > 1 => Live(p - 1)

\* createPage: one INSERT.  Slugs are 24 random characters, so a fresh one is
\* a slug never produced before.  A page starts active and unsealed.
CreatePage(p, s, k) ==
    /\ IsNextId(p)
    /\ s \notin used
    /\ pages' = [pages EXCEPT ![p] =
                    [slug |-> s, key |-> k, active |-> TRUE, sealed |-> FALSE]]
    /\ used' = used \cup {s}
    /\ UNCHANGED <<events, req>>

-----------------------------------------------------------------------------
\* PATCH /pages/{id}: UpdatePage reads the whole row, merges the patch in
\* memory, writes the whole row back, and reads it again.

\* "keep": the patch has no is_active; otherwise it sets it.
Patches == {"keep", "open", "close"}

\* Mutant: reopening a page also gives it another identity.
MergedWithNewIdentity(row, patch) ==
    [row EXCEPT !.active = IF patch = "keep" THEN @ ELSE patch = "open",
                !.key = IF patch = "open"
                        THEN CHOOSE k \in Keys : k # row.key
                        ELSE @]

Merged(row, patch) ==
    [row EXCEPT !.active = IF patch = "keep" THEN @ ELSE patch = "open"]

UpdateRead(r, p, patch) ==
    /\ Live(p)
    /\ ~(pages[p].sealed /\ patch = "open")
    /\ req[r].at = "idle"
    /\ req' = [req EXCEPT ![r] =
                  [op |-> "update", at |-> "write", page |-> p,
                   seen |-> Merged(pages[p], patch)]]
    /\ UNCHANGED <<pages, used, events>>

\* Every column but slug, created_at and sealed_at; no condition but the id.
\* A row that is gone is no error: no row matches.
UpdateRow(row, seen) ==
    [row EXCEPT !.key = seen.key, !.active = seen.active]

UpdateWrite(r) ==
    LET p == req[r].page IN
    /\ At(r, "update", "write")
    /\ pages' = IF Live(p)
                THEN [pages EXCEPT ![p] = UpdateRow(@, req[r].seen)]
                ELSE pages
    /\ Goto(r, "reread")
    /\ UNCHANGED <<used, events>>

\* An event is due only if the row that was read back is sealed.
AfterUpdate(row) ==
    IF row = NoPage THEN "refused" ELSE IF row.sealed THEN "log" ELSE "ok"

UpdateReread(r) ==
    LET row == pages[req[r].page] IN
    /\ At(r, "update", "reread")
    /\ GotoSeeing(r, AfterUpdate(row), row)
    /\ UNCHANGED <<pages, used, events>>

-----------------------------------------------------------------------------
\* POST /pages/{id}/seal: a read to learn whether the page was sealed before,
\* one UPDATE, and a read of the result.

\* Mutant: the event first, the seal never.
SealReadLogFirst(r, p) ==
    /\ Live(p)
    /\ Begin(r, "seal", "log", p)
    /\ UNCHANGED <<pages, used, events>>

SealRead(r, p) ==
    /\ Live(p)
    /\ Begin(r, "seal", "seal", p)
    /\ UNCHANGED <<pages, used, events>>

SealRow(row) == [row EXCEPT !.sealed = TRUE, !.active = FALSE]

SealWrite(r) ==
    LET p == req[r].page IN
    /\ At(r, "seal", "seal")
    /\ IF Live(p)
       THEN /\ pages' = [pages EXCEPT ![p] = SealRow(@)]
            /\ Goto(r, "reread")
       ELSE /\ UNCHANGED pages
            /\ Goto(r, "refused")
    /\ UNCHANGED <<used, events>>

\* Mutant: whether the event is due is judged by the row read back.
SealRereadJudgesAfter(r) ==
    LET row == pages[req[r].page] IN
    /\ At(r, "seal", "reread")
    /\ Goto(r, IF row = NoPage THEN "refused"
               ELSE IF row.sealed THEN "ok"
               ELSE "log")
    /\ UNCHANGED <<pages, used, events>>

\* The event is due only if the page was unsealed when the handler began.
SealReread(r) ==
    /\ At(r, "seal", "reread")
    /\ Goto(r, IF ~Live(req[r].page) THEN "refused"
               ELSE IF req[r].seen.sealed THEN "ok"
               ELSE "log")
    /\ UNCHANGED <<pages, used, events>>

-----------------------------------------------------------------------------
\* DELETE /pages/{id}: the handler reads and checks, the store reads and
\* checks again, then a DELETE by id alone.

DeleteRead(r, p) ==
    /\ Live(p)
    /\ ~pages[p].sealed
    /\ Begin(r, "delete", "recheck", p)
    /\ UNCHANGED <<pages, used, events>>

DeleteRecheck(r) ==
    LET row == pages[req[r].page] IN
    /\ At(r, "delete", "recheck")
    /\ IF row = NoPage \/ row.sealed
       THEN Goto(r, "refused")
       ELSE GotoSeeing(r, "remove", row)
    /\ UNCHANGED <<pages, used, events>>

\* The foreign keys cascade: the page's events go with it.
DeleteRow(r) ==
    LET p == req[r].page IN
    /\ At(r, "delete", "remove")
    /\ pages' = [pages EXCEPT ![p] = NoPage]
    /\ events' = [events EXCEPT ![p] = {}]
    /\ Goto(r, IF Live(p) THEN "ok" ELSE "refused")
    /\ UNCHANGED used

-----------------------------------------------------------------------------
\* POST /u/{slug}: publicPage looks the slug up and lets the uploader in; the
\* body streams; CreateUpload then inserts under the page's id.

\* Mutant: sealing clears is_active, so is_active alone is asked.
IsOpenByFlagAlone(row) == row.active

IsOpen(row) == row.active /\ ~row.sealed

UploadAdmit(r, p) ==
    /\ Live(p)
    /\ IsOpen(pages[p])
    /\ Begin(r, "upload", "stream", p)
    /\ UNCHANGED <<pages, used, events>>

-----------------------------------------------------------------------------
\* GET /pages/{id}/manifest and /zip: a read, then the event.

ExportRead(r, p) ==
    /\ Live(p)
    /\ Begin(r, "export", "log", p)
    /\ UNCHANGED <<pages, used, events>>

-----------------------------------------------------------------------------
\* recordCustodyEvent: one INSERT, refused by the foreign key when the page's
\* row is gone.  adminActionDetail marks the event post_seal if the page was
\* sealed as the handler read it; page.sealed and upload.accepted carry no
\* mark.  The upload row itself is inserted in the same transaction.

EventOf(r) ==
    CASE req[r].op = "update" -> "page.updated"
      [] req[r].op = "seal"   -> "page.sealed"
      [] req[r].op = "export" -> "page.exported"
      [] OTHER                -> "upload.accepted"

PostSealMark(r) ==
    req[r].op \in {"update", "export"} /\ req[r].seen.sealed

InsertEvent(r) ==
    LET p == req[r].page IN
    IF Live(p)
    THEN /\ events' = [events EXCEPT ![p] = @ \cup
                {[type |-> EventOf(r), by |-> r, late |-> PostSealMark(r)]}]
         /\ Goto(r, "ok")
    ELSE /\ UNCHANGED events
         /\ Goto(r, "failed")

RecordEvent(r) ==
    /\ req[r].at = "log"
    /\ InsertEvent(r)
    /\ UNCHANGED <<pages, used>>

UploadCommit(r) ==
    /\ At(r, "upload", "stream")
    /\ InsertEvent(r)
    /\ UNCHANGED <<pages, used>>

-----------------------------------------------------------------------------
\* The client goes away, a statement fails, or the process dies: what was
\* committed stays, the rest of the handler never runs.  (A crash aborts every
\* running request; the database survives it.)
Abort(r) ==
    /\ r \in Abortable
    /\ req[r].at \notin {"idle"} \cup Outcomes
    /\ Goto(r, "failed")
    /\ UNCHANGED <<pages, used, events>>

HandlerStep(r) ==
    \/ UpdateWrite(r)
    \/ UpdateReread(r)
    \/ SealWrite(r)
    \/ SealReread(r)
    \/ DeleteRecheck(r)
    \/ DeleteRow(r)
    \/ UploadCommit(r)
    \/ RecordEvent(r)

Arrival(r) ==
    \E p \in PageIds :
        \/ \E patch \in Patches : UpdateRead(r, p, patch)
        \/ SealRead(r, p)
        \/ DeleteRead(r, p)
        \/ UploadAdmit(r, p)
        \/ ExportRead(r, p)

Next ==
    \/ \E p \in PageIds, s \in Slugs, k \in Keys : CreatePage(p, s, k)
    \/ \E r \in Requests : Arrival(r) \/ HandlerStep(r) \/ Abort(r)

Spec == Init /\ [][Next]_vars

\* A goroutine that is not cut keeps running: net/http starts it and nothing
\* in a handler waits for another handler (SQLite's busy timeout is finite).
FairSpec == Spec /\ \A r \in Requests : WF_vars(HandlerStep(r))

-----------------------------------------------------------------------------
TypeOK ==
    /\ pages \in [PageIds -> Row \cup {NoPage}]
    /\ used \subseteq Slugs
    /\ events \in [PageIds -> SUBSET Event]
    /\ req \in [Requests -> Handler]
-----------------------------------------------------------------------------
\* What holds.

\* The slugs that resolve to a page now.
LiveSlugs == {pages[p].slug : p \in {q \in PageIds : Live(q)}}

\* No page has ever been deleted, so no id has been used again.
NoPageDeleted == used = LiveSlugs

\* The same page is in row p before and after the step.
Kept(p) == Live(p) /\ pages'[p] # NoPage /\ pages'[p].slug = pages[p].slug

\* A sealed page is sealed for as long as it exists, although every patch
\* writes back a whole row that may have been read before the seal
\* (UpdatePage leaves the sealed_at column out of its UPDATE).
SealIsPermanent ==
    [][\A p \in PageIds :
          Kept(p) /\ pages[p].sealed => pages'[p].sealed]_vars

\* The capability URL of a deleted page never resolves again: a slug comes to
\* life only when it is generated, even though a patch of the deleted page may
\* still write its stale row over the page that took the id.
RetiredSlugStaysRetired ==
    [][\A s \in Slugs :
          s \in LiveSlugs' /\ s \notin LiveSlugs => s \notin used]_vars

\* What the custody log says of the seal is true: on the page its request
\* read, a page.sealed event, or a post_seal mark on any event, is found only
\* if that page is sealed.
SealMarksTruthful ==
    \A p \in PageIds : \A e \in events[p] :
        /\ Live(p)
        /\ SamePage(e.by)
        /\ e.type = "page.sealed" \/ e.late
        => pages[p].sealed

\* As long as no page has ever been deleted, no request changes the E2E
\* identity of a page, although every patch writes the identity columns back
\* from its read.  (Once an id is used again the write of a patch that read the
\* earlier page puts that page's identity on the later one: the antecedent is
\* needed.)
IdentityFixedUntilADelete ==
    [][\A p \in PageIds :
          Kept(p) /\ NoPageDeleted => pages'[p].key = pages[p].key]_vars

\* A seal of row p was cut, perhaps between SealPage and its event.
SealCut(p) == \E r \in Requests : req[r].page = p /\ At(r, "seal", "failed")

\* As long as no page has been deleted, a page that is sealed without a
\* page.sealed event has a handler that read it unsealed, sealed it and is yet to
\* record the event; or a seal of it was cut.
SealIsOwed ==
    \A p \in PageIds :
        Live(p) /\ pages[p].sealed /\ NoPageDeleted
        => \/ SealCut(p)
           \/ \E e \in events[p] : e.type = "page.sealed"
           \/ \E r \in Requests :
                 /\ req[r].page = p /\ req[r].op = "seal"
                 /\ req[r].at \in {"reread", "log"} /\ ~req[r].seen.sealed

\* As long as no page has been deleted, every seal leaves a page.sealed event
\* behind, whichever of several concurrent seals it is that records it, if no
\* seal of the page is cut short; what else is cut does not matter.  (After a
\* delete, a handler that read the earlier page of the id as sealed can seal the
\* later one and take the event for recorded.)
SealEventuallyRecorded ==
    \A p \in PageIds :
        (Live(p) /\ pages[p].sealed /\ NoPageDeleted)
        ~> \/ ~NoPageDeleted
           \/ SealCut(p)
           \/ \E e \in events[p] : e.type = "page.sealed"

-----------------------------------------------------------------------------
\* The register of pages that this module implements.

StatusOf(s) ==
    CASE s \notin used -> "unborn"
      [] \E p \in PageIds : Live(p) /\ pages[p].slug = s /\ ~pages[p].sealed
            -> "open"
      [] \E p \in PageIds : Live(p) /\ pages[p].slug = s /\ pages[p].sealed
            -> "sealed"
      [] OTHER -> "retired"

AdmittedTo(s) ==
    {r \in Requests : req[r].op = "upload" /\ req[r].seen.slug = s}

Register == INSTANCE PageRegister WITH
    Guests <- Requests,
    status <- [s \in Slugs |-> StatusOf(s)],
    admitted <- [s \in Slugs |-> AdmittedTo(s)]

\* Seen by slug, pages are published once, sealed for good and retired for
\* good, and uploaders are let in only while the page is neither sealed nor
\* retired, whatever requests race and whichever row ids are used again.
ImplementsRegister == Register!Spec

-----------------------------------------------------------------------------
\* What the documents say and concurrent requests do not keep.

\* "Sealing a page closes public intake, prevents reopening or page deletion"
\* (README.md:142): no sealed page is deleted.
SealedPageIsNotDeleted ==
    [][\A p \in PageIds :
          Live(p) /\ pages[p].sealed => pages'[p] # NoPage]_vars
=============================================================================
