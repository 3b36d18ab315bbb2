------------------------ MODULE PageLifecycleProofs ------------------------
(***************************************************************************)
(* Proofs about PageLifecycle for any number of requests, page ids, slugs  *)
(* and identities.                                                         *)
(*                                                                         *)
(* The argument rests on one fact about every step (RowStep): a row of the *)
(* pages table is gone, or is the same page as before with its seal kept,  *)
(* or is a new page under a slug never used.  A handler that read a page   *)
(* under a slug therefore either finds that very page, sealed if it was    *)
(* sealed when read, or does not find the slug at all.                     *)
(***************************************************************************)
EXTENDS PageLifecycle, TLAPS

-----------------------------------------------------------------------------
\* Types.

Running == {"write", "reread", "log", "seal", "recheck", "remove", "stream"}

\* A handler that has begun has a page id, and one that still runs has a page
\* in hand: what UpdatePage writes back is always a row it has read.
PageInHand ==
    \A r \in Requests :
        /\ req[r].at = "idle" => req[r].op = "idle"
        /\ req[r].at # "idle" => req[r].page \in PageIds
        /\ req[r].at \in Running => req[r].seen \in Row
        /\ req[r].op = "upload" => req[r].seen \in Row

TypeInv == TypeOK /\ PageInHand

USE DEF Running

LEMMA InitTypeInv == Init => TypeInv
  BY BoundAssumption DEF Init, TypeInv, TypeOK, PageInHand, IdleHandler,
     Handler, Ops, Steps

LEMMA NextTypeInv == TypeInv /\ [Next]_vars => TypeInv'
  <1> SUFFICES ASSUME TypeInv, [Next]_vars
               PROVE  TypeInv'
    OBVIOUS
  <1> USE DEF TypeInv, TypeOK, PageInHand
  <1>1. ASSUME NEW p \in PageIds, NEW s \in Slugs, NEW k \in Keys,
               CreatePage(p, s, k)
        PROVE  TypeInv'
    BY <1>1 DEF CreatePage, Row
  <1>2. ASSUME NEW r \in Requests, NEW p \in PageIds, NEW patch \in Patches,
               UpdateRead(r, p, patch)
        PROVE  TypeInv'
    <2>1. Merged(pages[p], patch) \in Row
      BY <1>2, NoPageAssumption DEF UpdateRead, Merged, Row, Live
    <2>2. QED
      BY <1>2, <2>1 DEF UpdateRead, Handler, Ops, Steps
  <1>3. ASSUME NEW r \in Requests, UpdateWrite(r)
        PROVE  TypeInv'
    <2>1. req[r].page \in PageIds /\ req[r].seen \in Row
      BY <1>3 DEF UpdateWrite, At
    <2>2. pages' \in [PageIds -> Row \cup {NoPage}]
      <3>1. CASE Live(req[r].page)
        <4>1. UpdateRow(pages[req[r].page], req[r].seen) \in Row
          BY <2>1, <3>1 DEF UpdateRow, Row, Live
        <4>2. QED
          BY <1>3, <3>1, <4>1 DEF UpdateWrite
      <3>2. CASE ~Live(req[r].page)
        BY <1>3, <3>2 DEF UpdateWrite
      <3>3. QED
        BY <3>1, <3>2
    <2>3. QED
      BY <1>3, <2>1, <2>2 DEF UpdateWrite, Goto, At, Handler, Steps
  <1>4. ASSUME NEW r \in Requests, UpdateReread(r)
        PROVE  TypeInv'
    <2>1. req[r].page \in PageIds
      BY <1>4 DEF UpdateReread, At
    <2> DEFINE row == pages[req[r].page]
                 step == AfterUpdate(row)
    <2>3. /\ row \in Row \cup {NoPage}
          /\ step \in {"refused", "log", "ok"}
          /\ step = "log" => row \in Row
      BY <2>1 DEF AfterUpdate
    <2>4. /\ req[r].op = "update"
          /\ req' = [req EXCEPT ![r] =
                        [op |-> "update", at |-> step, page |-> req[r].page,
                         seen |-> row]]
      BY <1>4 DEF UpdateReread, GotoSeeing, At, Handler
    <2> HIDE DEF row, step
    <2>5. req' \in [Requests -> Handler]
      BY <2>1, <2>3, <2>4 DEF Handler, Ops, Steps
    <2>6. PageInHand'
      BY <2>1, <2>3, <2>4
    <2>7. QED
      BY <1>4, <2>5, <2>6 DEF UpdateReread
  <1>5. ASSUME NEW r \in Requests, NEW p \in PageIds,
               SealRead(r, p) \/ DeleteRead(r, p) \/ UploadAdmit(r, p)
               \/ ExportRead(r, p)
        PROVE  TypeInv'
    <2>1. pages[p] \in Row
      BY <1>5 DEF SealRead, DeleteRead, UploadAdmit, ExportRead, Live
    <2>2. QED
      BY <1>5, <2>1 DEF SealRead, DeleteRead, UploadAdmit, ExportRead, Begin,
         Handler, Ops, Steps
  <1>6. ASSUME NEW r \in Requests, SealWrite(r)
        PROVE  TypeInv'
    <2>1. req[r].page \in PageIds /\ req[r].seen \in Row
      BY <1>6 DEF SealWrite, At
    <2>2. CASE Live(req[r].page)
      <3>1. SealRow(pages[req[r].page]) \in Row
        BY <2>1, <2>2 DEF SealRow, Row, Live
      <3>2. QED
        BY <1>6, <2>1, <2>2, <3>1 DEF SealWrite, Goto, At, Handler, Steps
    <2>3. CASE ~Live(req[r].page)
      BY <1>6, <2>1, <2>3 DEF SealWrite, Goto, At, Handler, Steps
    <2>4. QED
      BY <2>2, <2>3
  <1>7. ASSUME NEW r \in Requests, SealReread(r)
        PROVE  TypeInv'
    BY <1>7 DEF SealReread, Goto, At, Handler, Steps
  <1>8. ASSUME NEW r \in Requests, DeleteRecheck(r)
        PROVE  TypeInv'
    <2>1. req[r].page \in PageIds
      BY <1>8 DEF DeleteRecheck, At
    <2>2. QED
      BY <1>8, <2>1 DEF DeleteRecheck, Goto, GotoSeeing, At, Handler, Steps
  <1>9. ASSUME NEW r \in Requests, DeleteRow(r)
        PROVE  TypeInv'
    BY <1>9 DEF DeleteRow, Goto, At, Handler, Steps
  <1>10. ASSUME NEW r \in Requests, UploadCommit(r) \/ RecordEvent(r)
         PROVE  TypeInv'
    <2>1. [type |-> EventOf(r), by |-> r, late |-> PostSealMark(r)] \in Event
      <3>1. PostSealMark(r) \in BOOLEAN
        BY <1>10 DEF PostSealMark, UploadCommit, RecordEvent, At, Row
      <3>2. QED
        BY <3>1 DEF Event, EventTypes, EventOf
    <2>2. req[r].page \in PageIds
      BY <1>10 DEF UploadCommit, RecordEvent, At
    <2>3. QED
      BY <1>10, <2>1, <2>2 DEF UploadCommit, RecordEvent, InsertEvent, Goto,
         At, Handler, Steps
  <1>11. ASSUME NEW r \in Requests, Abort(r)
         PROVE  TypeInv'
    BY <1>11 DEF Abort, Goto, Handler, Steps
  <1>12. CASE UNCHANGED vars
    BY <1>12 DEF vars
  <1>13. QED
    BY <1>1, <1>2, <1>3, <1>4, <1>5, <1>6, <1>7, <1>8, <1>9, <1>10, <1>11,
       <1>12 DEF Next, Arrival, HandlerStep

\* Every state has the declared types: the tables hold rows and events, every
\* handler stands at one of its steps, and a patch never writes back what was
\* not a row.
THEOREM TypeCorrect == Spec => []TypeOK
  <1>1. TypeInv => TypeOK
    BY DEF TypeInv
  <1>2. QED
    BY <1>1, InitTypeInv, NextTypeInv, PTL DEF Spec

-----------------------------------------------------------------------------
\* What one step does to a row, to a handler and to a page's events.

\* A row that is there after the step is the page that was there before, its
\* seal kept, or a new page under a fresh slug.
KeptRow(p) ==
    /\ Live(p)
    /\ pages'[p].slug = pages[p].slug
    /\ pages[p].sealed => pages'[p].sealed

NewRow(p) ==
    /\ ~Live(p)
    /\ pages'[p].slug \notin used
    /\ used' = used \cup {pages'[p].slug}
    /\ pages' = [pages EXCEPT ![p] = pages'[p]]
    /\ ~pages'[p].sealed

LEMMA RowStep ==
  ASSUME TypeInv, [Next]_vars, NEW p \in PageIds, pages'[p] # NoPage
  PROVE  (KeptRow(p) /\ used \subseteq used') \/ NewRow(p)
  <1> USE DEF TypeInv, TypeOK, KeptRow, NewRow
  <1>1. ASSUME NEW x \in PageIds, NEW s \in Slugs, NEW k \in Keys,
               CreatePage(x, s, k)
        PROVE  (KeptRow(p) /\ used \subseteq used') \/ NewRow(p)
    <2>1. CASE p = x
      <3>1. ~Live(p)
        BY <1>1, <2>1 DEF CreatePage, IsNextId, PageIds, Live
      <3>2. QED
        BY <1>1, <2>1, <3>1 DEF CreatePage
    <2>2. CASE p # x
      BY <1>1, <2>2 DEF CreatePage, Live
    <2>3. QED
      BY <2>1, <2>2
  <1>2. ASSUME NEW r \in Requests, UpdateWrite(r)
        PROVE  KeptRow(p) /\ used \subseteq used'
    <2>1. CASE p = req[r].page /\ Live(p)
      <3>1. pages'[p] = UpdateRow(pages[p], req[r].seen)
        BY <1>2, <2>1 DEF UpdateWrite
      <3>2. pages[p] \in Row
        BY <2>1 DEF Live
      <3>3. /\ pages'[p].slug = pages[p].slug
            /\ pages'[p].sealed = pages[p].sealed
        BY <3>1, <3>2 DEF UpdateRow, Row
      <3>4. QED
        BY <1>2, <2>1, <3>3 DEF UpdateWrite
    <2>2. CASE ~(p = req[r].page /\ Live(p))
      BY <1>2, <2>2 DEF UpdateWrite, Live
    <2>3. QED
      BY <2>1, <2>2
  <1>3. ASSUME NEW r \in Requests, SealWrite(r)
        PROVE  KeptRow(p) /\ used \subseteq used'
    <2>1. CASE p = req[r].page /\ Live(p)
      <3>1. pages'[p] = SealRow(pages[p])
        BY <1>3, <2>1 DEF SealWrite
      <3>2. pages[p] \in Row
        BY <2>1 DEF Live
      <3>3. /\ pages'[p].slug = pages[p].slug
            /\ pages'[p].sealed
        BY <3>1, <3>2 DEF SealRow, Row
      <3>4. QED
        BY <1>3, <2>1, <3>3 DEF SealWrite
    <2>2. CASE ~(p = req[r].page /\ Live(p))
      BY <1>3, <2>2 DEF SealWrite, Live
    <2>3. QED
      BY <2>1, <2>2
  <1>4. ASSUME NEW r \in Requests, DeleteRow(r)
        PROVE  KeptRow(p) /\ used \subseteq used'
    BY <1>4 DEF DeleteRow, Live
  <1>5. ASSUME UNCHANGED <<pages, used>>
        PROVE  KeptRow(p) /\ used \subseteq used'
    BY <1>5 DEF Live
  <1>6. QED
    BY <1>1, <1>2, <1>3, <1>4, <1>5
    DEF Next, Arrival, HandlerStep, UpdateRead, UpdateReread, SealRead,
        SealReread, DeleteRead, DeleteRecheck, UploadAdmit, UploadCommit,
        ExportRead, RecordEvent, Abort, vars

\* A handler moves on with the page it has in hand, or takes a page in hand
\* as the table has it.
MovesOn(r) ==
    /\ req'[r].op = req[r].op
    /\ req'[r].page = req[r].page
    /\ req'[r].seen = req[r].seen
    /\ req[r].at = "ok" => req'[r].at = "ok"
    /\ req[r].op = "seal" /\ req'[r].at \in {"reread", "log"}
         => \/ req[r].at \in {"reread", "log"}
            \/ pages'[req[r].page].sealed

Looks(r) ==
    /\ pages' = pages
    /\ used' = used
    /\ req[r].at # "ok"
    /\ req'[r].page \in PageIds
    /\ req'[r].seen # NoPage
         => /\ Live(req'[r].page)
            /\ req'[r].seen.slug = pages[req'[r].page].slug
            /\ req'[r].seen.sealed = pages[req'[r].page].sealed
    /\ req'[r].at \notin {"ok"} \/ req'[r].op = "update"
    /\ req'[r].op = "seal" => req'[r].at = "seal"

LEMMA HandlerMoves ==
  ASSUME TypeInv, [Next]_vars, NEW r \in Requests
  PROVE  MovesOn(r) \/ Looks(r)
  <1> USE DEF TypeInv, TypeOK, PageInHand
  <1>1. CASE req'[r] = req[r]
    BY <1>1 DEF MovesOn
  <1>2. CASE req'[r] # req[r]
    <2>1. ASSUME NEW p \in PageIds, NEW patch \in Patches,
                 UpdateRead(r, p, patch)
          PROVE  Looks(r)
      <3>1. pages[p] \in Row
        BY <2>1 DEF UpdateRead, Live
      <3>2. /\ Merged(pages[p], patch).slug = pages[p].slug
            /\ Merged(pages[p], patch).sealed = pages[p].sealed
        BY <3>1 DEF Merged, Row
      <3>3. QED
        BY <2>1, <3>2 DEF UpdateRead, Looks
    <2>2. ASSUME NEW p \in PageIds,
                 SealRead(r, p) \/ DeleteRead(r, p) \/ UploadAdmit(r, p)
                 \/ ExportRead(r, p)
          PROVE  Looks(r)
      BY <2>2 DEF SealRead, DeleteRead, UploadAdmit, ExportRead, Begin, Looks
    <2>3. ASSUME UpdateWrite(r)
          PROVE  MovesOn(r)
      BY <2>3 DEF UpdateWrite, Goto, At, MovesOn, Handler
    <2>4. ASSUME UpdateReread(r)
          PROVE  Looks(r)
      BY <2>4 DEF UpdateReread, GotoSeeing, At, Looks, Live
    <2>5. ASSUME SealWrite(r)
          PROVE  MovesOn(r)
      <3>1. req[r].page \in PageIds
        BY <2>5 DEF SealWrite, At
      <3>2. CASE Live(req[r].page)
        <4>1. pages'[req[r].page] = SealRow(pages[req[r].page])
          BY <2>5, <3>1, <3>2 DEF SealWrite
        <4>2. pages'[req[r].page].sealed
          BY <3>1, <3>2, <4>1 DEF SealRow, Row, Live
        <4>3. QED
          BY <2>5, <3>2, <4>2 DEF SealWrite, Goto, At, MovesOn, Handler
      <3>3. CASE ~Live(req[r].page)
        BY <2>5, <3>3 DEF SealWrite, Goto, At, MovesOn, Handler
      <3>4. QED
        BY <3>2, <3>3
    <2>6. ASSUME SealReread(r)
          PROVE  MovesOn(r)
      BY <2>6 DEF SealReread, Goto, At, MovesOn, Handler
    <2>7. ASSUME DeleteRecheck(r)
          PROVE  MovesOn(r) \/ Looks(r)
      BY <2>7 DEF DeleteRecheck, Goto, GotoSeeing, At, MovesOn, Looks, Live,
         Handler
    <2>8. ASSUME DeleteRow(r)
          PROVE  MovesOn(r)
      BY <2>8 DEF DeleteRow, Goto, At, MovesOn, Handler
    <2>9. ASSUME UploadCommit(r) \/ RecordEvent(r)
          PROVE  MovesOn(r)
      BY <2>9 DEF UploadCommit, RecordEvent, InsertEvent, Goto, At, MovesOn,
         Handler
    <2>10. ASSUME Abort(r)
           PROVE  MovesOn(r)
      BY <2>10 DEF Abort, Goto, MovesOn, Handler, Outcomes
    <2>11. ASSUME NEW q \in Requests, q # r,
                  Arrival(q) \/ HandlerStep(q) \/ Abort(q)
           PROVE  FALSE
      BY <1>2, <2>11
      DEF Arrival, HandlerStep, UpdateRead, UpdateWrite, UpdateReread,
          SealRead, SealWrite, SealReread, DeleteRead, DeleteRecheck,
          DeleteRow, UploadAdmit, UploadCommit, ExportRead, RecordEvent,
          InsertEvent, Abort, Begin, Goto, GotoSeeing
    <2>12. QED
      BY <1>2, <2>1, <2>2, <2>3, <2>4, <2>5, <2>6, <2>7, <2>8, <2>9, <2>10,
         <2>11 DEF Next, Arrival, HandlerStep, CreatePage, vars
  <1>3. QED
    BY <1>1, <1>2

\* An event of page p after the step was there before, or is recorded by the
\* step, on a live row, by a handler that ends with it.
NewEvent(p, e) ==
    /\ Live(p)
    /\ pages' = pages
    /\ e.by \in Requests
    /\ req[e.by].page = p
    /\ req[e.by].at \in {"log", "stream"}
    /\ req'[e.by].at = "ok"
    /\ req'[e.by].page = p
    /\ req'[e.by].seen = req[e.by].seen
    /\ e.type = "page.sealed" => req[e.by].op = "seal" /\ req[e.by].at = "log"
    /\ e.late => req[e.by].seen.sealed

LEMMA EventStep ==
  ASSUME TypeInv, [Next]_vars, NEW p \in PageIds, NEW e \in events'[p]
  PROVE  e \in events[p] \/ NewEvent(p, e)
  <1> USE DEF TypeInv, TypeOK, PageInHand
  <1>1. ASSUME NEW r \in Requests, UploadCommit(r) \/ RecordEvent(r),
               e \notin events[p]
        PROVE  NewEvent(p, e)
    <2> DEFINE new == [type |-> EventOf(r), by |-> r, late |-> PostSealMark(r)]
    <2>1. /\ Live(req[r].page)
          /\ events' = [events EXCEPT ![req[r].page] = @ \cup {new}]
          /\ req' = [req EXCEPT ![r].at = "ok"]
      BY <1>1 DEF UploadCommit, RecordEvent, InsertEvent, Goto
    <2>2. p = req[r].page /\ e = new
      BY <1>1, <2>1
    <2>3. e.by = r /\ e.type = EventOf(r) /\ e.late = PostSealMark(r)
      BY <2>2
    <2>4. e.type = "page.sealed" => req[r].op = "seal" /\ req[r].at = "log"
      BY <1>1, <2>3 DEF EventOf, UploadCommit, RecordEvent, At, Handler, Ops
    <2>5. e.late => req[r].seen.sealed
      BY <2>3 DEF PostSealMark
    <2>6. req[r].at \in {"log", "stream"} /\ pages' = pages
      BY <1>1 DEF UploadCommit, RecordEvent, At
    <2> HIDE DEF new
    <2>7. QED
      BY <2>1, <2>2, <2>3, <2>4, <2>5, <2>6 DEF NewEvent, Handler
  <1>2. ASSUME NEW r \in Requests, DeleteRow(r)
        PROVE  e \in events[p]
    BY <1>2 DEF DeleteRow
  <1>3. CASE UNCHANGED events
    BY <1>3
  <1>4. QED
    BY <1>1, <1>2, <1>3
    DEF Next, CreatePage, Arrival, HandlerStep, UpdateRead, UpdateWrite,
        UpdateReread, SealRead, SealWrite, SealReread, DeleteRead,
        DeleteRecheck, UploadAdmit, ExportRead, Abort, vars

-----------------------------------------------------------------------------
\* The inductive invariant.

\* A slug names at most one row, and every slug a row or a handler has was
\* generated, so a new page cannot be taken for one that a handler read.
SlugsIdentify ==
    /\ \A p \in PageIds : Live(p) => pages[p].slug \in used
    /\ \A p, q \in PageIds :
          Live(p) /\ Live(q) /\ pages[p].slug = pages[q].slug => p = q
    /\ \A r \in Requests : req[r].seen # NoPage => req[r].seen.slug \in used

\* No handler is overtaken by an unsealing: what it read as sealed, and what
\* it has itself sealed, is sealed or gone.
SealsHold ==
    \A r \in Requests :
        /\ SamePage(r)
        /\ \/ req[r].seen.sealed
           \/ req[r].op = "seal" /\ req[r].at \in {"reread", "log"}
        => pages[req[r].page].sealed

\* An event belongs to the page id of the handler that recorded it, and that
\* handler is done.
EventsHaveAuthors ==
    \A p \in PageIds : \A e \in events[p] :
        req[e.by].at = "ok" /\ req[e.by].page = p

IInv ==
    /\ TypeInv
    /\ SlugsIdentify
    /\ SealsHold
    /\ EventsHaveAuthors
    /\ SealMarksTruthful

LEMMA InitIInv == Init => IInv
  BY InitTypeInv, BoundAssumption
  DEF Init, IInv, SlugsIdentify, SealsHold, EventsHaveAuthors,
      SealMarksTruthful, IdleHandler, Live, SamePage

LEMMA SlugsIdentifyStep == IInv /\ [Next]_vars => SlugsIdentify'
  <1> SUFFICES ASSUME IInv, [Next]_vars
               PROVE  SlugsIdentify'
    OBVIOUS
  <1> USE DEF IInv
  <1>1. ASSUME NEW p \in PageIds, Live(p)'
        PROVE  pages'[p].slug \in used'
    BY <1>1, RowStep DEF KeptRow, NewRow, Live, SlugsIdentify
  <1>2. ASSUME NEW p \in PageIds, NEW q \in PageIds, Live(p)', Live(q)',
               pages'[p].slug = pages'[q].slug
        PROVE  p = q
    <2>1. /\ KeptRow(p) \/ NewRow(p)
          /\ KeptRow(q) \/ NewRow(q)
      BY <1>2, RowStep DEF Live
    <2>2. CASE KeptRow(p) /\ KeptRow(q)
      BY <1>2, <2>2 DEF KeptRow, SlugsIdentify
    <2>3. CASE NewRow(p) /\ p # q
      <3>1. Live(q) /\ pages'[q] = pages[q]
        BY <1>2, <2>3 DEF NewRow, Live, TypeInv, TypeOK
      <3>2. QED
        BY <1>2, <2>3, <3>1 DEF NewRow, SlugsIdentify
    <2>4. CASE NewRow(q) /\ p # q
      <3>1. Live(p) /\ pages'[p] = pages[p]
        BY <1>2, <2>4 DEF NewRow, Live, TypeInv, TypeOK
      <3>2. QED
        BY <1>2, <2>4, <3>1 DEF NewRow, SlugsIdentify
    <2>5. QED
      BY <2>1, <2>2, <2>3, <2>4
  <1>3. used \subseteq used'
    BY DEF Next, CreatePage, Arrival, HandlerStep, UpdateRead, UpdateWrite,
       UpdateReread, SealRead, SealWrite, SealReread, DeleteRead,
       DeleteRecheck, DeleteRow, UploadAdmit, UploadCommit, ExportRead,
       RecordEvent, Abort, vars
  <1>4. ASSUME NEW r \in Requests, req'[r].seen # NoPage
        PROVE  req'[r].seen.slug \in used'
    BY <1>3, <1>4, HandlerMoves DEF MovesOn, Looks, SlugsIdentify
  <1>5. QED
    BY <1>1, <1>2, <1>4 DEF SlugsIdentify, Live

\* A handler that moves on and still has its page has had it all along.
LEMMA StillTheSame ==
  ASSUME IInv, [Next]_vars, NEW r \in Requests,
         req'[r].page = req[r].page, req'[r].seen = req[r].seen, SamePage(r)'
  PROVE  SamePage(r) /\ KeptRow(req[r].page)
  <1>1. /\ req[r].page \in PageIds
        /\ req[r].seen # NoPage
        /\ pages'[req[r].page] # NoPage
        /\ pages'[req[r].page].slug = req[r].seen.slug
    BY DEF SamePage, Live
  <1>2. ~NewRow(req[r].page)
    BY <1>1 DEF NewRow, IInv, SlugsIdentify
  <1>3. KeptRow(req[r].page)
    BY <1>1, <1>2, RowStep DEF IInv
  <1>4. QED
    BY <1>1, <1>3 DEF KeptRow, SamePage

LEMMA SealsHoldStep == IInv /\ [Next]_vars => SealsHold'
  <1> SUFFICES ASSUME IInv, [Next]_vars, NEW r \in Requests, SamePage(r)',
                      \/ req'[r].seen.sealed
                      \/ /\ req'[r].op = "seal"
                         /\ req'[r].at \in {"reread", "log"}
               PROVE  pages'[req'[r].page].sealed
    BY DEF SealsHold
  <1>1. CASE MovesOn(r)
    <2>1. SamePage(r) /\ KeptRow(req[r].page)
      BY <1>1, StillTheSame DEF MovesOn
    <2>2. QED
      BY <1>1, <2>1 DEF MovesOn, KeptRow, IInv, SealsHold
  <1>2. CASE Looks(r)
    BY <1>2 DEF Looks, SamePage
  <1>3. QED
    BY <1>1, <1>2, HandlerMoves DEF IInv

LEMMA EventsStep == IInv /\ [Next]_vars => EventsHaveAuthors' /\ SealMarksTruthful'
  <1> SUFFICES ASSUME IInv, [Next]_vars, NEW p \in PageIds, NEW e \in events'[p]
               PROVE  /\ req'[e.by].at = "ok" /\ req'[e.by].page = p
                      /\ /\ Live(p)'
                         /\ SamePage(e.by)'
                         /\ e.type = "page.sealed" \/ e.late
                         => pages'[p].sealed
    BY DEF EventsHaveAuthors, SealMarksTruthful, Live
  <1>1. CASE e \in events[p]
    <2>1. e.by \in Requests
      BY <1>1 DEF IInv, TypeInv, TypeOK, Event
    <2>2. req[e.by].at = "ok" /\ req[e.by].page = p
      BY <1>1 DEF IInv, EventsHaveAuthors
    <2>3. MovesOn(e.by)
      BY <2>1, <2>2, HandlerMoves DEF IInv, Looks
    <2>4. ASSUME SamePage(e.by)', e.type = "page.sealed" \/ e.late
          PROVE  pages'[p].sealed
      <3>1. SamePage(e.by) /\ KeptRow(p)
        BY <2>1, <2>2, <2>3, <2>4, StillTheSame DEF MovesOn
      <3>2. pages[p].sealed
        BY <1>1, <2>4, <3>1 DEF IInv, SealMarksTruthful, KeptRow
      <3>3. QED
        BY <3>1, <3>2 DEF KeptRow
    <2>5. QED
      BY <2>2, <2>3, <2>4 DEF MovesOn
  <1>2. CASE NewEvent(p, e)
    <2>1. ASSUME SamePage(e.by)', e.type = "page.sealed" \/ e.late
          PROVE  pages'[p].sealed
      BY <1>2, <2>1 DEF NewEvent, SamePage, Live, IInv, SealsHold
    <2>2. QED
      BY <1>2, <2>1 DEF NewEvent
  <1>3. QED
    BY <1>1, <1>2, EventStep DEF IInv

LEMMA NextIInv == IInv /\ [Next]_vars => IInv'
  <1>1. IInv /\ [Next]_vars => TypeInv'
    BY NextTypeInv DEF IInv
  <1>2. QED
    BY <1>1, SlugsIdentifyStep, SealsHoldStep, EventsStep DEF IInv

LEMMA Inductive == Spec => []IInv
  <1>1. QED
    BY InitIInv, NextIInv, PTL DEF Spec

-----------------------------------------------------------------------------
\* The results.

\* Whatever requests race and whichever ids are used again, a page.sealed
\* event, or a post_seal mark, is found on the page its request read only if
\* that page is sealed.
THEOREM MarksAreTruthful == Spec => []SealMarksTruthful
  <1>1. IInv => SealMarksTruthful
    BY DEF IInv
  <1>2. QED
    BY <1>1, Inductive, PTL

\* No interleaving of patches, seals and deletes takes the seal off a page.
THEOREM SealedForGood == Spec => SealIsPermanent
  <1>1. IInv /\ [Next]_vars
          => [\A p \in PageIds :
                 Kept(p) /\ pages[p].sealed => pages'[p].sealed]_vars
    <2> SUFFICES ASSUME IInv, [Next]_vars, NEW p \in PageIds, Kept(p),
                        pages[p].sealed
                 PROVE  pages'[p].sealed
      OBVIOUS
    <2>1. KeptRow(p) \/ NewRow(p)
      BY RowStep DEF IInv, Kept
    <2>2. QED
      BY <2>1 DEF KeptRow, NewRow, Kept
  <1>2. QED
    BY <1>1, Inductive, PTL DEF Spec, SealIsPermanent

\* The slug of a deleted page never resolves to a page again.
THEOREM RetiredForGood == Spec => RetiredSlugStaysRetired
  <1>1. IInv /\ [Next]_vars
          => [\A s \in Slugs :
                 s \in LiveSlugs' /\ s \notin LiveSlugs => s \notin used]_vars
    <2> SUFFICES ASSUME IInv, [Next]_vars, NEW s \in Slugs, s \in LiveSlugs',
                        s \notin LiveSlugs
                 PROVE  s \notin used
      OBVIOUS
    <2>1. PICK p \in PageIds : pages'[p] # NoPage /\ s = pages'[p].slug
      BY DEF LiveSlugs, Live
    <2>2. ~KeptRow(p)
      BY <2>1 DEF KeptRow, LiveSlugs
    <2>3. NewRow(p)
      BY <2>1, <2>2, RowStep DEF IInv
    <2>4. QED
      BY <2>1, <2>3 DEF NewRow
  <1>2. QED
    BY <1>1, Inductive, PTL DEF Spec, RetiredSlugStaysRetired

\* As long as no page has been deleted, what a patch is about to write over a
\* row, perhaps after other patches and a seal, carries the identity the row
\* has.
PatchesKnowTheIdentity ==
    NoPageDeleted =>
        \A r \in Requests :
            At(r, "update", "write")
            => /\ Live(req[r].page)
               /\ pages[req[r].page].key = req[r].seen.key

KeyInv == IInv /\ PatchesKnowTheIdentity

\* Once a slug has lost its page it never gets one again; and a step after
\* which no page has been deleted has deleted none.
LEMMA NoneDeletedBefore ==
  ASSUME IInv, [Next]_vars, NoPageDeleted'
  PROVE  NoPageDeleted /\ \A p \in PageIds : Live(p) => KeptRow(p) /\ Live(p)'
  <1>0. SlugsIdentify /\ TypeInv
    BY DEF IInv
  <1>1. used \subseteq used'
    BY DEF Next, CreatePage, Arrival, HandlerStep, UpdateRead, UpdateWrite,
       UpdateReread, SealRead, SealWrite, SealReread, DeleteRead,
       DeleteRecheck, DeleteRow, UploadAdmit, UploadCommit, ExportRead,
       RecordEvent, Abort, vars
  <1>2. ASSUME NEW s \in used
        PROVE  \E q \in PageIds : /\ Live(q) /\ pages[q].slug = s
                                  /\ KeptRow(q) /\ Live(q)'
    <2>1. PICK q \in PageIds : pages'[q] # NoPage /\ pages'[q].slug = s
      BY <1>1 DEF NoPageDeleted, LiveSlugs, Live
    <2>2. KeptRow(q)
      BY <1>0, <2>1, RowStep DEF NewRow
    <2>3. QED
      BY <2>1, <2>2 DEF KeptRow, Live
  <1>3. NoPageDeleted
    BY <1>0, <1>2 DEF NoPageDeleted, LiveSlugs, SlugsIdentify
  <1>4. ASSUME NEW p \in PageIds, Live(p)
        PROVE  KeptRow(p) /\ Live(p)'
    BY <1>0, <1>2, <1>4 DEF SlugsIdentify
  <1>5. QED
    BY <1>3, <1>4

\* Only the write of a patch touches the identity of a row, and it writes the
\* identity it has read.
LEMMA IdentityStays ==
  ASSUME KeyInv, NoPageDeleted, [Next]_vars, NEW p \in PageIds, Live(p),
         pages'[p] # NoPage
  PROVE  pages'[p].key = pages[p].key
  <1>0. TypeInv /\ PatchesKnowTheIdentity /\ pages[p] \in Row
    BY DEF KeyInv, IInv, TypeInv, TypeOK, Live
  <1>1. ASSUME NEW x \in PageIds, NEW s \in Slugs, NEW k \in Keys,
               CreatePage(x, s, k)
        PROVE  pages'[p].key = pages[p].key
    <2>1. p # x
      BY <1>1 DEF CreatePage, IsNextId, PageIds
    <2>2. QED
      BY <1>0, <1>1, <2>1 DEF CreatePage, TypeInv, TypeOK
  <1>2. ASSUME NEW r \in Requests, UpdateWrite(r)
        PROVE  pages'[p].key = pages[p].key
    <2>1. CASE p = req[r].page
      <3>1. pages'[p] = UpdateRow(pages[p], req[r].seen)
        BY <1>0, <1>2, <2>1 DEF UpdateWrite, TypeInv, TypeOK
      <3>2. pages[p].key = req[r].seen.key
        BY <1>0, <1>2, <2>1 DEF PatchesKnowTheIdentity, UpdateWrite
      <3>3. QED
        BY <1>0, <3>1, <3>2 DEF UpdateRow, Row
    <2>2. CASE p # req[r].page
      BY <1>0, <1>2, <2>2 DEF UpdateWrite, TypeInv, TypeOK
    <2>3. QED
      BY <2>1, <2>2
  <1>3. ASSUME NEW r \in Requests, SealWrite(r)
        PROVE  pages'[p].key = pages[p].key
    <2>1. CASE p = req[r].page
      <3>1. pages'[p] = SealRow(pages[p])
        BY <1>0, <1>3, <2>1 DEF SealWrite, TypeInv, TypeOK
      <3>2. QED
        BY <1>0, <3>1 DEF SealRow, Row
    <2>2. CASE p # req[r].page
      BY <1>0, <1>3, <2>2 DEF SealWrite, TypeInv, TypeOK
    <2>3. QED
      BY <2>1, <2>2
  <1>4. ASSUME NEW r \in Requests, DeleteRow(r)
        PROVE  pages'[p].key = pages[p].key
    BY <1>0, <1>4 DEF DeleteRow, TypeInv, TypeOK
  <1>5. ASSUME UNCHANGED pages
        PROVE  pages'[p].key = pages[p].key
    BY <1>5
  <1>6. QED
    BY <1>1, <1>2, <1>3, <1>4, <1>5
    DEF Next, Arrival, HandlerStep, UpdateRead, UpdateReread, SealRead,
        SealReread, DeleteRead, DeleteRecheck, UploadAdmit, UploadCommit,
        ExportRead, RecordEvent, Abort, vars

\* A patch about to write has just read, or was about to write before.
LEMMA PatchWaits ==
  ASSUME TypeInv, [Next]_vars, NEW r \in Requests, At(r, "update", "write")'
  PROVE  \/ req'[r] = req[r]
         \/ \E p \in PageIds, patch \in Patches : UpdateRead(r, p, patch)
  <1> USE DEF TypeInv, TypeOK
  <1>1. ASSUME NEW q \in Requests, NEW step \in Steps \ {"write"}, Goto(q, step)
        PROVE  req'[r] = req[r]
    BY <1>1 DEF Goto, At, Handler
  <1>2. ASSUME NEW q \in Requests, NEW step \in Steps \ {"write"}, NEW row,
               GotoSeeing(q, step, row)
        PROVE  req'[r] = req[r]
    BY <1>2 DEF GotoSeeing, At, Handler
  <1>3. ASSUME NEW q \in Requests, NEW op \in Ops \ {"update"}, NEW step,
               NEW p \in PageIds, Begin(q, op, step, p)
        PROVE  req'[r] = req[r]
    BY <1>3 DEF Begin, At, Handler
  <1>4. ASSUME NEW q \in Requests, HandlerStep(q) \/ Abort(q)
        PROVE  req'[r] = req[r]
    <2>1. \/ \E step \in Steps \ {"write"} : Goto(q, step)
          \/ \E step \in Steps \ {"write"}, row \in Row \cup {NoPage} :
                GotoSeeing(q, step, row)
      <3>1. ASSUME UpdateReread(q) \/ DeleteRecheck(q)
            PROVE  \/ \E step \in Steps \ {"write"} : Goto(q, step)
                   \/ \E step \in Steps \ {"write"} :
                         GotoSeeing(q, step, pages[req[q].page])
        BY <3>1 DEF UpdateReread, AfterUpdate, DeleteRecheck, Steps
      <3>2. ASSUME UpdateReread(q) \/ DeleteRecheck(q)
            PROVE  pages[req[q].page] \in Row \cup {NoPage}
        BY <3>2 DEF UpdateReread, DeleteRecheck, At, PageInHand
      <3>3. QED
        BY <1>4, <3>1, <3>2 DEF HandlerStep, Abort, UpdateWrite, SealWrite,
           SealReread, DeleteRow, UploadCommit, RecordEvent, InsertEvent, Steps
    <2>2. QED
      BY <1>1, <1>2, <2>1
  <1>5. ASSUME NEW q \in Requests, NEW p \in PageIds, NEW patch \in Patches,
               UpdateRead(q, p, patch), q # r
        PROVE  req'[r] = req[r]
    BY <1>5 DEF UpdateRead
  <1>6. ASSUME NEW q \in Requests, NEW p \in PageIds,
               SealRead(q, p) \/ DeleteRead(q, p) \/ UploadAdmit(q, p)
               \/ ExportRead(q, p)
        PROVE  req'[r] = req[r]
    BY <1>3, <1>6 DEF SealRead, DeleteRead, UploadAdmit, ExportRead, Ops
  <1>7. CASE UNCHANGED req
    BY <1>7
  <1>8. QED
    BY <1>4, <1>5, <1>6, <1>7 DEF Next, Arrival, CreatePage, vars

LEMMA KeyInvInductive == Spec => []KeyInv
  <1>1. Init => PatchesKnowTheIdentity
    BY DEF Init, PatchesKnowTheIdentity, At, IdleHandler
  <1>2. ASSUME KeyInv, [Next]_vars
        PROVE  PatchesKnowTheIdentity'
    <2> SUFFICES ASSUME NoPageDeleted', NEW r \in Requests,
                        At(r, "update", "write")'
                 PROVE  /\ Live(req[r].page)'
                        /\ pages'[req'[r].page].key = req'[r].seen.key
      BY DEF PatchesKnowTheIdentity
    <2>1. IInv /\ TypeInv /\ PatchesKnowTheIdentity
      BY <1>2 DEF KeyInv, IInv
    <2>2. NoPageDeleted /\ \A p \in PageIds : Live(p) => KeptRow(p) /\ Live(p)'
      BY <1>2, <2>1, NoneDeletedBefore
    <2>3. CASE req'[r] = req[r]
      <3>1. /\ req[r].page \in PageIds
            /\ Live(req[r].page)
            /\ pages[req[r].page].key = req[r].seen.key
        BY <2>1, <2>2, <2>3 DEF PatchesKnowTheIdentity, At, TypeInv, PageInHand
      <3>2. pages'[req[r].page] # NoPage
        BY <2>2, <3>1 DEF Live
      <3>3. pages'[req[r].page].key = pages[req[r].page].key
        BY <1>2, <2>2, <3>1, <3>2, IdentityStays
      <3>4. QED
        BY <2>3, <3>1, <3>2, <3>3 DEF Live
    <2>4. ASSUME NEW p \in PageIds, NEW patch \in Patches, UpdateRead(r, p, patch)
          PROVE  /\ Live(req[r].page)'
                 /\ pages'[req'[r].page].key = req'[r].seen.key
      <3>1. Live(p) /\ pages[p] \in Row
        BY <2>1, <2>4 DEF UpdateRead, Live, TypeInv, TypeOK
      <3>2. Merged(pages[p], patch).key = pages[p].key
        BY <3>1 DEF Merged, Row
      <3>3. /\ req'[r].page = p
            /\ req'[r].seen = Merged(pages[p], patch)
            /\ pages' = pages
        BY <2>1, <2>4 DEF UpdateRead, TypeInv, TypeOK
      <3>4. QED
        BY <3>1, <3>2, <3>3 DEF Live
    <2>5. QED
      BY <1>2, <2>1, <2>3, <2>4, PatchWaits
  <1>3. QED
    BY <1>1, <1>2, InitIInv, NextIInv, PTL DEF Spec, KeyInv

\* As long as no page has ever been deleted, no interleaving of patches, seals
\* and uploads gives a page another E2E identity, although every patch writes
\* the identity columns back from a read that others may have overtaken.
THEOREM IdentityIsFixed == Spec => IdentityFixedUntilADelete
  <1>1. KeyInv /\ [Next]_vars
          => [\A p \in PageIds :
                 Kept(p) /\ NoPageDeleted => pages'[p].key = pages[p].key]_vars
    <2> SUFFICES ASSUME KeyInv, [Next]_vars, NEW p \in PageIds, Kept(p),
                        NoPageDeleted
                 PROVE  pages'[p].key = pages[p].key
      OBVIOUS
    <2>1. QED
      BY IdentityStays DEF Kept
  <1>2. QED
    BY <1>1, KeyInvInductive, PTL DEF Spec, IdentityFixedUntilADelete

-----------------------------------------------------------------------------
\* The seal and its event.

\* A seal handler has read the page it is about, which is still there as long
\* as no page has been deleted.
SealsAreKnown ==
    NoPageDeleted => \A r \in Requests : req[r].op = "seal" => SamePage(r)

SealInv == IInv /\ SealsAreKnown /\ SealIsOwed

LEMMA SealsStayKnown ==
  ASSUME IInv, SealsAreKnown, [Next]_vars
  PROVE  SealsAreKnown'
  <1> SUFFICES ASSUME NoPageDeleted', NEW r \in Requests, req'[r].op = "seal"
               PROVE  SamePage(r)'
    BY DEF SealsAreKnown
  <1>1. TypeInv /\ TypeInv'
    BY NextTypeInv DEF IInv
  <1>2. NoPageDeleted /\ \A p \in PageIds : Live(p) => KeptRow(p) /\ Live(p)'
    BY NoneDeletedBefore
  <1>3. CASE MovesOn(r)
    <2>1. SamePage(r)
      BY <1>2, <1>3 DEF SealsAreKnown, MovesOn
    <2>2. QED
      BY <1>2, <1>3, <2>1 DEF SamePage, MovesOn, KeptRow, Live
  <1>4. CASE Looks(r)
    <2>1. req'[r].seen # NoPage
      BY <1>1, <1>4, NoPageAssumption DEF Looks, TypeInv, PageInHand
    <2>2. QED
      BY <1>4, <2>1 DEF Looks, SamePage, Live
  <1>5. QED
    BY <1>1, <1>3, <1>4, HandlerMoves

\* A request that is over stays as it is.
LEMMA OverIsOver ==
  ASSUME TypeInv, [Next]_vars, NEW r \in Requests, req[r].at = "failed"
  PROVE  req'[r] = req[r]
  <1> USE DEF TypeInv, TypeOK
  <1>1. ASSUME NEW q \in Requests, Arrival(q) \/ HandlerStep(q) \/ Abort(q)
        PROVE  req'[r] = req[r]
    <2>1. q # r
      BY <1>1 DEF Arrival, HandlerStep, UpdateRead, UpdateWrite, UpdateReread,
         SealRead, SealWrite, SealReread, DeleteRead, DeleteRecheck, DeleteRow,
         UploadAdmit, UploadCommit, ExportRead, RecordEvent, Abort, Begin, At,
         Outcomes
    <2>2. QED
      BY <1>1, <2>1 DEF Arrival, HandlerStep, UpdateRead, UpdateWrite,
         UpdateReread, SealRead, SealWrite, SealReread, DeleteRead,
         DeleteRecheck, DeleteRow, UploadAdmit, UploadCommit, ExportRead,
         RecordEvent, InsertEvent, Abort, Begin, Goto, GotoSeeing
  <1>2. QED
    BY <1>1 DEF Next, CreatePage, vars

\* The events of a page stay as long as its row.
LEMMA EventsStay ==
  ASSUME TypeInv, [Next]_vars, NEW p \in PageIds, Live(p), Live(p)'
  PROVE  events[p] \subseteq events'[p]
  <1> USE DEF TypeInv, TypeOK, PageInHand
  <1>1. ASSUME NEW x \in PageIds, NEW s \in Slugs, NEW k \in Keys,
               CreatePage(x, s, k)
        PROVE  events[p] \subseteq events'[p]
    BY <1>1 DEF CreatePage
  <1>2. ASSUME NEW r \in Requests, UploadCommit(r) \/ RecordEvent(r)
        PROVE  events[p] \subseteq events'[p]
    BY <1>2 DEF UploadCommit, RecordEvent, InsertEvent
  <1>3. ASSUME NEW r \in Requests, DeleteRow(r)
        PROVE  events[p] \subseteq events'[p]
    BY <1>3 DEF DeleteRow, Live
  <1>4. CASE UNCHANGED events
    BY <1>4
  <1>5. QED
    BY <1>1, <1>2, <1>3, <1>4
    DEF Next, Arrival, HandlerStep, UpdateRead, UpdateWrite, UpdateReread,
        SealRead, SealWrite, SealReread, DeleteRead, DeleteRecheck,
        UploadAdmit, ExportRead, Abort, vars

\* A page becomes sealed only by a seal handler's write.
LEMMA SealedBySeal ==
  ASSUME TypeInv, [Next]_vars, NEW p \in PageIds, Live(p), ~pages[p].sealed,
         KeptRow(p), Live(p)', pages'[p].sealed
  PROVE  \E r \in Requests : req[r].page = p /\ SealWrite(r)
  <1> USE DEF TypeInv, TypeOK, PageInHand
  <1>0. pages[p] \in Row
    BY DEF Live
  <1>1. ASSUME NEW x \in PageIds, NEW s \in Slugs, NEW k \in Keys,
               CreatePage(x, s, k)
        PROVE  FALSE
    <2>1. x # p
      BY <1>1 DEF CreatePage, IsNextId, PageIds
    <2>2. QED
      BY <1>1, <2>1 DEF CreatePage
  <1>2. ASSUME NEW r \in Requests, UpdateWrite(r)
        PROVE  FALSE
    <2>1. pages'[p].sealed = pages[p].sealed
      BY <1>0, <1>2 DEF UpdateWrite, UpdateRow, Row
    <2>2. QED
      BY <2>1
  <1>3. ASSUME NEW r \in Requests, SealWrite(r)
        PROVE  req[r].page = p
    BY <1>3 DEF SealWrite
  <1>4. ASSUME NEW r \in Requests, DeleteRow(r)
        PROVE  FALSE
    BY <1>4 DEF DeleteRow, Live
  <1>5. ~UNCHANGED pages
    OBVIOUS
  <1>6. QED
    BY <1>1, <1>2, <1>3, <1>4, <1>5
    DEF Next, Arrival, HandlerStep, UpdateRead, UpdateReread, SealRead,
        SealReread, DeleteRead, DeleteRecheck, UploadAdmit, UploadCommit,
        ExportRead, RecordEvent, Abort, vars

\* Whoever is to record the event goes on to do so, or is cut.
LEMMA RecorderGoesOn ==
  ASSUME TypeInv, [Next]_vars, NEW r \in Requests, Live(req[r].page),
         req[r].op = "seal", req[r].at \in {"reread", "log"},
         ~req[r].seen.sealed
  PROVE  /\ req'[r].page = req[r].page /\ req'[r].op = "seal"
         /\ req'[r].seen = req[r].seen
         /\ \/ req'[r].at \in {"reread", "log", "failed"}
            \/ \E e \in events'[req[r].page] : e.type = "page.sealed"
  <1> USE DEF TypeInv, TypeOK, PageInHand
  <1>0. req[r] \in Handler /\ req[r].page \in PageIds
    OBVIOUS
  <1>1. CASE req'[r] = req[r]
    BY <1>1
  <1>2. ASSUME SealReread(r)
        PROVE  req' = [req EXCEPT ![r].at = "log"]
    BY <1>2 DEF SealReread, Goto
  <1>3. ASSUME RecordEvent(r)
        PROVE  /\ req' = [req EXCEPT ![r].at = "ok"]
               /\ \E e \in events'[req[r].page] : e.type = "page.sealed"
    <2> DEFINE new == [type |-> EventOf(r), by |-> r, late |-> PostSealMark(r)]
    <2>1. /\ events' = [events EXCEPT ![req[r].page] = @ \cup {new}]
          /\ req' = [req EXCEPT ![r].at = "ok"]
      BY <1>3 DEF RecordEvent, InsertEvent, Goto
    <2>2. new \in events'[req[r].page]
      BY <1>0, <2>1
    <2>3. new.type = "page.sealed"
      BY DEF EventOf
    <2>4. QED
      BY <2>1, <2>2, <2>3
  <1>4. ASSUME Abort(r)
        PROVE  req' = [req EXCEPT ![r].at = "failed"]
    BY <1>4 DEF Abort, Goto
  <1>5. CASE SealReread(r) \/ RecordEvent(r) \/ Abort(r)
    BY <1>0, <1>2, <1>3, <1>4, <1>5 DEF Handler
  <1>6. ASSUME NEW q \in Requests, Arrival(q) \/ HandlerStep(q) \/ Abort(q),
               q # r
        PROVE  req'[r] = req[r]
    BY <1>6 DEF Arrival, HandlerStep, UpdateRead, UpdateWrite, UpdateReread,
       SealRead, SealWrite, SealReread, DeleteRead, DeleteRecheck, DeleteRow,
       UploadAdmit, UploadCommit, ExportRead, RecordEvent, InsertEvent, Abort,
       Begin, Goto, GotoSeeing
  <1>7. ASSUME Arrival(r) \/ HandlerStep(r)
        PROVE  SealReread(r) \/ RecordEvent(r)
    BY <1>7 DEF Arrival, HandlerStep, UpdateRead, UpdateWrite, UpdateReread,
       SealRead, SealWrite, DeleteRead, DeleteRecheck, DeleteRow, UploadAdmit,
       UploadCommit, ExportRead, Begin, At
  <1>8. QED
    BY <1>1, <1>5, <1>6, <1>7 DEF Next, CreatePage, vars

LEMMA SealInvStep == SealInv /\ [Next]_vars => SealInv'
  <1> SUFFICES ASSUME SealInv, [Next]_vars
               PROVE  SealInv'
    OBVIOUS
  <1>1. IInv /\ TypeInv /\ IInv' /\ SealsAreKnown'
    BY NextIInv, SealsStayKnown DEF SealInv, IInv
  <1>2. SUFFICES ASSUME NEW p \in PageIds, Live(p)', pages'[p].sealed,
                        NoPageDeleted'
        PROVE  \/ SealCut(p)'
               \/ \E e \in events'[p] : e.type = "page.sealed"
               \/ \E r \in Requests :
                     /\ req'[r].page = p /\ req'[r].op = "seal"
                     /\ req'[r].at \in {"reread", "log"} /\ ~req'[r].seen.sealed
    BY <1>1 DEF SealInv, SealIsOwed
  <1>3. NoPageDeleted /\ \A q \in PageIds : Live(q) => KeptRow(q) /\ Live(q)'
    BY <1>1, <1>2, NoneDeletedBefore
  <1>4. Live(p)
    BY <1>1, <1>2, RowStep DEF Live, KeptRow, NewRow
  <1>5. CASE pages[p].sealed
    <2>1. ASSUME NEW r \in Requests, req[r].page = p, At(r, "seal", "failed")
          PROVE  SealCut(p)'
      BY <1>1, <2>1, OverIsOver DEF SealCut, At
    <2>2. ASSUME NEW e \in events[p], e.type = "page.sealed"
          PROVE  \E f \in events'[p] : f.type = "page.sealed"
      BY <1>1, <1>2, <1>4, <2>2, EventsStay
    <2>3. ASSUME NEW r \in Requests, req[r].page = p, req[r].op = "seal",
                 req[r].at \in {"reread", "log"}, ~req[r].seen.sealed
          PROVE  \/ SealCut(p)'
                 \/ \E e \in events'[p] : e.type = "page.sealed"
                 \/ /\ req'[r].page = p /\ req'[r].op = "seal"
                    /\ req'[r].at \in {"reread", "log"} /\ ~req'[r].seen.sealed
      BY <1>1, <1>4, <2>3, RecorderGoesOn DEF SealCut, At
    <2>4. QED
      BY <1>3, <1>4, <1>5, <2>1, <2>2, <2>3 DEF SealInv, SealIsOwed, SealCut
  <1>6. CASE ~pages[p].sealed
    <2>1. PICK r \in Requests : req[r].page = p /\ SealWrite(r)
      BY <1>1, <1>2, <1>3, <1>4, <1>6, SealedBySeal
    <2>2. ~req[r].seen.sealed
      BY <1>1, <1>3, <1>6, <2>1
      DEF SealInv, SealsAreKnown, IInv, SealsHold, SealWrite, At
    <2>3. req' = [req EXCEPT ![r].at = "reread"] /\ req[r].op = "seal"
      BY <1>4, <2>1 DEF SealWrite, Goto, At
    <2>4. req[r] \in Handler
      BY <1>1 DEF TypeInv, TypeOK
    <2>5. /\ req'[r].page = p /\ req'[r].op = "seal"
          /\ req'[r].at = "reread" /\ ~req'[r].seen.sealed
      BY <1>1, <2>1, <2>2, <2>3, <2>4 DEF TypeInv, TypeOK, Handler
    <2>6. QED
      BY <2>5
  <1>7. QED
    BY <1>5, <1>6

\* The safety half of SealEventuallyRecorded: as long as no page has been
\* deleted, a page that handleSealPage has sealed has its page.sealed event, or
\* a handler that will record it, or a seal of it was cut.  Of several seals at
\* once it is always one that read the page unsealed that is left with the
\* event.
THEOREM SealsAreAccountedFor == Spec => []SealIsOwed
  <1>1. Init => SealInv
    BY InitIInv, BoundAssumption
    DEF Init, SealInv, SealsAreKnown, SealIsOwed, IdleHandler, Live
  <1>2. SealInv => SealIsOwed
    BY DEF SealInv
  <1>3. QED
    BY <1>1, <1>2, SealInvStep, PTL DEF Spec

-----------------------------------------------------------------------------
\* PageLifecycle implements PageRegister.

\* The status of a slug, read off the row that has it.
LEMMA StatusIs ==
  ASSUME SlugsIdentify, NEW s \in Slugs
  PROVE  /\ s \notin used => StatusOf(s) = "unborn"
         /\ \A p \in PageIds :
               Live(p) /\ pages[p].slug = s
               => StatusOf(s) = IF pages[p].sealed THEN "sealed" ELSE "open"
         /\ s \in used /\ s \notin LiveSlugs => StatusOf(s) = "retired"
  <1>1. s \notin used => StatusOf(s) = "unborn"
    BY DEF StatusOf, SlugsIdentify
  <1>2. ASSUME NEW p \in PageIds, Live(p), pages[p].slug = s
        PROVE  StatusOf(s) = IF pages[p].sealed THEN "sealed" ELSE "open"
    <2>1. /\ s \in used
          /\ \A q \in PageIds : Live(q) /\ pages[q].slug = s => q = p
      BY <1>2 DEF SlugsIdentify
    <2>2. CASE pages[p].sealed
      BY <1>2, <2>1, <2>2 DEF StatusOf
    <2>3. CASE ~pages[p].sealed
      BY <1>2, <2>1, <2>3 DEF StatusOf
    <2>4. QED
      BY <2>2, <2>3
  <1>3. s \in used /\ s \notin LiveSlugs => StatusOf(s) = "retired"
    BY DEF StatusOf, LiveSlugs
  <1>4. QED
    BY <1>1, <1>2, <1>3

\* The same after a step.
LEMMA StatusBecomes ==
  ASSUME SlugsIdentify', NEW s \in Slugs
  PROVE  /\ \A p \in PageIds :
               Live(p)' /\ pages'[p].slug = s
               => StatusOf(s)' = IF pages'[p].sealed THEN "sealed" ELSE "open"
         /\ s \in used' /\ (\A p \in PageIds : Live(p)' => pages'[p].slug # s)
               => StatusOf(s)' = "retired"
  <1>1. ASSUME NEW p \in PageIds, Live(p)', pages'[p].slug = s
        PROVE  StatusOf(s)' = IF pages'[p].sealed THEN "sealed" ELSE "open"
    <2>1. /\ s \in used'
          /\ \A q \in PageIds : Live(q)' /\ pages'[q].slug = s => q = p
      BY <1>1 DEF SlugsIdentify
    <2>2. CASE pages'[p].sealed
      BY <1>1, <2>1, <2>2 DEF StatusOf
    <2>3. CASE ~pages'[p].sealed
      BY <1>1, <2>1, <2>3 DEF StatusOf
    <2>4. QED
      BY <2>2, <2>3
  <1>2. s \in used' /\ (\A p \in PageIds : Live(p)' => pages'[p].slug # s)
          => StatusOf(s)' = "retired"
    BY DEF StatusOf
  <1>3. QED
    BY <1>1, <1>2

\* If the slugs and seals of the rows stay, so does every status.
LEMMA StatusStays ==
  ASSUME SlugsIdentify, SlugsIdentify', NEW s \in Slugs,
         (s \in used) <=> (s \in used'),
         \A p \in PageIds :
            Live(p) /\ pages[p].slug = s
            => Live(p)' /\ pages'[p].slug = s /\ pages'[p].sealed = pages[p].sealed,
         \A p \in PageIds : Live(p)' /\ pages'[p].slug = s
                            => Live(p) /\ pages[p].slug = s
  PROVE  StatusOf(s)' = StatusOf(s)
  <1>1. CASE \E p \in PageIds : Live(p) /\ pages[p].slug = s
    <2>1. PICK p \in PageIds : Live(p) /\ pages[p].slug = s
      BY <1>1
    <2>2. StatusOf(s) = IF pages[p].sealed THEN "sealed" ELSE "open"
      BY <2>1, StatusIs
    <2>3. Live(p)' /\ pages'[p].slug = s /\ pages'[p].sealed = pages[p].sealed
      BY <2>1
    <2>4. StatusOf(s)' = IF pages'[p].sealed THEN "sealed" ELSE "open"
      BY <2>3, StatusBecomes
    <2>5. QED
      BY <2>2, <2>3, <2>4
  <1>2. CASE ~\E p \in PageIds : Live(p) /\ pages[p].slug = s
    BY <1>2 DEF StatusOf
  <1>3. QED
    BY <1>1, <1>2

\* If the rows stay but for their other columns, no slug changes its status.
RowsStay ==
    /\ used' = used
    /\ \A p \in PageIds :
          /\ Live(p)' <=> Live(p)
          /\ Live(p) => /\ pages'[p].slug = pages[p].slug
                        /\ pages'[p].sealed = pages[p].sealed

LEMMA StatusesStay ==
  ASSUME SlugsIdentify, SlugsIdentify', RowsStay
  PROVE  [s \in Slugs |-> StatusOf(s)]' = [s \in Slugs |-> StatusOf(s)]
  <1>1. ASSUME NEW s \in Slugs
        PROVE  StatusOf(s)' = StatusOf(s)
    BY StatusStays DEF RowsStay
  <1>2. QED
    BY <1>1

\* A step of a handler that is not an upload being let in admits nobody.
LEMMA AdmittedStays ==
  ASSUME \A r \in Requests :
            /\ req'[r].op = "upload" <=> req[r].op = "upload"
            /\ req[r].op = "upload" => req'[r].seen = req[r].seen
  PROVE  [s \in Slugs |-> AdmittedTo(s)]' = [s \in Slugs |-> AdmittedTo(s)]
  <1>1. ASSUME NEW s \in Slugs
        PROVE  AdmittedTo(s)' = AdmittedTo(s)
    BY DEF AdmittedTo
  <1>2. QED
    BY <1>1

\* Every step but letting an upload in leaves the admitted alone.
LEMMA NobodyAdmitted ==
  ASSUME TypeInv, [Next]_vars,
         \A r \in Requests, p \in PageIds : ~UploadAdmit(r, p)
  PROVE  [s \in Slugs |-> AdmittedTo(s)]' = [s \in Slugs |-> AdmittedTo(s)]
  <1> USE DEF TypeInv, TypeOK, PageInHand
  <1> DEFINE Stays(r) == /\ req'[r].op = "upload" <=> req[r].op = "upload"
                         /\ req[r].op = "upload" => req'[r].seen = req[r].seen
  <1>1. ASSUME NEW r \in Requests, NEW q \in Requests, NEW p \in PageIds,
               \/ \E patch \in Patches : UpdateRead(q, p, patch)
               \/ SealRead(q, p) \/ DeleteRead(q, p) \/ ExportRead(q, p)
        PROVE  Stays(r)
    <2>1. req[q].op # "upload" /\ req'[q].op # "upload"
      BY <1>1 DEF UpdateRead, SealRead, DeleteRead, ExportRead, Begin
    <2>2. q # r => req'[r] = req[r]
      BY <1>1 DEF UpdateRead, SealRead, DeleteRead, ExportRead, Begin
    <2>3. QED
      BY <2>1, <2>2
  <1>2. ASSUME NEW r \in Requests, NEW q \in Requests,
               UpdateReread(q) \/ DeleteRecheck(q)
        PROVE  Stays(r)
    <2>1. req[q].op # "upload" /\ req'[q].op # "upload"
      BY <1>2 DEF UpdateReread, DeleteRecheck, At, Goto, GotoSeeing, Handler
    <2>2. q # r => req'[r] = req[r]
      BY <1>2 DEF UpdateReread, DeleteRecheck, Goto, GotoSeeing
    <2>3. QED
      BY <2>1, <2>2
  <1>3. ASSUME NEW r \in Requests, NEW q \in Requests,
               NEW step \in Steps, Goto(q, step)
        PROVE  Stays(r)
    BY <1>3 DEF Goto, Handler
  <1>4. ASSUME NEW r \in Requests, UNCHANGED req
        PROVE  Stays(r)
    BY <1>4
  <1>5. ASSUME NEW r \in Requests
        PROVE  Stays(r)
    <2> HIDE DEF Stays
    <2>1. \/ UNCHANGED req
          \/ \E q \in Requests, step \in Steps : Goto(q, step)
          \/ \E q \in Requests : UpdateReread(q) \/ DeleteRecheck(q)
          \/ \E q \in Requests, p \in PageIds :
                \/ \E patch \in Patches : UpdateRead(q, p, patch)
                \/ SealRead(q, p) \/ DeleteRead(q, p) \/ ExportRead(q, p)
      <3>1. ASSUME NEW q \in Requests, HandlerStep(q) \/ Abort(q)
            PROVE  \/ UpdateReread(q) \/ DeleteRecheck(q)
                   \/ \E step \in Steps : Goto(q, step)
        BY <3>1 DEF HandlerStep, Abort, UpdateWrite, SealWrite, SealReread,
           DeleteRow, UploadCommit, RecordEvent, InsertEvent, Steps
      <3>2. QED
        BY <3>1 DEF Next, Arrival, CreatePage, vars
    <2>2. QED
      BY <1>1, <1>2, <1>3, <1>4, <2>1
  <1>6. QED
    BY <1>5, AdmittedStays

LEMMA RegisterInit == Init => Register!Init
  <1> SUFFICES ASSUME Init
               PROVE  Register!Init
    OBVIOUS
  <1>1. ASSUME NEW s \in Slugs
        PROVE  StatusOf(s) = "unborn"
    BY InitIInv, StatusIs DEF Init, IInv
  <1>2. ASSUME NEW s \in Slugs
        PROVE  AdmittedTo(s) = {}
    BY DEF Init, AdmittedTo, IdleHandler
  <1>3. QED
    BY <1>1, <1>2 DEF Register!Init

\* Every slug but s keeps its row and its seal.
ElsewhereStays(s) ==
    \A t \in Slugs \ {s} :
        /\ (t \in used) <=> (t \in used')
        /\ \A p \in PageIds :
              Live(p) /\ pages[p].slug = t
              => /\ Live(p)'
                 /\ pages'[p].slug = t
                 /\ pages'[p].sealed = pages[p].sealed
        /\ \A p \in PageIds : Live(p)' /\ pages'[p].slug = t
                              => Live(p) /\ pages[p].slug = t

\* A function from slugs changed at one slug.
LEMMA OneStatusMoves ==
  ASSUME SlugsIdentify, SlugsIdentify', NEW s \in Slugs, NEW to,
         StatusOf(s)' = to, ElsewhereStays(s)
  PROVE  [x \in Slugs |-> StatusOf(x)]'
           = [[x \in Slugs |-> StatusOf(x)] EXCEPT ![s] = to]
  <1>1. ASSUME NEW t \in Slugs, t # s
        PROVE  StatusOf(t)' = StatusOf(t)
    BY <1>1, StatusStays DEF ElsewhereStays
  <1>2. QED
    BY <1>1

LEMMA CreateRefines ==
  ASSUME IInv, IInv', [Next]_vars, NEW p \in PageIds, NEW s \in Slugs,
         NEW k \in Keys, CreatePage(p, s, k)
  PROVE  Register!Publish(s)
  <1> USE DEF IInv
  <1>1. /\ ~Live(p)
        /\ s \notin used
        /\ used' = used \cup {s}
        /\ pages' = [pages EXCEPT ![p] = [slug |-> s, key |-> k,
                                          active |-> TRUE, sealed |-> FALSE]]
        /\ req' = req
    BY DEF CreatePage, IsNextId, PageIds, Live, TypeInv, TypeOK
  <1>2. pages'[p] # NoPage /\ pages'[p].slug = s /\ ~pages'[p].sealed
    <2>1. pages'[p] = [slug |-> s, key |-> k, active |-> TRUE, sealed |-> FALSE]
      BY <1>1 DEF TypeInv, TypeOK
    <2>2. pages'[p] \in Row
      BY <2>1 DEF Row
    <2>3. pages'[p] # NoPage
      BY <2>2, NoPageAssumption
    <2>4. QED
      BY <2>1, <2>3
  <1>3. \A q \in PageIds : q # p => pages'[q] = pages[q]
    BY <1>1 DEF TypeInv, TypeOK
  <1>4. StatusOf(s) = "unborn"
    BY <1>1, StatusIs
  <1>5. StatusOf(s)' = "open"
    BY <1>2, StatusBecomes DEF Live
  <1>6. \A q \in PageIds : Live(q) => pages[q].slug # s
    BY <1>1 DEF SlugsIdentify
  <1>7. [x \in Slugs |-> StatusOf(x)]'
          = [[x \in Slugs |-> StatusOf(x)] EXCEPT ![s] = "open"]
    <2>1. ElsewhereStays(s)
      BY <1>1, <1>2, <1>3 DEF ElsewhereStays, Live
    <2>2. QED
      BY <1>5, <2>1, OneStatusMoves
  <1>8. [x \in Slugs |-> AdmittedTo(x)]' = [x \in Slugs |-> AdmittedTo(x)]
    BY <1>1, AdmittedStays
  <1>9. QED
    BY <1>4, <1>7, <1>8 DEF Register!Publish, Register!Move

LEMMA SealRefines ==
  ASSUME IInv, IInv', [Next]_vars, NEW r \in Requests, SealWrite(r),
         Live(req[r].page), ~pages[req[r].page].sealed
  PROVE  \E s \in Slugs : Register!Seal(s)
  <1>0. SlugsIdentify /\ SlugsIdentify' /\ TypeInv
    BY DEF IInv
  <1>1. PICK p \in PageIds, s \in Slugs :
            /\ p = req[r].page
            /\ pages[p] \in Row
            /\ pages[p].slug = s
    BY <1>0 DEF TypeInv, TypeOK, PageInHand, SealWrite, At, Live, Row
  <1>2. /\ used' = used
        /\ pages' = [pages EXCEPT ![p] = SealRow(pages[p])]
    BY <1>1 DEF SealWrite
  <1>3. pages'[p] = SealRow(pages[p]) /\ pages'[p] \in Row
    BY <1>0, <1>1, <1>2 DEF TypeInv, TypeOK, SealRow, Row
  <1>4. pages'[p].slug = s /\ pages'[p].sealed
    BY <1>1, <1>3 DEF SealRow, Row
  <1>5. Live(p)'
    BY <1>3, NoPageAssumption DEF Live
  <1>6. \A q \in PageIds : q # p => pages'[q] = pages[q]
    BY <1>0, <1>2 DEF TypeInv, TypeOK
  <1>7. Live(p) /\ ~pages[p].sealed
    BY <1>1
  <1>8. StatusOf(s) = "open"
    BY <1>0, <1>1, <1>7, StatusIs
  <1>9. StatusOf(s)' = "sealed"
    BY <1>0, <1>1, <1>4, <1>5, StatusBecomes
  <1>10. ElsewhereStays(s)
    BY <1>1, <1>2, <1>4, <1>6 DEF ElsewhereStays, Live
  <1>11. [x \in Slugs |-> StatusOf(x)]'
           = [[x \in Slugs |-> StatusOf(x)] EXCEPT ![s] = "sealed"]
    BY <1>0, <1>1, <1>9, <1>10, OneStatusMoves
  <1>12. \A q \in Requests, x \in PageIds : ~UploadAdmit(q, x)
    BY <1>4, <1>7 DEF UploadAdmit
  <1>13. [x \in Slugs |-> AdmittedTo(x)]' = [x \in Slugs |-> AdmittedTo(x)]
    BY <1>0, <1>12, NobodyAdmitted
  <1>14. QED
    BY <1>1, <1>8, <1>11, <1>13 DEF Register!Seal, Register!Move

LEMMA DeleteRefines ==
  ASSUME IInv, IInv', [Next]_vars, NEW r \in Requests, DeleteRow(r),
         Live(req[r].page)
  PROVE  \E s \in Slugs : Register!Retire(s)
  <1>0. SlugsIdentify /\ SlugsIdentify' /\ TypeInv
    BY DEF IInv
  <1>1. PICK p \in PageIds, s \in Slugs :
            /\ p = req[r].page
            /\ pages[p] \in Row
            /\ pages[p].slug = s
    BY <1>0 DEF TypeInv, TypeOK, PageInHand, DeleteRow, At, Live, Row
  <1>2. used' = used /\ pages' = [pages EXCEPT ![p] = NoPage]
    BY <1>1 DEF DeleteRow
  <1>3. pages'[p] = NoPage /\ \A q \in PageIds : q # p => pages'[q] = pages[q]
    BY <1>0, <1>2 DEF TypeInv, TypeOK
  <1>4. Live(p)
    BY <1>1
  <1>5. StatusOf(s) \in {"open", "sealed"}
    BY <1>0, <1>1, <1>4, StatusIs
  <1>6. StatusOf(s)' = "retired"
    <2>1. \A q \in PageIds : Live(q)' => pages'[q].slug # s
      BY <1>0, <1>1, <1>3, <1>4 DEF SlugsIdentify, Live
    <2>2. s \in used'
      BY <1>0, <1>1, <1>2, <1>4 DEF SlugsIdentify
    <2>3. QED
      BY <1>0, <1>1, <2>1, <2>2, StatusBecomes
  <1>7. ElsewhereStays(s)
    BY <1>1, <1>2, <1>3 DEF ElsewhereStays, Live
  <1>8. [x \in Slugs |-> StatusOf(x)]'
          = [[x \in Slugs |-> StatusOf(x)] EXCEPT ![s] = "retired"]
    BY <1>0, <1>1, <1>6, <1>7, OneStatusMoves
  <1>9. \A q \in Requests, x \in PageIds : ~UploadAdmit(q, x)
    BY <1>3, <1>4 DEF UploadAdmit, Live
  <1>10. [x \in Slugs |-> AdmittedTo(x)]' = [x \in Slugs |-> AdmittedTo(x)]
    BY <1>0, <1>9, NobodyAdmitted
  <1>11. QED
    BY <1>1, <1>5, <1>8, <1>10 DEF Register!Retire, Register!Move

LEMMA AdmitRefines ==
  ASSUME IInv, IInv', NEW r \in Requests, NEW p \in PageIds, UploadAdmit(r, p)
  PROVE  \E s \in Slugs : Register!LetIn(s, r)
  <1> DEFINE s == pages[p].slug
  <1> USE DEF IInv, TypeInv, TypeOK, PageInHand
  <1>1. /\ Live(p) /\ pages[p] \in Row /\ s \in Slugs
        /\ ~pages[p].sealed
        /\ pages' = pages /\ used' = used
        /\ req[r].op = "idle"
        /\ req' = [req EXCEPT ![r] = [op |-> "upload", at |-> "stream",
                                      page |-> p, seen |-> pages[p]]]
    BY DEF UploadAdmit, IsOpen, Begin, Live, Row
  <1>2. StatusOf(s) = "open"
    BY <1>1, StatusIs
  <1>3. [x \in Slugs |-> StatusOf(x)]' = [x \in Slugs |-> StatusOf(x)]
    BY <1>1, StatusesStay DEF RowsStay, Live
  <1>4. ASSUME NEW x \in Slugs
        PROVE  AdmittedTo(x)' = IF x = s THEN AdmittedTo(x) \cup {r}
                                         ELSE AdmittedTo(x)
    BY <1>1 DEF AdmittedTo
  <1>5. [x \in Slugs |-> AdmittedTo(x)]'
          = [[x \in Slugs |-> AdmittedTo(x)] EXCEPT ![s] = @ \cup {r}]
    BY <1>1, <1>4
  <1>6. QED
    BY <1>1, <1>2, <1>3, <1>5 DEF Register!LetIn

\* A step that leaves the slugs and seals of all rows alone, and lets nobody
\* in, is none of the register's.
LEMMA StutterStep ==
  ASSUME IInv, IInv', [Next]_vars, RowsStay,
         \A r \in Requests, p \in PageIds : ~UploadAdmit(r, p)
  PROVE  UNCHANGED Register!registerVars
  <1>1. SlugsIdentify /\ SlugsIdentify' /\ TypeInv
    BY DEF IInv
  <1>2. [s \in Slugs |-> StatusOf(s)]' = [s \in Slugs |-> StatusOf(s)]
    BY <1>1, StatusesStay
  <1>3. [s \in Slugs |-> AdmittedTo(s)]' = [s \in Slugs |-> AdmittedTo(s)]
    BY <1>1, NobodyAdmitted
  <1>4. QED
    BY <1>2, <1>3 DEF Register!registerVars

LEMMA RegisterStep ==
  ASSUME IInv, IInv', [Next]_vars
  PROVE  [Register!Next]_Register!registerVars
  <1>1. CASE \E p \in PageIds, s \in Slugs, k \in Keys : CreatePage(p, s, k)
    BY <1>1, CreateRefines DEF Register!Next
  <1>2. CASE \E r \in Requests, p \in PageIds : UploadAdmit(r, p)
    BY <1>2, AdmitRefines DEF Register!Next
  <1>3. CASE \E r \in Requests : /\ SealWrite(r)
                                /\ Live(req[r].page)
                                /\ ~pages[req[r].page].sealed
    BY <1>3, SealRefines DEF Register!Next
  <1>4. CASE \E r \in Requests : DeleteRow(r) /\ Live(req[r].page)
    BY <1>4, DeleteRefines DEF Register!Next
  <1>5. ASSUME ~\E p \in PageIds, s \in Slugs, k \in Keys : CreatePage(p, s, k),
               ~\E r \in Requests : /\ SealWrite(r)
                                    /\ Live(req[r].page)
                                    /\ ~pages[req[r].page].sealed,
               ~\E r \in Requests : DeleteRow(r) /\ Live(req[r].page)
        PROVE  RowsStay
    <2>1. TypeInv
      BY DEF IInv
    <2>2. ASSUME NEW r \in Requests, UpdateWrite(r)
          PROVE  RowsStay
      <3>1. PICK p \in PageIds : p = req[r].page
        BY <2>1, <2>2 DEF TypeInv, TypeOK, PageInHand, UpdateWrite, At
      <3>2. CASE ~Live(p)
        BY <2>2, <3>1, <3>2 DEF UpdateWrite, RowsStay, Live
      <3>3. CASE Live(p)
        <4>1. pages[p] \in Row /\ req[r].seen \in Row
          BY <2>1, <2>2, <3>3 DEF TypeInv, TypeOK, Live, PageInHand, Handler,
             UpdateWrite, At
        <4>2. /\ used' = used
              /\ pages' = [pages EXCEPT ![p] = UpdateRow(pages[p], req[r].seen)]
          BY <2>2, <3>1, <3>3 DEF UpdateWrite
        <4>3. pages'[p] = UpdateRow(pages[p], req[r].seen)
          BY <2>1, <4>2 DEF TypeInv, TypeOK
        <4>4. /\ pages'[p].slug = pages[p].slug
              /\ pages'[p].sealed = pages[p].sealed
              /\ pages'[p] \in Row
          BY <4>1, <4>3 DEF UpdateRow, Row
        <4>5. Live(p)'
          BY <4>4, NoPageAssumption DEF Live
        <4>6. \A q \in PageIds : q # p => pages'[q] = pages[q]
          BY <2>1, <4>2 DEF TypeInv, TypeOK
        <4>7. QED
          BY <3>3, <4>2, <4>4, <4>5, <4>6 DEF RowsStay, Live
      <3>4. QED
        BY <3>2, <3>3
    <2>3. ASSUME NEW r \in Requests, SealWrite(r)
          PROVE  RowsStay
      <3>1. PICK p \in PageIds : p = req[r].page
        BY <2>1, <2>3 DEF TypeInv, TypeOK, PageInHand, SealWrite, At
      <3>2. CASE ~Live(p)
        BY <2>3, <3>1, <3>2 DEF SealWrite, RowsStay, Live
      <3>3. CASE Live(p)
        <4>1. pages[p] \in Row /\ pages[p].sealed
          BY <1>5, <2>1, <2>3, <3>1, <3>3 DEF TypeInv, TypeOK, Live
        <4>2. /\ used' = used
              /\ pages' = [pages EXCEPT ![p] = SealRow(pages[p])]
          BY <2>3, <3>1, <3>3 DEF SealWrite
        <4>3. pages'[p] = SealRow(pages[p])
          BY <2>1, <4>2 DEF TypeInv, TypeOK
        <4>4. /\ pages'[p].slug = pages[p].slug
              /\ pages'[p].sealed = pages[p].sealed
              /\ pages'[p] \in Row
          BY <4>1, <4>3 DEF SealRow, Row
        <4>5. Live(p)'
          BY <4>4, NoPageAssumption DEF Live
        <4>6. \A q \in PageIds : q # p => pages'[q] = pages[q]
          BY <2>1, <4>2 DEF TypeInv, TypeOK
        <4>7. QED
          BY <3>3, <4>2, <4>4, <4>5, <4>6 DEF RowsStay, Live
      <3>4. QED
        BY <3>2, <3>3
    <2>4. ASSUME NEW r \in Requests, DeleteRow(r)
          PROVE  RowsStay
      <3>1. PICK p \in PageIds : p = req[r].page
        BY <2>1, <2>4 DEF TypeInv, TypeOK, PageInHand, DeleteRow, At
      <3>2. pages[p] = NoPage
        BY <1>5, <2>4, <3>1 DEF Live
      <3>3. pages' = pages /\ used' = used
        BY <2>1, <2>4, <3>1, <3>2 DEF DeleteRow, TypeInv, TypeOK
      <3>4. QED
        BY <3>3 DEF RowsStay, Live
    <2>5. ASSUME UNCHANGED <<pages, used>>
          PROVE  RowsStay
      BY <2>5 DEF RowsStay, Live
    <2>6. QED
      BY <1>5, <2>2, <2>3, <2>4, <2>5 DEF Next, vars, Arrival, HandlerStep,
         UpdateRead, SealRead, DeleteRead, UploadAdmit, ExportRead,
         UpdateReread, SealReread, DeleteRecheck, UploadCommit, RecordEvent,
         Abort
  <1>6. QED
    BY <1>1, <1>2, <1>3, <1>4, <1>5, StutterStep

\* Seen by slug, whatever requests race and whichever row ids are used again,
\* the pages table implements the register: published once, sealed for good,
\* retired for good, and no uploader let in past a seal or a delete.
THEOREM Refinement == Spec => ImplementsRegister
  <1>1. Init => Register!Init
    BY RegisterInit
  <1>2. IInv /\ IInv' /\ [Next]_vars => [Register!Next]_Register!registerVars
    BY RegisterStep
  <1>3. QED
    BY <1>1, <1>2, Inductive, PTL DEF ImplementsRegister, Register!Spec, Spec
=============================================================================
