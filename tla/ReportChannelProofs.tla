------------------------ MODULE ReportChannelProofs ------------------------
(***************************************************************************)
(* Theorems about ReportChannel, for any number of requests at a time and  *)
(* any number of submissions under one id.                                 *)
(*                                                                         *)
(* A request writes one object under its own name and attaches it at most  *)
(* once.  So an object that was replaced, removed or deleted never becomes *)
(* the attached report again, and whoever deletes it deletes nothing else; *)
(* that is the invariant Gone below, from which the three properties       *)
(* follow.  Only a delete of the whole page may delete the object of a     *)
(* report that is still attached; PageDeletesInOrder says how far it is.   *)
(***************************************************************************)
EXTENDS ReportChannel, FiniteSetTheorems, TLAPS

USE NoKeyAssumption, BoundAssumption, StatusAssumption

(***************************************************************************)
(* Types.                                                                  *)
(***************************************************************************)

LEMMA InitTypes == Init => TypeOK
BY DEF Init, TypeOK, IdleHandler, Handler, Ops, Steps, Outcomes, Tokens, Keys

\* What a request's step does to the handlers.
LEMMA GotoTypes ==
    ASSUME TypeOK, NEW r \in Requests, NEW step \in Steps, Goto(r, step)
    PROVE  req' \in [Requests -> Handler]
BY DEF TypeOK, Goto, Handler

LEMMA BeginTypes ==
    ASSUME TypeOK, NEW r \in Requests, NEW h \in Handler, Begin(r, h)
    PROVE  req' \in [Requests -> Handler]
BY DEF TypeOK, Begin

LEMMA EventTypesOfHandlers == \A r : EventOf(r) \in EventTypes
BY DEF EventOf, EventTypes

PageDeletes == {"deletePage", "deletePageAndFiles"}

LEMMA ArrivalTypes ==
    ASSUME TypeOK, NEW r \in Requests, Arrival(r)
    PROVE  /\ req' \in [Requests -> Handler]
           /\ UNCHANGED <<page, token, issued, status, report, objects, events>>
<1>1. IdleHandler \in Handler
  BY DEF IdleHandler, Handler, Ops, Steps, Outcomes, Tokens, Keys
<1>2. CASE AttachRead(r)
  <2>1. [IdleHandler EXCEPT !.op = "attach", !.at = "store", !.to = "completed"] \in Handler
    BY <1>1 DEF Handler, Ops, Steps
  <2> QED BY <1>2, <2>1, BeginTypes DEF AttachRead
<1>3. CASE RemoveRead(r)
  <2>1. [IdleHandler EXCEPT !.op = "remove", !.at = "tx"] \in Handler
    BY <1>1 DEF Handler, Ops, Steps
  <2> QED BY <1>3, <2>1, BeginTypes DEF RemoveRead
<1>4. CASE DeleteSubmissionRead(r)
  <2>1. [IdleHandler EXCEPT !.op = "deleteSubmission", !.at = "tx"] \in Handler
    BY <1>1 DEF Handler, Ops, Steps
  <2> QED BY <1>4, <2>1, BeginTypes DEF DeleteSubmissionRead
<1>5. ASSUME NEW to \in Statuses, SetStatusBegin(r, to)
      PROVE  /\ req' \in [Requests -> Handler]
             /\ UNCHANGED <<page, token, issued, status, report, objects, events>>
  <2>1. [IdleHandler EXCEPT !.op = "setStatus", !.at = "flip", !.to = to] \in Handler
    BY <1>1 DEF Handler, Ops, Steps
  <2> QED BY <1>5, <2>1, BeginTypes DEF SetStatusBegin
<1>6. ASSUME NEW t \in Tokens, DownloadRead(r, t)
      PROVE  /\ req' \in [Requests -> Handler]
             /\ UNCHANGED <<page, token, issued, status, report, objects, events>>
  <2>1. ReportOf(t) \in Keys
    BY DEF ReportOf, TypeOK, Keys
  <2>2. [IdleHandler EXCEPT !.op = "download", !.at = "stream", !.token = t,
                            !.linked = t, !.key = ReportOf(t)] \in Handler
    BY <1>1, <2>1 DEF Handler, Ops, Steps
  <2> QED BY <1>6, <2>2, BeginTypes DEF DownloadRead
<1>7. ASSUME NEW op \in PageDeletes, DeletePageRead(r, op)
      PROVE  /\ req' \in [Requests -> Handler]
             /\ UNCHANGED <<page, token, issued, status, report, objects, events>>
  <2> DEFINE step == IF op = "deletePageAndFiles" THEN "list" ELSE "recheck"
  <2>1. [IdleHandler EXCEPT !.op = op, !.at = step] \in Handler
    BY <1>1 DEF Handler, Ops, Steps, PageDeletes
  <2>2. Begin(r, [IdleHandler EXCEPT !.op = op, !.at = step])
    BY <1>7 DEF DeletePageRead
  <2> HIDE DEF step
  <2> QED BY <1>7, <2>1, <2>2, BeginTypes DEF DeletePageRead
<1> QED BY <1>2, <1>3, <1>4, <1>5, <1>6, <1>7 DEF Arrival, PageDeletes

LEMMA HandlerTypes ==
    ASSUME TypeOK, NEW r \in Requests, HandlerStep(r) \/ Abort(r)
    PROVE  /\ req' \in [Requests -> Handler]
           /\ page' \in {"open", "sealed", "gone"}
           /\ token' \in {0} \cup Tokens /\ issued' = issued
           /\ status' \in {"received", "completed"} \cup Statuses
           /\ report' \in Keys
           /\ objects' \subseteq Requests
           /\ events' \subseteq Event
<1> USE DEF TypeOK
<1>1. req[r] \in Handler
  OBVIOUS
<1>2. CASE AttachStore(r)
  BY <1>2, GotoTypes DEF AttachStore, Steps
<1>3. CASE AttachPut(r)
  BY <1>1, <1>3 DEF AttachPut, Handler, Steps, Keys
<1>4. CASE AttachReread(r)
  BY <1>1, <1>4 DEF AttachReread, Handler, Steps
<1>5. CASE AttachFails(r)
  BY <1>5, GotoTypes DEF AttachFails, Steps
<1>6. CASE AttachCleanup(r)
  BY <1>6, GotoTypes DEF AttachCleanup, Steps, Outcomes
<1>7. CASE AttachReplace(r)
  BY <1>7, GotoTypes DEF AttachReplace, Steps
<1>8. CASE RemoveTx(r)
  <2>1. CASE token = 0 \/ report = NoKey
    BY <1>8, <2>1, GotoTypes DEF RemoveTx, Steps, Outcomes
  <2>2. CASE ~(token = 0 \/ report = NoKey)
    BY <1>1, <1>8, <2>2 DEF RemoveTx, Handler, Steps, Keys
  <2> QED BY <2>1, <2>2
<1>9. CASE DeleteSubmissionTx(r)
  <2>1. CASE token = 0
    BY <1>9, <2>1, GotoTypes DEF DeleteSubmissionTx, Steps, Outcomes
  <2>2. CASE token # 0
    BY <1>1, <1>9, <2>2 DEF DeleteSubmissionTx, ReportAfterDelete, Handler, Steps, Keys
  <2> QED BY <2>1, <2>2
<1>10. CASE DeleteObject(r)
  <2>1. PICK step \in Steps : Goto(r, step)
    BY <1>10 DEF DeleteObject, Steps
  <2> QED BY <1>10, <2>1, GotoTypes DEF DeleteObject
<1>11. CASE FlipStatus(r)
  <2>1. CASE token = 0
    BY <1>11, <2>1, GotoTypes DEF FlipStatus, Steps, Outcomes
  <2>2. CASE token # 0
    BY <1>1, <1>11, <2>2 DEF FlipStatus, StatusAfter, Handler, Steps
  <2> QED BY <2>1, <2>2
<1>12. CASE DownloadStream(r)
  <2>1. (IF req[r].key \in objects THEN "log" ELSE "refused") \in Steps
    BY DEF Steps, Outcomes
  <2> QED BY <1>12, <2>1, GotoTypes DEF DownloadStream
<1>13. CASE RecordEvent(r)
  BY <1>13, GotoTypes, EventTypesOfHandlers DEF RecordEvent, Steps, Outcomes, Event
<1>14. CASE EventRefused(r)
  <2>1. (IF req[r].op = "download" THEN "ok" ELSE "failed") \in Steps
    BY DEF Steps, Outcomes
  <2> QED BY <1>14, <2>1, GotoTypes DEF EventRefused
<1>15. CASE Abort(r)
  BY <1>15, GotoTypes DEF Abort, Steps, Outcomes
<1>16. CASE DeletePageList(r)
  <2>1. PICK step \in Steps : req' = [req EXCEPT ![r].key = report, ![r].at = step]
    BY <1>16 DEF DeletePageList, Steps
  <2>2. report \in Keys
    OBVIOUS
  <2>3. [req[r] EXCEPT !.key = report, !.at = step] \in Handler
    BY <1>1, <2>2 DEF Handler
  <2> QED BY <1>16, <2>1, <2>3 DEF DeletePageList
<1>17. CASE DeletePageRecheck(r)
  <2>1. PICK step \in Steps : Goto(r, step)
    BY <1>17 DEF DeletePageRecheck, Steps, Outcomes
  <2> QED BY <1>17, <2>1, GotoTypes DEF DeletePageRecheck
<1>18. CASE DeletePageDrop(r)
  <2>1. PICK step \in Steps : Goto(r, step)
    BY <1>18 DEF DeletePageDrop, Steps, Outcomes
  <2> QED BY <1>18, <2>1, GotoTypes DEF DeletePageDrop, Keys
<1> QED BY <1>2, <1>3, <1>4, <1>5, <1>6, <1>7, <1>8, <1>9, <1>10, <1>11, <1>12, <1>13,
           <1>14, <1>15, <1>16, <1>17, <1>18 DEF HandlerStep

LEMMA StepTypes == TypeOK /\ [Next]_vars => TypeOK'
<1> SUFFICES ASSUME TypeOK, [Next]_vars PROVE TypeOK'
  OBVIOUS
<1>1. CASE Submit /\ Observe
  BY <1>1 DEF Submit, Observe, TypeOK, Tokens
<1>2. ASSUME NEW r \in Requests, Arrival(r), Observe PROVE TypeOK'
  BY <1>2, ArrivalTypes DEF Observe, TypeOK
<1>3. ASSUME NEW r \in Requests, HandlerStep(r) \/ Abort(r), Observe PROVE TypeOK'
  BY <1>3, HandlerTypes DEF Observe, TypeOK
<1>4. CASE Seal /\ Observe
  BY <1>4 DEF Seal, Observe, TypeOK
<1>5. CASE UNCHANGED vars
  BY <1>5 DEF vars, TypeOK
<1> QED BY <1>1, <1>2, <1>3, <1>4, <1>5 DEF Next

\* Every reachable state of the report channel is well typed.
THEOREM TypeCorrect == Spec => []TypeOK
BY InitTypes, StepTypes, PTL DEF Spec

(***************************************************************************)
(* The invariant.                                                          *)
(***************************************************************************)

\* k has had its turn to attach the object it wrote.
PutTried(k) == req[k].op = "attach" /\ req[k].at \notin {"idle", "store", "put"}

\* The attached report was attached under the token in force.
ReportIsCurrent ==
    report # NoKey => PutTried(report) /\ req[report].token = token /\ token # 0

\* An object that is about to be attached has been written.
Stored == \A r \in Requests : At(r, "attach", "put") => r \in objects

\* What was replaced, removed or deleted is not the attached report and will
\* never be.
Past(k) == k # NoKey => PutTried(k) /\ k # report

Deleting == {"remove", "deleteSubmission"}

Gone ==
    \A r \in Requests :
        /\ Past(req[r].old)
        /\ req[r].op \in Deleting => Past(req[r].key)
        /\ req[r].at = "object" => req[r].op \in Deleting \cup {"deletePageAndFiles"}
        /\ req[r].at = "flip" => req[r].op # "deleteSubmission"

\* A delete of the page has steps of its own; with files=1 it deletes an object
\* that was attached when it was listed, and may be still.
PageDeletesInOrder ==
    \A r \in Requests :
        /\ req[r].op \in PageDeletes =>
              /\ req[r].at \in {"list", "object", "recheck", "drop"} \cup Outcomes
              /\ req[r].key # NoKey => PutTried(req[r].key)
        /\ req[r].at \in {"list", "recheck", "drop"} => req[r].op \in PageDeletes

\* A page that is gone has taken its submissions along.
GoneIsEmpty == page = "gone" => token = 0

\* Past its delete, a handler's object is not in the store.
Deleted(r) ==
    \/ req[r].op = "remove" /\ req[r].at \in {"flip", "log", "ok"}
    \/ req[r].op = "deleteSubmission" /\ req[r].at \in {"log", "ok"}

ObjectsDeleted == \A r \in Requests : Deleted(r) => req[r].key \notin objects

\* An event is left by a handler that has answered.
EventsAreAnswers ==
    /\ \A e \in events :
          /\ req[e.by].at = "ok" /\ e.type = EventOf(e.by)
          /\ req[e.by].op \notin PageDeletes
    /\ \A r \in Requests : req[r].at # "idle" => req[r].op # "idle"

\* A download has found a report attached under its token.
DownloadsMatch ==
    \A r \in Requests : req[r].op = "download" =>
        req[r].key # NoKey /\ PutTried(req[r].key)
        /\ req[req[r].key].token = req[r].token

IInv ==
    /\ TypeOK /\ ReportIsCurrent /\ Stored /\ Gone /\ ObjectsDeleted
    /\ PageDeletesInOrder /\ GoneIsEmpty /\ EventsAreAnswers /\ DownloadsMatch
    /\ OfferedReportExists

\* IInv without the types and the page.
Rest ==
    /\ ReportIsCurrent /\ Stored /\ Gone /\ ObjectsDeleted
    /\ PageDeletesInOrder /\ EventsAreAnswers /\ DownloadsMatch
    /\ OfferedReportExists

LEMMA InitInvariant == Init => IInv
<1> SUFFICES ASSUME Init PROVE IInv
  OBVIOUS
<1>1. TypeOK
  BY InitTypes
<1>2. \A r \in Requests : req[r] = IdleHandler
  BY DEF Init
<1> QED
  BY <1>1, <1>2 DEF Init, IdleHandler, IInv, ReportIsCurrent, Stored, At, Gone, Past, Deleting,
     ObjectsDeleted, Deleted, EventsAreAnswers, DownloadsMatch, OfferedReportExists,
     PageDeletesInOrder, PageDeletes, GoneIsEmpty

\* What every step does for the attached report: its object stays, its attach has
\* failed, or a page delete has taken it and is not over.
LEMMA ReportStaysOffered ==
    ASSUME OfferedReportExists, NEW r \in Requests, report \in Requests \cup {NoKey},
           \A q \in Requests \ {r} : req'[q] = req[q],
           req[r].at # "failed" \/ req'[r] = req[r],
           PageDeleteTook(r, report) => PageDeleteTook(r, report)',
           report' = report,
           report \in objects \ objects' =>
               (report = r /\ req'[r].at = "failed") \/ PageDeleteTook(r, report)'
    PROVE  OfferedReportExists'
<1> SUFFICES ASSUME report # NoKey
             PROVE  \/ report \in objects'
                    \/ req'[report].at = "failed"
                    \/ \E q \in Requests : PageDeleteTook(q, report)'
  BY DEF OfferedReportExists
<1>1. CASE report \in objects
  BY <1>1
<1>2. CASE req[report].at = "failed"
  BY <1>2
<1>3. ASSUME NEW q \in Requests, PageDeleteTook(q, report)
      PROVE  PageDeleteTook(q, report)'
  BY <1>3 DEF PageDeleteTook
<1> QED BY <1>1, <1>2, <1>3 DEF OfferedReportExists

(***************************************************************************)
(* Steps that move a handler on and leave the report where it is: they may *)
(* delete what is past, the object of the request that fails with it, or   *)
(* what a delete of the page has listed, and they may leave an event.      *)
(***************************************************************************)

Quiet == {"idle", "store", "put", "object", "list"}

LEMMA MovesKeep ==
    ASSUME IInv, NEW r \in Requests, NEW step \in Steps,
           req[r].at \notin {"idle"} \cup Outcomes, Goto(r, step), step \notin Quiet,
           UNCHANGED <<token, report>>,
           objects' \subseteq objects,
           \A k \in objects \ objects' :
               \/ k = r /\ step = "failed"
               \/ Past(k)
               \/ /\ PutTried(k) /\ req[r].key = k
                  /\ req[r].op = "deletePageAndFiles" /\ step = "recheck",
           req[r].op \in PageDeletes => step \in {"recheck", "drop"} \cup Outcomes,
           step \in {"recheck", "drop"} => req[r].op \in PageDeletes,
           req[r].at \in {"recheck", "drop"} => step # "ok",
           step = "flip" => req[r].op # "deleteSubmission",
           Deleted(r)' => Deleted(r) \/ req[r].key \notin objects',
           \/ events' = events
           \/ /\ step = "ok" /\ req[r].op \notin PageDeletes
              /\ events' = events \cup {[type |-> EventOf(r), by |-> r]}
    PROVE  Rest'
<1>1. /\ TypeOK /\ req \in [Requests -> Handler] /\ objects \subseteq Requests
      /\ report \in Requests \cup {NoKey} /\ events \subseteq Event
  BY DEF IInv, TypeOK, Keys
<1>2. /\ req'[r].at = step
      /\ req'[r].op = req[r].op /\ req'[r].old = req[r].old /\ req'[r].key = req[r].key
      /\ req'[r].token = req[r].token
  BY <1>1 DEF Goto, Handler
<1>3. \A q \in Requests \ {r} : req'[q] = req[q]
  BY <1>1 DEF Goto
<1>4. \A q \in Requests :
         /\ req'[q].op = req[q].op /\ req'[q].old = req[q].old /\ req'[q].key = req[q].key
         /\ req'[q].token = req[q].token
  BY <1>2, <1>3
<1>5. ASSUME NEW k \in Requests, PutTried(k) PROVE PutTried(k)'
  BY <1>2, <1>3, <1>4, <1>5 DEF PutTried, Quiet
<1>6. ReportIsCurrent'
  BY <1>1, <1>4, <1>5 DEF IInv, ReportIsCurrent
<1>7. Stored'
  BY <1>1, <1>2, <1>3, <1>4 DEF IInv, Stored, At, Past, PutTried, Quiet
<1>8. ASSUME NEW k \in Keys, Past(k) PROVE Past(k)'
  BY <1>5, <1>8 DEF Past, Keys
<1>9. Gone'
  <2>1. \A q \in Requests : req[q].old \in Keys /\ req[q].key \in Keys
    BY <1>1 DEF Handler
  <2>2. \A q \in Requests :
            /\ req'[q].at = "object" => req[q].at = "object"
            /\ req'[q].at = "flip" => req[q].op # "deleteSubmission"
    BY <1>2, <1>3 DEF Quiet, IInv, Gone
  <2> QED BY <1>4, <1>8, <2>1, <2>2 DEF IInv, Gone
<1>10. ObjectsDeleted'
  BY <1>2, <1>3, <1>4 DEF IInv, ObjectsDeleted, Deleted
<1>11. EventsAreAnswers'
  <2>1. \A q \in Requests : EventOf(q)' = EventOf(q)
    BY <1>4 DEF EventOf
  <2>2. \A e \in events : e.by \in Requests /\ e.by # r
    BY <1>1 DEF IInv, EventsAreAnswers, Event, Outcomes
  <2>3. \A e \in events : /\ req'[e.by].at = "ok" /\ e.type = EventOf(e.by)'
                          /\ req'[e.by].op \notin PageDeletes
    BY <1>3, <2>1, <2>2 DEF IInv, EventsAreAnswers
  <2>4. \A e \in events' : /\ req'[e.by].at = "ok" /\ e.type = EventOf(e.by)'
                           /\ req'[e.by].op \notin PageDeletes
    BY <1>2, <2>1, <2>3
  <2>5. \A q \in Requests : req'[q].at # "idle" => req'[q].op # "idle"
    BY <1>2, <1>3, <1>4 DEF IInv, EventsAreAnswers
  <2> QED BY <2>4, <2>5 DEF EventsAreAnswers
<1>12. DownloadsMatch'
  <2>1. \A q \in Requests : req[q].key \in Requests \cup {NoKey}
    BY <1>1 DEF Handler, Keys
  <2> QED BY <1>4, <1>5, <2>1 DEF IInv, DownloadsMatch
<1>13. OfferedReportExists'
  <2>1. PageDeleteTook(r, report) => PageDeleteTook(r, report)'
    BY <1>2 DEF PageDeleteTook, PageDeletes, Outcomes
  <2>2. report \in objects \ objects' =>
            (report = r /\ req'[r].at = "failed") \/ PageDeleteTook(r, report)'
    BY <1>1, <1>2 DEF Past, PageDeleteTook
  <2> QED BY <1>1, <1>3, <2>1, <2>2, ReportStaysOffered DEF IInv, Outcomes
<1>14. PageDeletesInOrder'
  <2>1. \A q \in Requests : req[q].key \in Requests \cup {NoKey}
    BY <1>1 DEF Handler, Keys
  <2>2. ASSUME NEW q \in Requests, req'[q].op \in PageDeletes, req'[q].key # NoKey
        PROVE  \E k \in Requests : k = req'[q].key /\ PutTried(k)'
    <3>1. PICK k \in Requests : k = req[q].key /\ PutTried(k)
      BY <1>4, <2>1, <2>2 DEF IInv, PageDeletesInOrder
    <3> QED BY <1>4, <1>5, <3>1
  <2>3. \A q \in Requests :
            /\ req'[q].op \in PageDeletes =>
                   req'[q].at \in {"list", "object", "recheck", "drop"} \cup Outcomes
            /\ req'[q].at \in {"list", "recheck", "drop"} => req'[q].op \in PageDeletes
    BY <1>2, <1>3 DEF IInv, PageDeletesInOrder, Quiet
  <2> QED BY <2>2, <2>3 DEF PageDeletesInOrder, PutTried
<1> QED BY <1>6, <1>7, <1>9, <1>10, <1>11, <1>12, <1>13, <1>14 DEF Rest

(***************************************************************************)
(* The other steps, one by one.                                            *)
(***************************************************************************)

LEMMA SubmitKeeps == IInv /\ Submit => Rest'
BY DEF Submit, IInv, Rest, ReportIsCurrent, PutTried, Stored, At, Gone, Past, ObjectsDeleted,
       Deleted, EventsAreAnswers, EventOf, DownloadsMatch, OfferedReportExists, TypeOK, Tokens,
       PageDeletesInOrder, PageDeleteTook

\* A handler that begins has deleted nothing, replaced nothing and, unless it
\* is a download, found nothing.
LEMMA BeginKeeps ==
    ASSUME IInv, NEW r \in Requests, NEW h \in Handler, Begin(r, h),
           h.op # "idle", h.old = NoKey,
           h.at \in {"store", "tx", "flip", "stream", "list", "recheck"},
           h.op \in PageDeletes <=> h.at \in {"list", "recheck"},
           h.op \in PageDeletes => h.key = NoKey,
           h.at = "flip" => h.op = "setStatus",
           h.op \in Deleting => h.key = NoKey,
           h.op = "download" => /\ h.key # NoKey /\ h.key = report
                                /\ h.token = token,
           UNCHANGED <<token, report, objects, events>>
    PROVE  Rest'
<1>1. /\ TypeOK /\ req \in [Requests -> Handler] /\ objects \subseteq Requests
      /\ report \in Requests \cup {NoKey} /\ events \subseteq Event
  BY DEF IInv, TypeOK, Keys
<1>2. req[r].at = "idle" /\ req'[r] = h /\ \A q \in Requests \ {r} : req'[q] = req[q]
  BY <1>1 DEF Begin
<1>3. ASSUME NEW k \in Requests, PutTried(k) PROVE PutTried(k)' /\ k # r /\ req'[k] = req[k]
  BY <1>2, <1>3 DEF PutTried
<1>4. ASSUME NEW k \in Keys, Past(k) PROVE Past(k)'
  BY <1>3, <1>4 DEF Past, Keys
<1>5. ReportIsCurrent'
  BY <1>1, <1>3 DEF IInv, ReportIsCurrent
<1>6. Stored'
  BY <1>2 DEF IInv, Stored, At
<1>7. Gone'
  <2>1. \A q \in Requests : req[q].old \in Keys /\ req[q].key \in Keys
    BY <1>1 DEF Handler
  <2> QED BY <1>2, <1>4, <2>1 DEF IInv, Gone, Past, Deleting
<1>8. ObjectsDeleted'
  BY <1>2 DEF IInv, ObjectsDeleted, Deleted
<1>9. EventsAreAnswers'
  <2>1. \A e \in events : e.by \in Requests \ {r}
    BY <1>1, <1>2 DEF IInv, EventsAreAnswers, Event
  <2> QED BY <1>2, <2>1 DEF IInv, EventsAreAnswers, EventOf
<1>10. DownloadsMatch'
  <2>1. \A q \in Requests : req[q].key \in Requests \cup {NoKey}
    BY <1>1 DEF Handler, Keys
  <2>2. ASSUME NEW q \in Requests \ {r}, req'[q].op = "download"
        PROVE  \E k \in Requests : k = req'[q].key /\ PutTried(k)' /\ req'[k].token = req'[q].token
    <3>1. req'[q] = req[q]
      BY <1>2
    <3>2. PICK k \in Requests : k = req[q].key /\ PutTried(k) /\ req[k].token = req[q].token
      BY <2>1, <2>2, <3>1 DEF IInv, DownloadsMatch
    <3>3. PutTried(k)' /\ req'[k] = req[k]
      BY <1>3, <3>2
    <3> QED BY <3>1, <3>2, <3>3
  <2>3. ASSUME h.op = "download"
        PROVE  \E k \in Requests : k = h.key /\ PutTried(k)' /\ req'[k].token = h.token
    <3>1. PICK k \in Requests : k = h.key /\ PutTried(k) /\ req[k].token = h.token
      BY <1>1, <2>3 DEF IInv, ReportIsCurrent
    <3>2. PutTried(k)' /\ req'[k] = req[k]
      BY <1>3, <3>1
    <3> QED BY <3>1, <3>2
  <2>4. ASSUME NEW q \in Requests, req'[q].op = "download"
        PROVE  \E k \in Requests : k = req'[q].key /\ PutTried(k)' /\ req'[k].token = req'[q].token
    BY <1>2, <2>2, <2>3, <2>4
  <2> QED BY <2>4 DEF DownloadsMatch, PutTried
<1>11. OfferedReportExists'
  BY <1>1, <1>2, ReportStaysOffered DEF IInv, PageDeleteTook
<1>12. PageDeletesInOrder'
  <2>1. ASSUME NEW q \in Requests \ {r}, req[q].op \in PageDeletes, req[q].key # NoKey
        PROVE  \E k \in Requests : k = req[q].key /\ PutTried(k)'
    <3>1. PICK k \in Requests : k = req[q].key /\ PutTried(k)
      BY <1>1, <2>1 DEF IInv, PageDeletesInOrder, Handler, Keys
    <3> QED BY <1>3, <3>1
  <2>2. ASSUME NEW q \in Requests, req'[q].op \in PageDeletes, req'[q].key # NoKey
        PROVE  \E k \in Requests : k = req'[q].key /\ PutTried(k)'
    BY <1>2, <2>1, <2>2
  <2>3. \A q \in Requests :
            /\ req'[q].op \in PageDeletes =>
                   req'[q].at \in {"list", "object", "recheck", "drop"} \cup Outcomes
            /\ req'[q].at \in {"list", "recheck", "drop"} => req'[q].op \in PageDeletes
    BY <1>2 DEF IInv, PageDeletesInOrder
  <2> QED BY <2>2, <2>3 DEF PageDeletesInOrder, PutTried
<1> QED BY <1>5, <1>6, <1>7, <1>8, <1>9, <1>10, <1>11, <1>12 DEF Rest

LEMMA ArrivalKeeps == ASSUME IInv, NEW r \in Requests, Arrival(r) PROVE Rest'
<1>1. IdleHandler \in Handler
  BY DEF IdleHandler, Handler, Ops, Steps, Outcomes, Tokens, Keys
<1>2. CASE AttachRead(r)
  <2> DEFINE h == [IdleHandler EXCEPT !.op = "attach", !.at = "store", !.to = "completed"]
  <2>1. h \in Handler /\ h.op = "attach" /\ h.at = "store" /\ h.old = NoKey
    BY <1>1 DEF IdleHandler, Handler, Ops, Steps
  <2>2. Begin(r, h) /\ UNCHANGED <<token, report, objects, events>>
    BY <1>2 DEF AttachRead
  <2> HIDE DEF h
  <2> QED BY <2>1, <2>2, BeginKeeps DEF Deleting, PageDeletes
<1>3. CASE RemoveRead(r)
  <2> DEFINE h == [IdleHandler EXCEPT !.op = "remove", !.at = "tx"]
  <2>1. h \in Handler /\ h.op = "remove" /\ h.at = "tx" /\ h.old = NoKey /\ h.key = NoKey
    BY <1>1 DEF IdleHandler, Handler, Ops, Steps
  <2>2. Begin(r, h) /\ UNCHANGED <<token, report, objects, events>>
    BY <1>3 DEF RemoveRead
  <2> HIDE DEF h
  <2> QED BY <2>1, <2>2, BeginKeeps DEF Deleting, PageDeletes
<1>4. CASE DeleteSubmissionRead(r)
  <2> DEFINE h == [IdleHandler EXCEPT !.op = "deleteSubmission", !.at = "tx"]
  <2>1. /\ h \in Handler /\ h.op = "deleteSubmission" /\ h.at = "tx"
        /\ h.old = NoKey /\ h.key = NoKey
    BY <1>1 DEF IdleHandler, Handler, Ops, Steps
  <2>2. Begin(r, h) /\ UNCHANGED <<token, report, objects, events>>
    BY <1>4 DEF DeleteSubmissionRead
  <2> HIDE DEF h
  <2> QED BY <2>1, <2>2, BeginKeeps DEF Deleting, PageDeletes
<1>5. ASSUME NEW to \in Statuses, SetStatusBegin(r, to) PROVE Rest'
  <2> DEFINE h == [IdleHandler EXCEPT !.op = "setStatus", !.at = "flip", !.to = to]
  <2>1. h \in Handler /\ h.op = "setStatus" /\ h.at = "flip" /\ h.old = NoKey
    BY <1>1 DEF IdleHandler, Handler, Ops, Steps
  <2>2. Begin(r, h) /\ UNCHANGED <<token, report, objects, events>>
    BY <1>5 DEF SetStatusBegin
  <2> HIDE DEF h
  <2> QED BY <2>1, <2>2, BeginKeeps DEF Deleting, PageDeletes
<1>6. ASSUME NEW t \in Tokens, DownloadRead(r, t) PROVE Rest'
  <2> DEFINE h == [IdleHandler EXCEPT !.op = "download", !.at = "stream", !.token = t,
                                      !.linked = t, !.key = ReportOf(t)]
  <2>1. /\ t = token /\ ReportOf(t) = report /\ report # NoKey /\ report \in Keys
    BY <1>6 DEF DownloadRead, ReportOf, IInv, TypeOK
  <2>2. /\ h \in Handler /\ h.op = "download" /\ h.at = "stream" /\ h.old = NoKey
        /\ h.key = report /\ h.token = token
    BY <1>1, <2>1 DEF IdleHandler, Handler, Ops, Steps
  <2>3. Begin(r, h) /\ UNCHANGED <<token, report, objects, events>>
    BY <1>6 DEF DownloadRead
  <2> HIDE DEF h
  <2> QED BY <2>1, <2>2, <2>3, BeginKeeps DEF Deleting, PageDeletes
<1>7. ASSUME NEW op \in PageDeletes, DeletePageRead(r, op) PROVE Rest'
  <2> DEFINE h == [IdleHandler EXCEPT !.op = op,
                      !.at = IF op = "deletePageAndFiles" THEN "list" ELSE "recheck"]
  <2>1. /\ h \in Handler /\ h.op = op /\ h.at \in {"list", "recheck"}
        /\ h.old = NoKey /\ h.key = NoKey
    BY <1>1 DEF IdleHandler, Handler, Ops, Steps, PageDeletes
  <2>2. Begin(r, h) /\ UNCHANGED <<token, report, objects, events>>
    BY <1>7 DEF DeletePageRead
  <2> HIDE DEF h
  <2> QED BY <2>1, <2>2, BeginKeeps DEF Deleting, PageDeletes
<1> QED BY <1>2, <1>3, <1>4, <1>5, <1>6, <1>7 DEF Arrival, PageDeletes

LEMMA StoreKeeps == ASSUME IInv, NEW r \in Requests, AttachStore(r) PROVE Rest'
<1>1. /\ TypeOK /\ req \in [Requests -> Handler] /\ objects \subseteq Requests
      /\ report \in Requests \cup {NoKey} /\ events \subseteq Event
  BY DEF IInv, TypeOK, Keys
<1>2. /\ req[r].op = "attach" /\ req[r].at = "store" /\ req' = [req EXCEPT ![r].at = "put"]
      /\ objects' = objects \cup {r} /\ UNCHANGED <<token, report, events>>
  BY DEF AttachStore, At, Goto
<1>3. \A q \in Requests :
         /\ req'[q].op = req[q].op /\ req'[q].old = req[q].old /\ req'[q].key = req[q].key
         /\ req'[q].token = req[q].token
         /\ req'[q].at = IF q = r THEN "put" ELSE req[q].at
  BY <1>1, <1>2 DEF Handler
<1>4. ASSUME NEW k \in Requests, PutTried(k) PROVE PutTried(k)' /\ k # r
  BY <1>2, <1>3, <1>4 DEF PutTried
<1>5. ASSUME NEW k \in Keys, Past(k) PROVE Past(k)' /\ k # r
  BY <1>2, <1>4, <1>5 DEF Past, Keys
<1>6. \A q \in Requests : req[q].old \in Keys /\ req[q].key \in Keys
  BY <1>1 DEF Handler
<1>7. ReportIsCurrent'
  BY <1>1, <1>2, <1>3, <1>4 DEF IInv, ReportIsCurrent
<1>8. Stored'
  BY <1>2, <1>3 DEF IInv, Stored, At
<1>9. Gone'
  BY <1>3, <1>5, <1>6 DEF IInv, Gone
<1>10. ObjectsDeleted'
  <2>1. ASSUME NEW q \in Requests, Deleted(q)'
        PROVE  Deleted(q) /\ req[q].op \in Deleting
    BY <1>2, <1>3, <2>1 DEF Deleted, Deleting
  <2>2. ASSUME NEW q \in Requests, Deleted(q)'
        PROVE  req[q].key \notin objects /\ req[q].key # r
    BY <1>5, <1>6, <2>1, <2>2 DEF IInv, ObjectsDeleted, Gone
  <2> QED BY <1>2, <1>3, <2>2 DEF ObjectsDeleted
<1>11. EventsAreAnswers'
  BY <1>1, <1>2, <1>3 DEF IInv, EventsAreAnswers, EventOf, Event
<1>12. DownloadsMatch'
  BY <1>3, <1>4, <1>6 DEF IInv, DownloadsMatch, Keys
<1>13. OfferedReportExists'
  <2>1. \A q \in Requests \ {r} : req'[q] = req[q]
    BY <1>2
  <2> QED BY <1>1, <1>2, <2>1, ReportStaysOffered DEF IInv, PageDeleteTook
<1>14. PageDeletesInOrder'
  BY <1>2, <1>3, <1>4, <1>6 DEF IInv, PageDeletesInOrder, PageDeletes, Keys, PutTried
<1> QED BY <1>7, <1>8, <1>9, <1>10, <1>11, <1>12, <1>13, <1>14 DEF Rest

\* The report it replaces is past: a request attaches once.
LEMMA PutKeeps == ASSUME IInv, NEW r \in Requests, AttachPut(r) PROVE Rest'
<1>1. /\ TypeOK /\ req \in [Requests -> Handler] /\ objects \subseteq Requests
      /\ report \in Requests \cup {NoKey} /\ events \subseteq Event
  BY DEF IInv, TypeOK, Keys
<1>2. /\ req[r].op = "attach" /\ req[r].at = "put" /\ token # 0 /\ report' = r
      /\ req' = [req EXCEPT ![r].at = "reread", ![r].token = token, ![r].old = report]
      /\ UNCHANGED <<token, objects, events>>
  BY DEF AttachPut, At
<1>3. /\ \A q \in Requests \ {r} : req'[q] = req[q]
      /\ req'[r].op = "attach" /\ req'[r].at = "reread" /\ req'[r].token = token
      /\ req'[r].old = report
  BY <1>1, <1>2 DEF Handler
<1>4. ASSUME NEW k \in Requests, PutTried(k) PROVE PutTried(k)' /\ k # r
  BY <1>2, <1>3, <1>4 DEF PutTried
<1>5. ASSUME NEW k \in Keys, Past(k) PROVE Past(k)'
  BY <1>2, <1>4, <1>5 DEF Past, Keys
<1>6. \A q \in Requests : req[q].old \in Keys /\ req[q].key \in Keys
  BY <1>1 DEF Handler
<1>7. ReportIsCurrent'
  BY <1>2, <1>3 DEF ReportIsCurrent, PutTried
<1>8. Stored'
  BY <1>2, <1>3 DEF IInv, Stored, At
<1>9. Gone'
  <2>1. ASSUME NEW k \in Keys, k = report PROVE k # NoKey => PutTried(k)' /\ k # r
    BY <1>1, <1>4, <2>1 DEF IInv, ReportIsCurrent
  <2>2. Past(req[r].old)'
    BY <1>1, <1>2, <1>3, <2>1 DEF Past, PutTried, Keys
  <2>3. ASSUME NEW q \in Requests \ {r}
        PROVE  (/\ Past(req[q].old)
                /\ req[q].op \in Deleting => Past(req[q].key)
                /\ req[q].at = "object" => req[q].op \in Deleting \cup {"deletePageAndFiles"}
                /\ req[q].at = "flip" => req[q].op # "deleteSubmission")'
    <3>1. /\ Past(req[q].old)
          /\ req[q].op \in Deleting => Past(req[q].key)
          /\ req[q].at = "flip" => req[q].op # "deleteSubmission"
          /\ req[q].at = "object" => req[q].op \in Deleting \cup {"deletePageAndFiles"}
      BY DEF IInv, Gone
    <3>2. req'[q] = req[q] /\ req[q].old \in Keys /\ req[q].key \in Keys
      BY <1>3, <1>6
    <3>3. PICK old \in Keys, key \in Keys : old = req[q].old /\ key = req[q].key
      BY <3>2
    <3>4. Past(old)' /\ (req[q].op \in Deleting => Past(key)')
      BY <1>5, <3>1, <3>3
    <3> QED BY <3>1, <3>2, <3>3, <3>4 DEF Past, PutTried
  <2>4. (/\ req[r].op \in Deleting => Past(req[r].key)
         /\ req[r].at = "object" => req[r].op \in Deleting \cup {"deletePageAndFiles"}
         /\ req[r].at = "flip" => req[r].op # "deleteSubmission")'
    BY <1>3 DEF Deleting
  <2> QED BY <2>2, <2>3, <2>4 DEF Gone
<1>10. ObjectsDeleted'
  <2>1. ASSUME NEW q \in Requests, Deleted(q)' PROVE req'[q].key \notin objects
    <3>1. q # r /\ req'[q] = req[q]
      BY <1>3, <2>1 DEF Deleted
    <3>2. Deleted(q)
      BY <2>1, <3>1 DEF Deleted
    <3> QED BY <3>1, <3>2 DEF IInv, ObjectsDeleted
  <2> QED BY <1>2, <2>1 DEF ObjectsDeleted
<1>11. EventsAreAnswers'
  <2>1. \A e \in events : e.by \in Requests \ {r}
    BY <1>1, <1>2 DEF IInv, EventsAreAnswers, Event
  <2> QED BY <1>2, <1>3, <2>1 DEF IInv, EventsAreAnswers, EventOf
<1>12. DownloadsMatch'
  <2>1. ASSUME NEW q \in Requests, req'[q].op = "download"
        PROVE  \E k \in Requests : k = req'[q].key /\ PutTried(k)' /\ req'[k].token = req'[q].token
    <3>1. q # r /\ req'[q] = req[q]
      BY <1>3, <2>1
    <3>2. PICK k \in Requests : k = req[q].key /\ PutTried(k) /\ req[k].token = req[q].token
      BY <1>6, <2>1, <3>1 DEF IInv, DownloadsMatch, Keys
    <3>3. PutTried(k)' /\ req'[k] = req[k]
      BY <1>3, <1>4, <3>2
    <3> QED BY <3>1, <3>2, <3>3
  <2> QED BY <2>1 DEF DownloadsMatch, PutTried
<1>13. OfferedReportExists'
  BY <1>2 DEF IInv, Stored, At, OfferedReportExists
<1>14. PageDeletesInOrder'
  BY <1>3, <1>4, <1>6 DEF IInv, PageDeletesInOrder, PageDeletes, Keys, PutTried
<1> QED BY <1>7, <1>8, <1>9, <1>10, <1>11, <1>12, <1>13, <1>14 DEF Rest

\* Only the handler's own notes change.
LEMMA RereadKeeps == ASSUME IInv, NEW r \in Requests, AttachReread(r) PROVE Rest'
<1>1. /\ TypeOK /\ req \in [Requests -> Handler] /\ objects \subseteq Requests
      /\ report \in Requests \cup {NoKey} /\ events \subseteq Event
  BY DEF IInv, TypeOK, Keys
<1>2. /\ req[r].op = "attach" /\ req[r].at = "reread"
      /\ req'[r].op = "attach" /\ req'[r].at \in {"flip", "replace"}
      /\ req'[r].old = req[r].old /\ req'[r].token = req[r].token
      /\ \A q \in Requests \ {r} : req'[q] = req[q]
      /\ UNCHANGED <<token, report, objects, events>>
  BY <1>1 DEF AttachReread, At, Handler
<1>3. ASSUME NEW k \in Requests, PutTried(k)
      PROVE  PutTried(k)' /\ req'[k].token = req[k].token
  BY <1>2, <1>3 DEF PutTried
<1>4. ASSUME NEW k \in Keys, Past(k) PROVE Past(k)'
  BY <1>2, <1>3, <1>4 DEF Past, Keys
<1>5. \A q \in Requests : req[q].old \in Keys /\ req[q].key \in Keys
  BY <1>1 DEF Handler
<1>6. ReportIsCurrent'
  BY <1>1, <1>2, <1>3 DEF IInv, ReportIsCurrent, PutTried
<1>7. Stored'
  BY <1>2 DEF IInv, Stored, At
<1>8. Gone'
  BY <1>2, <1>4, <1>5 DEF IInv, Gone, Deleting
<1>9. ObjectsDeleted'
  BY <1>2 DEF IInv, ObjectsDeleted, Deleted
<1>10. EventsAreAnswers'
  BY <1>1, <1>2 DEF IInv, EventsAreAnswers, EventOf, Event
<1>11. DownloadsMatch'
  BY <1>2, <1>3, <1>5 DEF IInv, DownloadsMatch, Keys, PutTried
<1>12. OfferedReportExists'
  BY <1>1, <1>2, ReportStaysOffered DEF IInv, PageDeleteTook
<1>13. PageDeletesInOrder'
  BY <1>2, <1>3, <1>5 DEF IInv, PageDeletesInOrder, PageDeletes, Keys, PutTried
<1> QED BY <1>6, <1>7, <1>8, <1>9, <1>10, <1>11, <1>12, <1>13 DEF Rest

\* A transaction that takes the report row away: what it hands to its handler
\* to delete is past from here on.
LEMMA TakingKeeps ==
    ASSUME IInv, NEW r \in Requests, req[r].op \in Deleting, req[r].at = "tx",
           report' = NoKey, UNCHANGED <<objects, events>>,
           NEW step \in {"object", "log"},
           step = "log" => report = NoKey,
           req'[r].op = req[r].op, req'[r].at = step, req'[r].old = req[r].old,
           req'[r].key = report, req'[r].token = req[r].token,
           \A q \in Requests \ {r} : req'[q] = req[q]
    PROVE  Rest'
<1>1. /\ TypeOK /\ req \in [Requests -> Handler] /\ objects \subseteq Requests
      /\ report \in Requests \cup {NoKey} /\ events \subseteq Event
  BY DEF IInv, TypeOK, Keys
<1>2. /\ req'[r].op = req[r].op /\ req'[r].at = step /\ req'[r].old = req[r].old
      /\ req'[r].key = report /\ req'[r].token = req[r].token
      /\ \A q \in Requests \ {r} : req'[q] = req[q]
  OBVIOUS
<1>3. ASSUME NEW k \in Requests, PutTried(k) PROVE PutTried(k)' /\ k # r /\ req'[k] = req[k]
  BY <1>2, <1>3 DEF PutTried, Deleting
<1>4. ASSUME NEW k \in Keys, Past(k) PROVE Past(k)'
  BY <1>3, <1>4 DEF Past, Keys
<1>5. \A q \in Requests : req[q].old \in Keys /\ req[q].key \in Keys
  BY <1>1 DEF Handler
<1>6. ReportIsCurrent'
  BY DEF ReportIsCurrent
<1>7. Stored'
  BY <1>2 DEF IInv, Stored, At
<1>8. Gone'
  <2>1. ASSUME NEW k \in Keys, k = report PROVE Past(k)'
    BY <1>1, <1>3, <2>1 DEF IInv, ReportIsCurrent, Past
  <2>2. ASSUME NEW q \in Requests
        PROVE  \E old \in Keys, key \in Keys :
                  /\ old = req'[q].old /\ key = req'[q].key
                  /\ Past(old)' /\ (req'[q].op \in Deleting => Past(key)')
    <3>1. PICK old \in Keys : old = req[q].old /\ Past(old)
      BY <1>5 DEF IInv, Gone
    <3>2. old = req'[q].old /\ Past(old)'
      BY <1>2, <1>4, <3>1
    <3>3. CASE q = r
      BY <1>1, <1>2, <2>1, <3>2, <3>3 DEF Keys
    <3>4. CASE q # r
      <4>1. PICK key \in Keys : key = req[q].key /\ (req[q].op \in Deleting => Past(key))
        BY <1>5 DEF IInv, Gone
      <4> QED BY <1>2, <1>4, <3>2, <3>4, <4>1
    <3> QED BY <3>3, <3>4
  <2>3. \A q \in Requests :
            /\ req'[q].at = "object" => req'[q].op \in Deleting \cup {"deletePageAndFiles"}
            /\ req'[q].at = "flip" => req'[q].op # "deleteSubmission"
    BY <1>2 DEF IInv, Gone
  <2> QED BY <2>2, <2>3 DEF Gone, Past, PutTried
<1>9. ObjectsDeleted'
  <2>1. ASSUME NEW q \in Requests, Deleted(q)' PROVE req'[q].key \notin objects
    <3>1. CASE q = r
      BY <1>1, <1>2, <2>1, <3>1 DEF Deleted
    <3>2. CASE q # r
      <4>1. req'[q] = req[q] /\ Deleted(q)
        BY <1>2, <2>1, <3>2 DEF Deleted
      <4> QED BY <4>1 DEF IInv, ObjectsDeleted
    <3> QED BY <3>1, <3>2
  <2> QED BY <2>1 DEF ObjectsDeleted
<1>10. EventsAreAnswers'
  <2>1. \A e \in events : e.by \in Requests \ {r}
    BY <1>1 DEF IInv, EventsAreAnswers, Event
  <2>2. \A e \in events : /\ req'[e.by].at = "ok" /\ e.type = EventOf(e.by)'
                          /\ req'[e.by].op \notin PageDeletes
    BY <1>2, <2>1 DEF IInv, EventsAreAnswers, EventOf
  <2>3. \A q \in Requests : req'[q].at # "idle" => req'[q].op # "idle"
    BY <1>2 DEF IInv, EventsAreAnswers, Deleting
  <2> QED BY <2>2, <2>3 DEF EventsAreAnswers
<1>11. DownloadsMatch'
  <2>1. ASSUME NEW q \in Requests, req'[q].op = "download"
        PROVE  \E k \in Requests : k = req'[q].key /\ PutTried(k)' /\ req'[k].token = req'[q].token
    <3>1. q # r /\ req'[q] = req[q]
      BY <1>2, <2>1 DEF Deleting
    <3>2. PICK k \in Requests : k = req[q].key /\ PutTried(k) /\ req[k].token = req[q].token
      BY <1>5, <2>1, <3>1 DEF IInv, DownloadsMatch, Keys
    <3>3. PutTried(k)' /\ req'[k] = req[k]
      BY <1>3, <3>2
    <3> QED BY <3>1, <3>2, <3>3
  <2> QED BY <2>1 DEF DownloadsMatch, PutTried
<1>12. OfferedReportExists'
  BY DEF OfferedReportExists
<1>13. PageDeletesInOrder'
  BY <1>2, <1>3, <1>5 DEF IInv, PageDeletesInOrder, PageDeletes, Deleting, Keys, PutTried
<1> QED BY <1>6, <1>7, <1>8, <1>9, <1>10, <1>11, <1>12, <1>13 DEF Rest

\* The status is written; the handler goes on to its event.
LEMMA FlipKeeps ==
    ASSUME IInv, NEW r \in Requests, FlipStatus(r), token # 0
    PROVE  Rest'
<1>1. /\ TypeOK /\ req \in [Requests -> Handler] /\ objects \subseteq Requests
      /\ report \in Requests \cup {NoKey} /\ events \subseteq Event
  BY DEF IInv, TypeOK, Keys
<1>2. /\ req[r].at = "flip" /\ UNCHANGED <<token, report, objects, events>>
      /\ \A q \in Requests :
            /\ req'[q].op = req[q].op /\ req'[q].old = req[q].old /\ req'[q].key = req[q].key
            /\ req'[q].token = req[q].token
            /\ req'[q].at = IF q = r THEN "log" ELSE req[q].at
  BY <1>1 DEF FlipStatus, Handler
<1>3. ASSUME NEW k \in Requests, PutTried(k) PROVE PutTried(k)'
  BY <1>2, <1>3 DEF PutTried
<1>4. \A q \in Requests : req[q].old \in Keys /\ req[q].key \in Keys
  BY <1>1 DEF Handler
<1>5. ReportIsCurrent'
  BY <1>1, <1>2, <1>3 DEF IInv, ReportIsCurrent, PutTried
<1>6. Stored'
  BY <1>2 DEF IInv, Stored, At
<1>7. Gone'
  BY <1>2, <1>3, <1>4 DEF IInv, Gone, Past, PutTried, Keys
<1>8. ObjectsDeleted'
  <2>1. ASSUME NEW q \in Requests, Deleted(q)' PROVE Deleted(q) \/ (q = r /\ req[q].op = "deleteSubmission")
    BY <1>2, <2>1 DEF Deleted
  <2>2. req[r].op # "deleteSubmission"
    BY <1>2 DEF IInv, Gone
  <2> QED BY <1>2, <2>1, <2>2 DEF IInv, ObjectsDeleted
<1>9. EventsAreAnswers'
  BY <1>1, <1>2 DEF IInv, EventsAreAnswers, EventOf, Event
<1>10. DownloadsMatch'
  BY <1>2, <1>3, <1>4 DEF IInv, DownloadsMatch, PutTried, Keys
<1>11. OfferedReportExists'
  <2>1. \A q \in Requests \ {r} : req'[q] = req[q]
    BY <1>1 DEF FlipStatus
  <2> QED BY <1>1, <1>2, <2>1, ReportStaysOffered DEF IInv, PageDeleteTook
<1>12. PageDeletesInOrder'
  BY <1>2, <1>3, <1>4 DEF IInv, PageDeletesInOrder, PageDeletes, Keys, PutTried, Outcomes
<1> QED BY <1>5, <1>6, <1>7, <1>8, <1>9, <1>10, <1>11, <1>12 DEF Rest

\* A delete of the page lists the attached report.
LEMMA ListKeeps == ASSUME IInv, NEW r \in Requests, DeletePageList(r) PROVE Rest'
<1>1. /\ TypeOK /\ req \in [Requests -> Handler] /\ objects \subseteq Requests
      /\ report \in Requests \cup {NoKey} /\ events \subseteq Event
  BY DEF IInv, TypeOK, Keys
<1>2. /\ req[r].op = "deletePageAndFiles" /\ req[r].at = "list"
      /\ req'[r].op = "deletePageAndFiles" /\ req'[r].at \in {"recheck", "object"}
      /\ req'[r].key = report
      /\ req'[r].old = req[r].old /\ req'[r].token = req[r].token
      /\ \A q \in Requests \ {r} : req'[q] = req[q]
      /\ UNCHANGED <<token, report, objects, events>>
  BY <1>1 DEF DeletePageList, At, Handler
<1>3. ASSUME NEW k \in Requests, PutTried(k) PROVE PutTried(k)' /\ req'[k] = req[k]
  BY <1>2, <1>3 DEF PutTried
<1>4. ASSUME NEW k \in Keys, Past(k) PROVE Past(k)'
  BY <1>2, <1>3, <1>4 DEF Past, Keys
<1>5. \A q \in Requests : req[q].old \in Keys /\ req[q].key \in Keys
  BY <1>1 DEF Handler
<1>6. ReportIsCurrent'
  BY <1>1, <1>2, <1>3 DEF IInv, ReportIsCurrent, PutTried
<1>7. Stored'
  BY <1>2 DEF IInv, Stored, At
<1>8. Gone'
  BY <1>2, <1>4, <1>5 DEF IInv, Gone, Deleting
<1>9. ObjectsDeleted'
  BY <1>2 DEF IInv, ObjectsDeleted, Deleted
<1>10. EventsAreAnswers'
  BY <1>1, <1>2 DEF IInv, EventsAreAnswers, EventOf, Event
<1>11. DownloadsMatch'
  BY <1>2, <1>3, <1>5 DEF IInv, DownloadsMatch, Keys, PutTried
<1>12. OfferedReportExists'
  BY <1>1, <1>2, ReportStaysOffered DEF IInv, PageDeleteTook
<1>13. PageDeletesInOrder'
  <2>1. report # NoKey => PutTried(report)'
    BY <1>1, <1>2, <1>3 DEF IInv, ReportIsCurrent, PutTried
  <2> QED BY <1>2, <1>3, <1>5, <2>1
          DEF IInv, PageDeletesInOrder, PageDeletes, Keys, PutTried
<1> QED BY <1>6, <1>7, <1>8, <1>9, <1>10, <1>11, <1>12, <1>13 DEF Rest

\* The page goes, and with it the report's row and every event.
LEMMA DropKeeps == ASSUME IInv, NEW r \in Requests, DeletePageDrop(r) PROVE Rest'
<1>1. /\ TypeOK /\ req \in [Requests -> Handler] /\ objects \subseteq Requests
      /\ report \in Requests \cup {NoKey}
  BY DEF IInv, TypeOK, Keys
<1>2. /\ req[r].at = "drop" /\ req[r].op \in PageDeletes
      /\ token' = 0 /\ report' = NoKey /\ events' = {} /\ objects' = objects
  BY DEF DeletePageDrop, IInv, PageDeletesInOrder
<1>3. \A q \in Requests :
         /\ req'[q].op = req[q].op /\ req'[q].old = req[q].old /\ req'[q].key = req[q].key
         /\ req'[q].token = req[q].token
         /\ req'[q].at = req[q].at \/ (q = r /\ req'[q].at \in {"ok", "refused"})
  BY <1>1 DEF DeletePageDrop, Goto, Handler
<1>4. ASSUME NEW k \in Requests, PutTried(k) PROVE PutTried(k)'
  BY <1>3, <1>4 DEF PutTried
<1>5. \A q \in Requests : req[q].old \in Keys /\ req[q].key \in Keys
  BY <1>1 DEF Handler
<1>6. ReportIsCurrent' /\ OfferedReportExists'
  BY <1>2 DEF ReportIsCurrent, OfferedReportExists
<1>7. Stored'
  BY <1>2, <1>3 DEF IInv, Stored, At
<1>8. Gone'
  BY <1>2, <1>3, <1>4, <1>5 DEF IInv, Gone, Past, PutTried, Keys
<1>9. ObjectsDeleted'
  BY <1>2, <1>3 DEF IInv, ObjectsDeleted, Deleted, PageDeletes
<1>10. EventsAreAnswers'
  BY <1>2, <1>3 DEF IInv, EventsAreAnswers, PageDeletes
<1>11. DownloadsMatch'
  BY <1>3, <1>4, <1>5 DEF IInv, DownloadsMatch, PutTried, Keys
<1>12. PageDeletesInOrder'
  BY <1>2, <1>3, <1>4, <1>5 DEF IInv, PageDeletesInOrder, PutTried, Keys, Outcomes
<1> QED BY <1>6, <1>7, <1>8, <1>9, <1>10, <1>11, <1>12 DEF Rest

LEMMA HandlerKeeps ==
    ASSUME IInv, NEW r \in Requests, HandlerStep(r) \/ Abort(r)
    PROVE  Rest'
<1>1. /\ TypeOK /\ req \in [Requests -> Handler] /\ req[r] \in Handler
      /\ objects \subseteq Requests
  BY DEF IInv, TypeOK
<1>2. ASSUME NEW step \in {"cleanup", "failed", "refused", "ok"},
             Goto(r, step), req[r].at \notin {"idle"} \cup Outcomes,
             req[r].op \in PageDeletes => step \in {"failed", "refused"},
             step = "ok" => req[r].op \notin Deleting,
             UNCHANGED <<token, report, objects, events>>
      PROVE  Rest'
  <2>1. step \in Steps /\ step \notin Quiet /\ step # "flip"
    BY DEF Steps, Outcomes, Quiet
  <2>2. req'[r].at = step /\ req'[r].op = req[r].op
    BY <1>1, <1>2 DEF Goto, Handler
  <2>3. ~Deleted(r)'
    BY <1>2, <2>2 DEF Deleted, Deleting
  <2>4. req[r].at \in {"recheck", "drop"} => step # "ok"
    BY <1>2 DEF IInv, PageDeletesInOrder
  <2> QED BY <1>2, <2>1, <2>3, <2>4, MovesKeep DEF Outcomes
<1>3. CASE AttachStore(r)
  BY <1>3, StoreKeeps
<1>4. CASE AttachPut(r)
  BY <1>4, PutKeeps
<1>5. CASE AttachReread(r)
  BY <1>5, RereadKeeps
<1>6. CASE AttachFails(r)
  BY <1>2, <1>6 DEF AttachFails, At, Outcomes, PageDeletes
<1>7. CASE AttachCleanup(r)
  <2>1. /\ req[r].at = "cleanup" /\ Goto(r, "failed") /\ objects' = objects \ {r}
        /\ UNCHANGED <<token, report, events>>
    BY <1>7 DEF AttachCleanup, At
  <2>2. req'[r].at = "failed"
    BY <1>1, <2>1 DEF Goto, Handler
  <2>3. ~Deleted(r)'
    BY <2>2 DEF Deleted
  <2>4. req[r].op \notin PageDeletes
    BY <2>1 DEF IInv, PageDeletesInOrder, Outcomes
  <2> QED BY <2>1, <2>3, <2>4, MovesKeep DEF Steps, Outcomes, Quiet
<1>8. CASE AttachReplace(r)
  <2>1. /\ req[r].op = "attach" /\ req[r].at = "replace" /\ Goto(r, "flip")
        /\ objects' = objects \ {req[r].old} /\ UNCHANGED <<token, report, events>>
    BY <1>8 DEF AttachReplace, At
  <2>2. req'[r].op = "attach"
    BY <1>1, <2>1 DEF Goto, Handler
  <2>3. ~Deleted(r)'
    BY <2>2 DEF Deleted
  <2>4. Past(req[r].old)
    BY DEF IInv, Gone
  <2>5. \A k \in objects \ objects' : Past(k)
    BY <2>1, <2>4
  <2> QED BY <2>1, <2>3, <2>5, MovesKeep DEF Steps, Quiet, Outcomes, PageDeletes
<1>9. CASE RemoveTx(r)
  <2>1. CASE token = 0 \/ report = NoKey
    BY <1>2, <1>9, <2>1 DEF RemoveTx, At, Outcomes, PageDeletes
  <2>2. CASE ~(token = 0 \/ report = NoKey)
    <3>1. /\ req[r].op = "remove" /\ req[r].at = "tx" /\ report' = NoKey
          /\ UNCHANGED <<objects, events>>
          /\ req' = [req EXCEPT ![r].at = "object", ![r].key = report]
      BY <1>9, <2>2 DEF RemoveTx, At
    <3>2. /\ req'[r].op = req[r].op /\ req'[r].at = "object" /\ req'[r].old = req[r].old
          /\ req'[r].key = report /\ req'[r].token = req[r].token
          /\ \A q \in Requests \ {r} : req'[q] = req[q]
      BY <1>1, <3>1 DEF Handler
    <3> QED BY <3>1, <3>2, TakingKeeps DEF Deleting
  <2> QED BY <2>1, <2>2
<1>10. CASE DeleteSubmissionTx(r)
  <2>1. CASE token = 0
    BY <1>2, <1>10, <2>1 DEF DeleteSubmissionTx, At, Outcomes, PageDeletes
  <2>2. CASE token # 0
    <3> DEFINE step == IF report = NoKey THEN "log" ELSE "object"
    <3>1. /\ req[r].op = "deleteSubmission" /\ req[r].at = "tx" /\ report' = NoKey
          /\ UNCHANGED <<objects, events>>
          /\ req' = [req EXCEPT ![r].key = report, ![r].at = step]
      BY <1>10, <2>2 DEF DeleteSubmissionTx, ReportAfterDelete, At
    <3>2. step \in {"object", "log"} /\ (step = "log" => report = NoKey)
      OBVIOUS
    <3>3. /\ req'[r].op = req[r].op /\ req'[r].at = step /\ req'[r].old = req[r].old
          /\ req'[r].key = report /\ req'[r].token = req[r].token
          /\ \A q \in Requests \ {r} : req'[q] = req[q]
      BY <1>1, <3>1 DEF Handler
    <3> HIDE DEF step
    <3> QED BY <3>1, <3>2, <3>3, TakingKeeps DEF Deleting
  <2> QED BY <2>1, <2>2
<1>11. CASE DeleteObject(r)
  <2>1. PICK step \in {"flip", "log", "recheck"} :
            /\ Goto(r, step)
            /\ step = "flip" <=> req[r].op = "remove"
            /\ step = "log" <=> req[r].op = "deleteSubmission"
    BY <1>11 DEF DeleteObject
  <2>2. /\ req[r].at = "object" /\ objects' = objects \ {req[r].key}
        /\ UNCHANGED <<token, report, events>>
    BY <1>11 DEF DeleteObject
  <2>3. step \in Steps /\ step \notin Quiet
    BY DEF Steps, Quiet
  <2>4. req[r].op \in Deleting \cup {"deletePageAndFiles"}
    BY <2>2 DEF IInv, Gone
  <2>5. step = "recheck" <=> req[r].op = "deletePageAndFiles"
    BY <2>1, <2>4 DEF Deleting
  <2>6. ASSUME NEW k \in objects \ objects'
        PROVE  \/ Past(k)
               \/ /\ PutTried(k) /\ req[r].key = k
                  /\ req[r].op = "deletePageAndFiles" /\ step = "recheck"
    <3>1. k = req[r].key /\ k # NoKey
      BY <1>1, <2>2, <2>6
    <3> QED BY <2>4, <2>5, <3>1 DEF IInv, Gone, PageDeletesInOrder, PageDeletes
  <2>7. req[r].key \notin objects'
    BY <2>2
  <2>8. /\ req[r].op \in PageDeletes => step = "recheck"
        /\ step = "recheck" => req[r].op \in PageDeletes
    BY <2>4, <2>5 DEF Deleting, PageDeletes
  <2>9. step = "flip" => req[r].op # "deleteSubmission"
    BY <2>1
  <2> HIDE DEF Deleted
  <2> QED BY <2>1, <2>2, <2>3, <2>6, <2>7, <2>8, <2>9, MovesKeep DEF Outcomes
<1>12. CASE FlipStatus(r)
  <2>1. CASE token = 0
    <3>1. req[r].at = "flip" /\ req[r].op \notin PageDeletes
      BY <1>12 DEF FlipStatus, IInv, PageDeletesInOrder, Outcomes
    <3> QED BY <1>2, <1>12, <2>1, <3>1 DEF FlipStatus, Outcomes
  <2>2. CASE token # 0
    BY <1>12, <2>2, FlipKeeps
  <2> QED BY <2>1, <2>2
<1>13. CASE DownloadStream(r)
  <2> DEFINE step == IF req[r].key \in objects THEN "log" ELSE "refused"
  <2>1. /\ req[r].op = "download" /\ req[r].at = "stream" /\ Goto(r, step)
        /\ UNCHANGED <<token, report, objects, events>>
    BY <1>13 DEF DownloadStream, At
  <2>2. step \in {"log", "refused"} /\ step \in Steps /\ step \notin Quiet
    BY DEF Steps, Outcomes, Quiet
  <2>3. req'[r].op = "download"
    BY <1>1, <2>1 DEF Goto, Handler
  <2>4. ~Deleted(r)'
    BY <2>3 DEF Deleted
  <2> HIDE DEF step
  <2> QED BY <2>1, <2>2, <2>4, MovesKeep DEF Outcomes, PageDeletes
<1>14. CASE RecordEvent(r)
  <2>1. /\ req[r].at = "log" /\ Goto(r, "ok")
        /\ events' = events \cup {[type |-> EventOf(r), by |-> r]}
        /\ UNCHANGED <<token, report, objects>>
    BY <1>14 DEF RecordEvent
  <2>2. req'[r].op = req[r].op
    BY <1>1, <2>1 DEF Goto, Handler
  <2>3. Deleted(r)' => Deleted(r)
    BY <2>1, <2>2 DEF Deleted
  <2>4. req[r].op \notin PageDeletes
    BY <2>1 DEF IInv, PageDeletesInOrder, Outcomes
  <2> QED BY <2>1, <2>3, <2>4, MovesKeep DEF Steps, Outcomes, Quiet
<1>15. CASE EventRefused(r)
  <2> DEFINE step == IF req[r].op = "download" THEN "ok" ELSE "failed"
  <2>1. /\ step \in {"cleanup", "failed", "refused", "ok"}
        /\ step = "ok" => req[r].op \notin Deleting
    BY DEF Deleting
  <2>2. /\ req[r].at = "log" /\ Goto(r, step) /\ UNCHANGED <<token, report, objects, events>>
    BY <1>15 DEF EventRefused
  <2>3. req[r].op \notin PageDeletes
    BY <2>2 DEF IInv, PageDeletesInOrder, Outcomes
  <2> HIDE DEF step
  <2> QED BY <1>2, <2>1, <2>2, <2>3 DEF Outcomes
<1>16. CASE Abort(r)
  BY <1>2, <1>16 DEF Abort, InFlight, Outcomes
<1>17. CASE DeletePageList(r)
  BY <1>17, ListKeeps
<1>18. CASE DeletePageRecheck(r)
  <2>1. PICK step \in {"drop", "refused"} :
            Goto(r, step) /\ UNCHANGED <<token, report, objects, events>>
    BY <1>18 DEF DeletePageRecheck
  <2>2. req[r].at = "recheck" /\ req[r].op \in PageDeletes
    BY <1>18 DEF DeletePageRecheck, IInv, PageDeletesInOrder
  <2>3. ~Deleted(r)'
    BY <1>1, <2>1, <2>2 DEF Goto, Handler, Deleted
  <2> QED BY <2>1, <2>2, <2>3, MovesKeep DEF Steps, Outcomes, Quiet
<1>19. CASE DeletePageDrop(r)
  BY <1>19, DropKeeps
<1> QED BY <1>3, <1>4, <1>5, <1>6, <1>7, <1>8, <1>9, <1>10, <1>11, <1>12, <1>13, <1>14,
           <1>15, <1>16, <1>17, <1>18, <1>19 DEF HandlerStep

\* A page that is gone stays so, and nothing is begun on it.
LEMMA GoneStaysEmpty == IInv /\ [Next]_vars => GoneIsEmpty'
<1> SUFFICES ASSUME IInv, [Next]_vars PROVE GoneIsEmpty'
  OBVIOUS
<1>1. TypeOK
  BY DEF IInv
<1>2. CASE Submit
  BY <1>2 DEF Submit, GoneIsEmpty
<1>3. CASE Seal
  BY <1>3 DEF Seal, GoneIsEmpty
<1>4. ASSUME NEW r \in Requests, Arrival(r) PROVE GoneIsEmpty'
  BY <1>1, <1>4, ArrivalTypes DEF IInv, GoneIsEmpty
<1>5. ASSUME NEW r \in Requests, HandlerStep(r) \/ Abort(r) PROVE GoneIsEmpty'
  BY <1>5 DEF HandlerStep, AttachStore, AttachPut, AttachReread, AttachFails, AttachCleanup,
     AttachReplace, RemoveTx, DeleteSubmissionTx, DeletePageList, DeletePageRecheck,
     DeletePageDrop, DeleteObject, FlipStatus, DownloadStream, RecordEvent, EventRefused,
     Abort, IInv, GoneIsEmpty
<1>6. CASE UNCHANGED vars
  BY <1>6 DEF vars, IInv, GoneIsEmpty
<1> QED BY <1>2, <1>3, <1>4, <1>5, <1>6 DEF Next

LEMMA SealKeeps == IInv /\ Seal => Rest'
BY DEF Seal, IInv, Rest, ReportIsCurrent, PutTried, Stored, At, Gone, Past, ObjectsDeleted,
       Deleted, EventsAreAnswers, EventOf, DownloadsMatch, OfferedReportExists,
       PageDeletesInOrder, PageDeleteTook

LEMMA StepInvariant == IInv /\ [Next]_vars => IInv'
<1> SUFFICES ASSUME IInv, [Next]_vars PROVE IInv'
  OBVIOUS
<1>1. TypeOK' /\ GoneIsEmpty'
  BY StepTypes, GoneStaysEmpty DEF IInv
<1>2. CASE Submit
  BY <1>1, <1>2, SubmitKeeps DEF IInv, Rest
<1>3. ASSUME NEW r \in Requests, Arrival(r) PROVE IInv'
  BY <1>1, <1>3, ArrivalKeeps DEF IInv, Rest
<1>4. ASSUME NEW r \in Requests, HandlerStep(r) \/ Abort(r) PROVE IInv'
  BY <1>1, <1>4, HandlerKeeps DEF IInv, Rest
<1>5. CASE UNCHANGED vars
  BY <1>1, <1>5 DEF vars, IInv, ReportIsCurrent, PutTried, Stored, At, Gone, Past,
     ObjectsDeleted, Deleted, EventsAreAnswers, EventOf, DownloadsMatch, OfferedReportExists,
     PageDeletesInOrder, PageDeleteTook
<1>6. CASE Seal
  BY <1>1, <1>6, SealKeeps DEF IInv, Rest
<1> QED BY <1>2, <1>3, <1>4, <1>5, <1>6 DEF Next

LEMMA AlwaysInvariant == Spec => []IInv
BY InitInvariant, StepInvariant, PTL DEF Spec

(***************************************************************************)
(* The properties.                                                         *)
(***************************************************************************)

\* A receipt token leads to reports that were attached under it and to no other.
THEOREM TokensLeadToTheirOwn == Spec => []TokenGetsItsOwnReports
<1>1. IInv => TokenGetsItsOwnReports
  BY DEF IInv, DownloadsMatch, TokenGetsItsOwnReports
<1> QED BY <1>1, AlwaysInvariant, PTL

\* An attached report is in the store, unless its attach answered with an error or
\* a delete of the page has taken its object and not, or not yet, the page.
THEOREM OfferedReportsExist == Spec => []OfferedReportExists
<1>1. IInv => OfferedReportExists
  BY DEF IInv
<1> QED BY <1>1, AlwaysInvariant, PTL

\* What an event of a deletion names is in the store no more, and never again.
THEOREM DeletionsAreTruthful == Spec => []DeletionEventsTruthful
<1>1. IInv => DeletionEventsTruthful
  <2> SUFFICES ASSUME IInv, NEW e \in events,
                      e.type \in {"report.deleted", "submission.deleted"}
               PROVE  req[e.by].key \notin objects
    BY DEF DeletionEventsTruthful
  <2>1. e.by \in Requests /\ req[e.by] \in Handler
    BY DEF IInv, TypeOK, Event
  <2>2. req[e.by].at = "ok" /\ e.type = EventOf(e.by) /\ req[e.by].op # "idle"
    BY <2>1 DEF IInv, EventsAreAnswers
  <2>3. req[e.by].op \in Deleting
    <3>1. req[e.by].op \notin PageDeletes
      BY <2>1 DEF IInv, EventsAreAnswers
    <3> QED BY <2>1, <2>2, <3>1 DEF EventOf, Deleting, PageDeletes, Handler, Ops
  <2> QED BY <2>1, <2>2, <2>3 DEF IInv, ObjectsDeleted, Deleted, Deleting
<1> QED BY <1>1, AlwaysInvariant, PTL

(***************************************************************************)
(* What requests leave that neither overlap nor fail: the status follows   *)
(* the report and the store holds nothing else, as long as the page is not *)
(* deleted without its files.  While a handler works alone the two may     *)
(* differ by what it has still to do, Leaves below.                        *)
(***************************************************************************)

\* What the handlers intend: an attach writes completed, a remove received, and only
\* those and an admin's setting write at all.
Intends ==
    \A r \in Requests :
        /\ req[r].op = "attach" => req[r].to = "completed"
        /\ req[r].op = "remove" => req[r].to = "received"
        /\ req[r].at = "idle" => req[r].op = "idle"
        /\ req[r].at = "flip" => req[r].op \in {"attach", "remove", "setStatus"}

NeverSetByHand == \A r \in Requests : req[r].op # "setStatus"

\* The status says whether there is a report.
Agrees == token # 0 /\ NeverSetByHand => (status = "completed" <=> report # NoKey)

\* The object that a handler has still to attach or to delete.
InHand(r) ==
    CASE req[r].at = "put"                    -> {r}
      [] req[r].at \in {"reread", "replace"}  -> {req[r].old}
      [] req[r].at = "object"                 -> {req[r].key}
      [] OTHER                                -> {}

\* The report has changed and the status is yet to follow.
HasAttached(r) == req[r].op = "attach" /\ req[r].at \in {"reread", "replace", "flip"}
HasRemoved(r) == req[r].op = "remove" /\ req[r].at \in {"object", "flip"}

\* A delete of the page without files=1 has left the objects where they are.
LeftBehind == \E q \in Requests : At(q, "deletePage", "ok")

\* A delete of the page has taken the report's object along and not the page yet.
HasTaken(r) == req[r].op = "deletePageAndFiles" /\ req[r].at \in {"recheck", "drop"}

\* What a handler that works alone leaves to be done.
Leaves(r) ==
    /\ LeftBehind \/ objects \subseteq {report} \cup InHand(r)
    /\ HasTaken(r) => LeftBehind \/ objects = {}
    /\ At(r, "deletePageAndFiles", "object") => req[r].key = report
    /\ HasAttached(r) => report = r
    /\ HasRemoved(r) => report = NoKey
    /\ Agrees \/ HasAttached(r) \/ HasRemoved(r)

AloneInv ==
    /\ IsFiniteSet(InFlight) /\ Intends
    /\ alone =>
         /\ \A p, q \in InFlight : p = q
         /\ \A r \in InFlight : req[r].at # "cleanup" => Leaves(r)
         /\ Idle => (LeftBehind \/ objects \subseteq {report}) /\ Agrees

LEMMA InitAlone == Init => AloneInv
<1> SUFFICES ASSUME Init PROVE AloneInv
  OBVIOUS
<1>1. \A r \in Requests : req[r].op = "idle" /\ req[r].at = "idle"
  BY DEF Init, IdleHandler
<1>2. InFlight = {}
  BY <1>1 DEF InFlight
<1>3. IsFiniteSet(InFlight)
  BY <1>2, FS_EmptySet
<1> QED
  BY <1>1, <1>2, <1>3 DEF AloneInv, Intends, Agrees, Init

\* A set of at most one.
LEMMA AtMostOne ==
    ASSUME NEW S, IsFiniteSet(S), Cardinality(S) <= 1, NEW p \in S, NEW q \in S
    PROVE  p = q
<1>1. Cardinality(S) \in Nat
  BY FS_CardinalityType
<1>2. Cardinality(S) = 1
  BY <1>1, FS_EmptySet
<1> QED BY <1>2, FS_Singleton

\* The part of Begin that matters here.
Starts(r) ==
    /\ req[r].at = "idle" /\ req'[r].at \in {"store", "tx", "flip", "stream", "list", "recheck"}
    /\ req'[r].op = "attach" => req'[r].to = "completed"
    /\ req'[r].op = "remove" => req'[r].to = "received"
    /\ req'[r].at = "flip" => req'[r].op = "setStatus"
    /\ req'[r].at = "recheck" => req'[r].op = "deletePage"
    /\ \A q \in Requests \ {r} : req'[q] = req[q]
    /\ UNCHANGED <<token, status, report, objects>>

LEMMA ArrivalStarts ==
    ASSUME TypeOK, NEW r \in Requests, Arrival(r)
    PROVE  Starts(r)
<1>1. ASSUME NEW h, Begin(r, h)
      PROVE  req[r].at = "idle" /\ req'[r] = h /\ \A q \in Requests \ {r} : req'[q] = req[q]
  BY <1>1 DEF Begin, TypeOK
<1>2. UNCHANGED <<page, token, issued, status, report, objects, events>>
  BY ArrivalTypes
<1>3. CASE AttachRead(r)
  <2> DEFINE h == [IdleHandler EXCEPT !.op = "attach", !.at = "store", !.to = "completed"]
  <2>1. Begin(r, h) /\ h.op = "attach" /\ h.at = "store" /\ h.to = "completed"
    BY <1>3 DEF AttachRead, IdleHandler
  <2> HIDE DEF h
  <2> QED BY <1>1, <1>2, <2>1 DEF Starts
<1>4. CASE RemoveRead(r)
  <2> DEFINE h == [IdleHandler EXCEPT !.op = "remove", !.at = "tx"]
  <2>1. Begin(r, h) /\ h.op = "remove" /\ h.at = "tx" /\ h.to = "received"
    BY <1>4 DEF RemoveRead, IdleHandler
  <2> HIDE DEF h
  <2> QED BY <1>1, <1>2, <2>1 DEF Starts
<1>5. CASE DeleteSubmissionRead(r)
  <2> DEFINE h == [IdleHandler EXCEPT !.op = "deleteSubmission", !.at = "tx"]
  <2>1. Begin(r, h) /\ h.op = "deleteSubmission" /\ h.at = "tx"
    BY <1>5 DEF DeleteSubmissionRead, IdleHandler
  <2> HIDE DEF h
  <2> QED BY <1>1, <1>2, <2>1 DEF Starts
<1>6. ASSUME NEW to \in Statuses, SetStatusBegin(r, to) PROVE Starts(r)
  <2> DEFINE h == [IdleHandler EXCEPT !.op = "setStatus", !.at = "flip", !.to = to]
  <2>1. Begin(r, h) /\ h.op = "setStatus" /\ h.at = "flip"
    BY <1>6 DEF SetStatusBegin, IdleHandler
  <2> HIDE DEF h
  <2> QED BY <1>1, <1>2, <2>1 DEF Starts
<1>7. ASSUME NEW t \in Tokens, DownloadRead(r, t) PROVE Starts(r)
  <2> DEFINE h == [IdleHandler EXCEPT !.op = "download", !.at = "stream",
                                      !.token = t, !.linked = t, !.key = ReportOf(t)]
  <2>1. Begin(r, h) /\ h.op = "download" /\ h.at = "stream"
    BY <1>7 DEF DownloadRead, IdleHandler
  <2> HIDE DEF h
  <2> QED BY <1>1, <1>2, <2>1 DEF Starts
<1>8. ASSUME NEW op \in PageDeletes, DeletePageRead(r, op) PROVE Starts(r)
  <2> DEFINE h == [IdleHandler EXCEPT !.op = op,
                      !.at = IF op = "deletePageAndFiles" THEN "list" ELSE "recheck"]
  <2>1. /\ Begin(r, h) /\ h.op = op /\ h.at \in {"list", "recheck"}
        /\ h.at = "recheck" => op = "deletePage"
    BY <1>8 DEF DeletePageRead, IdleHandler, PageDeletes
  <2> HIDE DEF h
  <2> QED BY <1>1, <1>2, <2>1 DEF Starts, PageDeletes
<1> QED BY <1>3, <1>4, <1>5, <1>6, <1>7, <1>8 DEF Arrival, PageDeletes

\* r's handler takes a step and the others do not.
Goes(r) ==
    /\ req[r].at \notin {"idle"} \cup Outcomes
    /\ req'[r].op = req[r].op /\ req'[r].to = req[r].to
    /\ req'[r].at # "idle"
    /\ req'[r].at = "flip" => req[r].op \in {"attach", "remove"}
    /\ \A q \in Requests \ {r} : req'[q] = req[q]

LEMMA GotoGoes ==
    ASSUME TypeOK, NEW r \in Requests, NEW step, Goto(r, step),
           req[r].at \notin {"idle"} \cup Outcomes,
           step # "idle", step = "flip" => req[r].op \in {"attach", "remove"}
    PROVE  Goes(r) /\ req'[r].at = step /\ req'[r].key = req[r].key /\ req'[r].old = req[r].old
BY DEF TypeOK, Goto, Handler, Goes

LEMMA NeverStays ==
    ASSUME NEW r \in Requests, Goes(r)
    PROVE  NeverSetByHand' <=> NeverSetByHand
BY DEF Goes, NeverSetByHand

LEMMA LeftStays ==
    ASSUME NEW r \in Requests, Goes(r), LeftBehind
    PROVE  LeftBehind'
BY DEF Goes, LeftBehind, At, Outcomes

\* A step of a handler that leaves token, status and report as they are.
LEMMA GotoLeaves ==
    ASSUME TypeOK, NEW r \in Requests, NEW step, Goto(r, step),
           req[r].at \notin {"idle"} \cup Outcomes, Leaves(r), step # "idle",
           UNCHANGED <<token, status, report>>,
           LeftBehind \/ objects' \subseteq {report} \cup (IF step = "put" THEN {r} ELSE {}),
           req[r].op = "deletePageAndFiles" /\ step \in {"recheck", "drop"} =>
               LeftBehind \/ objects' = {},
           step \notin {"reread", "replace", "object"},
           step = "flip" => HasAttached(r) \/ HasRemoved(r),
           HasAttached(r) \/ HasRemoved(r) => step = "flip"
    PROVE  Leaves(r)'
<1>1. /\ Goes(r) /\ req'[r].at = step /\ req'[r].key = req[r].key /\ req'[r].old = req[r].old
      /\ req'[r].op = req[r].op
  BY GotoGoes DEF HasAttached, HasRemoved, Goes
<1>2. /\ LeftBehind' \/ objects' \subseteq {report'} \cup InHand(r)'
      /\ HasTaken(r)' => LeftBehind' \/ objects' = {}
      /\ ~ At(r, "deletePageAndFiles", "object")'
  BY <1>1, LeftStays DEF InHand, HasTaken, At
<1>3. HasAttached(r)' => HasAttached(r) /\ report' = r
  <2>1. HasAttached(r)' => step = "flip" /\ req[r].op = "attach"
    BY <1>1 DEF HasAttached
  <2> QED BY <2>1 DEF HasAttached, HasRemoved, Leaves
<1>4. HasRemoved(r)' => HasRemoved(r) /\ report' = NoKey
  <2>1. HasRemoved(r)' => step = "flip" /\ req[r].op = "remove"
    BY <1>1 DEF HasRemoved
  <2> QED BY <2>1 DEF HasAttached, HasRemoved, Leaves
<1>5. Agrees' \/ HasAttached(r)' \/ HasRemoved(r)'
  BY <1>1, NeverStays DEF HasAttached, HasRemoved, Leaves, Agrees
<1> QED BY <1>2, <1>3, <1>4, <1>5 DEF Leaves

\* A handler that works alone leaves no more than it has still to do, or fails.
LEMMA HandlerLeaves ==
    ASSUME IInv, Intends, NEW r \in Requests, HandlerStep(r) \/ Abort(r)
    PROVE  /\ Goes(r)
           /\ req'[r].at \in {"failed", "cleanup"}
              \/ (req[r].at # "cleanup" /\ (Leaves(r) => Leaves(r)'))
<1> USE DEF At
<1>1. TypeOK /\ req[r] \in Handler /\ objects \subseteq Requests /\ report \in Keys
  BY DEF IInv, TypeOK
<1>2. CASE AttachStore(r)
  BY <1>1, <1>2, GotoGoes, GotoLeaves
  DEF AttachStore, Outcomes, Leaves, InHand, HasAttached, HasRemoved
<1>3. CASE AttachPut(r)
  <2>1. /\ req'[r].op = "attach" /\ req'[r].at = "reread" /\ req'[r].old = report
        /\ req'[r].to = req[r].to /\ \A q \in Requests \ {r} : req'[q] = req[q]
        /\ req[r].op = "attach" /\ req[r].at = "put"
    BY <1>1, <1>3 DEF AttachPut, TypeOK, Handler
  <2>2. Goes(r)
    BY <2>1 DEF Goes, Outcomes
  <2>3. Leaves(r) => Leaves(r)'
    BY <1>3, <2>1, <2>2, LeftStays
    DEF AttachPut, Leaves, InHand, HasAttached, HasRemoved, HasTaken
  <2> QED BY <2>1, <2>2, <2>3
<1>4. CASE AttachReread(r)
  <2>1. /\ req'[r].op = "attach" /\ req'[r].old = req[r].old
        /\ req'[r].at = (IF req[r].old = NoKey THEN "flip" ELSE "replace")
        /\ req'[r].to = req[r].to /\ \A q \in Requests \ {r} : req'[q] = req[q]
        /\ req[r].op = "attach" /\ req[r].at = "reread"
    BY <1>1, <1>4 DEF AttachReread, TypeOK, Handler
  <2>2. Goes(r)
    BY <2>1 DEF Goes, Outcomes
  <2>3. ASSUME Leaves(r) PROVE Leaves(r)'
    <3>1. (LeftBehind \/ objects \subseteq {report} \cup {req[r].old}) /\ report = r
      BY <2>1, <2>3 DEF Leaves, InHand, HasAttached
    <3>2. LeftBehind' \/ objects' \subseteq {report'} \cup InHand(r)'
      BY <1>1, <1>4, <2>1, <2>2, <3>1, LeftStays DEF AttachReread, InHand
    <3> QED BY <1>4, <2>1, <3>1, <3>2 DEF AttachReread, Leaves, HasAttached, HasRemoved, HasTaken
  <2> QED BY <2>1, <2>2, <2>3
<1>5. CASE AttachFails(r)
  BY <1>1, <1>5, GotoGoes DEF AttachFails, Outcomes
<1>6. CASE AttachCleanup(r)
  BY <1>1, <1>6, GotoGoes DEF AttachCleanup, Outcomes
<1>7. CASE AttachReplace(r)
  <2>1. Leaves(r) => LeftBehind \/ objects' \subseteq {report}
    BY <1>7 DEF AttachReplace, Leaves, InHand
  <2> QED
    BY <1>1, <1>7, <2>1, GotoGoes, GotoLeaves
    DEF AttachReplace, Outcomes, HasAttached, HasRemoved
<1>8. CASE RemoveTx(r)
  <2>1. CASE token = 0 \/ report = NoKey
    BY <1>1, <1>8, <2>1, GotoGoes, GotoLeaves
    DEF RemoveTx, Outcomes, Leaves, InHand, HasAttached, HasRemoved
  <2>2. CASE ~(token = 0 \/ report = NoKey)
    <3>1. /\ req[r].op = "remove" /\ req[r].at = "tx" /\ report' = NoKey /\ objects' = objects
          /\ req' = [req EXCEPT ![r].at = "object", ![r].key = report]
      BY <1>8, <2>2 DEF RemoveTx
    <3>2. /\ req'[r].op = "remove" /\ req'[r].at = "object" /\ req'[r].key = report
          /\ req'[r].to = req[r].to /\ \A q \in Requests \ {r} : req'[q] = req[q]
      BY <1>1, <3>1 DEF TypeOK, Handler
    <3>3. Goes(r)
      BY <3>1, <3>2 DEF Goes, Outcomes
    <3>4. Leaves(r) => Leaves(r)'
      BY <3>1, <3>2, <3>3, LeftStays DEF Leaves, InHand, HasAttached, HasRemoved, HasTaken
    <3> QED BY <3>1, <3>3, <3>4
  <2> QED BY <2>1, <2>2
<1>9. CASE DeleteSubmissionTx(r)
  <2>1. CASE token = 0
    BY <1>1, <1>9, <2>1, GotoGoes, GotoLeaves
    DEF DeleteSubmissionTx, Outcomes, Leaves, InHand, HasAttached, HasRemoved
  <2>2. CASE token # 0
    <3>1. /\ req[r].op = "deleteSubmission" /\ req[r].at = "tx"
          /\ token' = 0 /\ report' = NoKey /\ objects' = objects
          /\ req' = [req EXCEPT ![r].key = report,
                          ![r].at = IF report = NoKey THEN "log" ELSE "object"]
      BY <1>9, <2>2 DEF DeleteSubmissionTx, ReportAfterDelete
    <3>2. /\ req'[r].op = "deleteSubmission" /\ req'[r].key = report
          /\ req'[r].at = (IF report = NoKey THEN "log" ELSE "object")
          /\ req'[r].to = req[r].to /\ \A q \in Requests \ {r} : req'[q] = req[q]
      BY <1>1, <3>1 DEF TypeOK, Handler
    <3>3. req'[r].at \in {"log", "object"}
      BY <3>2
    <3>4. Goes(r)
      BY <3>1, <3>2, <3>3 DEF Goes, Outcomes
    <3>5. ASSUME Leaves(r) PROVE Leaves(r)'
      <4>1. LeftBehind \/ objects \subseteq {report}
        BY <3>1, <3>5 DEF Leaves, InHand
      <4>2. LeftBehind' \/ objects' \subseteq {report'} \cup InHand(r)'
        BY <1>1, <3>1, <3>2, <3>4, <4>1, LeftStays DEF InHand
      <4> QED BY <3>1, <3>2, <4>2 DEF Leaves, Agrees, HasAttached, HasRemoved, HasTaken
    <3> QED BY <3>1, <3>4, <3>5
  <2> QED BY <2>1, <2>2
<1>10. CASE DeleteObject(r)
  <2>1. PICK step \in {"flip", "log", "recheck"} :
            /\ Goto(r, step)
            /\ step = "flip" <=> req[r].op = "remove"
            /\ step = "log" <=> req[r].op = "deleteSubmission"
    BY <1>10 DEF DeleteObject
  <2>2. /\ req[r].at = "object" /\ objects' = objects \ {req[r].key}
        /\ UNCHANGED <<token, status, report>>
    BY <1>10 DEF DeleteObject
  <2>3. req[r].op \in Deleting \cup {"deletePageAndFiles"}
    BY <2>2 DEF IInv, Gone
  <2>4. Leaves(r) => LeftBehind \/ objects' \subseteq {report}
    BY <2>2 DEF Leaves, InHand
  <2>5. Leaves(r) /\ req[r].op = "deletePageAndFiles" => LeftBehind \/ objects' = {}
    BY <2>2 DEF Leaves, InHand
  <2> QED
    BY <1>1, <2>1, <2>2, <2>3, <2>4, <2>5, GotoGoes, GotoLeaves
    DEF Outcomes, HasAttached, HasRemoved, Deleting
<1>11. CASE FlipStatus(r)
  <2>1. CASE token = 0
    BY <1>1, <1>11, <2>1, GotoGoes DEF FlipStatus, Outcomes
  <2>2. CASE token # 0
    <3>1. /\ req[r].at = "flip" /\ UNCHANGED <<token, report, objects>>
          /\ status' = req[r].to /\ req' = [req EXCEPT ![r].at = "log", ![r].linked = token]
      BY <1>11, <2>2 DEF FlipStatus, StatusAfter
    <3>2. /\ req'[r].op = req[r].op /\ req'[r].at = "log"
          /\ req'[r].to = req[r].to /\ \A q \in Requests \ {r} : req'[q] = req[q]
      BY <1>1, <3>1 DEF TypeOK, Handler
    <3>3. Goes(r)
      BY <3>1, <3>2 DEF Goes, Outcomes
    <3>4. ASSUME Leaves(r) PROVE Leaves(r)'
      <4>1. LeftBehind' \/ objects' \subseteq {report'} \cup InHand(r)'
        BY <3>1, <3>2, <3>3, <3>4, LeftStays DEF Leaves, InHand
      <4>2. req[r].op \in {"attach", "remove", "setStatus"}
        BY <3>1 DEF Intends
      <4>3. req[r].op = "attach" => report # NoKey /\ status' = "completed"
        BY <3>1, <3>4 DEF Intends, Leaves, HasAttached
      <4>4. req[r].op = "remove" => report = NoKey /\ status' = "received"
        BY <3>1, <3>4 DEF Intends, Leaves, HasRemoved
      <4>5. req[r].op = "setStatus" => ~ NeverSetByHand'
        BY <3>2 DEF NeverSetByHand
      <4>6. Agrees'
        BY <3>1, <4>2, <4>3, <4>4, <4>5 DEF Agrees
      <4> QED BY <3>2, <4>1, <4>6 DEF Leaves, HasAttached, HasRemoved, HasTaken
    <3> QED BY <3>1, <3>2, <3>3, <3>4
  <2> QED BY <2>1, <2>2
<1>12. CASE DownloadStream(r)
  <2> DEFINE step == IF req[r].key \in objects THEN "log" ELSE "refused"
  <2>1. /\ req[r].op = "download" /\ req[r].at = "stream" /\ Goto(r, step)
        /\ UNCHANGED <<token, status, report, objects>>
    BY <1>12 DEF DownloadStream
  <2>2. step \in {"log", "refused"}
    OBVIOUS
  <2> HIDE DEF step
  <2> QED
    BY <1>1, <2>1, <2>2, GotoGoes, GotoLeaves
    DEF Outcomes, Leaves, InHand, HasAttached, HasRemoved
<1>13. CASE RecordEvent(r)
  BY <1>1, <1>13, GotoGoes, GotoLeaves
  DEF RecordEvent, Outcomes, Leaves, InHand, HasAttached, HasRemoved
<1>14. CASE EventRefused(r)
  <2> DEFINE step == IF req[r].op = "download" THEN "ok" ELSE "failed"
  <2>1. /\ req[r].at = "log" /\ Goto(r, step) /\ UNCHANGED <<token, status, report, objects>>
    BY <1>14 DEF EventRefused
  <2>2. step \in {"ok", "failed"}
    OBVIOUS
  <2> HIDE DEF step
  <2> QED
    BY <1>1, <2>1, <2>2, GotoGoes, GotoLeaves
    DEF Outcomes, Leaves, InHand, HasAttached, HasRemoved
<1>15. CASE Abort(r)
  BY <1>1, <1>15, GotoGoes DEF Abort, InFlight
<1>16. CASE DeletePageList(r)
  <2>1. /\ req[r].op = "deletePageAndFiles" /\ req[r].at = "list"
        /\ UNCHANGED <<token, status, report, objects>>
    BY <1>16 DEF DeletePageList
  <2>2. /\ req'[r].op = "deletePageAndFiles" /\ req'[r].key = report
        /\ req'[r].at = (IF report = NoKey THEN "recheck" ELSE "object")
        /\ req'[r].to = req[r].to /\ \A q \in Requests \ {r} : req'[q] = req[q]
    BY <1>1, <1>16 DEF DeletePageList, TypeOK, Handler
  <2>3. Goes(r)
    BY <2>1, <2>2 DEF Goes, Outcomes
  <2>4. ASSUME Leaves(r) PROVE Leaves(r)'
    <3>1. LeftBehind \/ objects \subseteq {report}
      BY <2>1, <2>4 DEF Leaves, InHand
    <3>2. LeftBehind' \/ objects' \subseteq {report'} \cup InHand(r)'
      BY <2>1, <2>3, <3>1, LeftStays
    <3>3. report = NoKey => LeftBehind' \/ objects' = {}
      BY <1>1, <2>1, <2>3, <3>1, LeftStays, NoKeyAssumption
    <3>4. Agrees'
      BY <2>1, <2>2, <2>3, <2>4, NeverStays DEF Leaves, Agrees, HasAttached, HasRemoved
    <3> QED BY <2>1, <2>2, <3>2, <3>3, <3>4 DEF Leaves, HasAttached, HasRemoved, HasTaken
  <2> QED BY <2>1, <2>2, <2>3, <2>4
<1>17. CASE DeletePageRecheck(r)
  <2>1. PICK step \in {"drop", "refused"} :
            Goto(r, step) /\ UNCHANGED <<token, status, report, objects>>
    BY <1>17 DEF DeletePageRecheck
  <2>2. req[r].at = "recheck" /\ req[r].op \in PageDeletes
    BY <1>17 DEF DeletePageRecheck, IInv, PageDeletesInOrder
  <2>3. Leaves(r) => /\ LeftBehind \/ objects \subseteq {report}
                     /\ req[r].op = "deletePageAndFiles" => LeftBehind \/ objects = {}
    BY <2>2 DEF Leaves, InHand, HasTaken
  <2> QED
    BY <1>1, <2>1, <2>2, <2>3, GotoGoes, GotoLeaves
    DEF Outcomes, HasAttached, HasRemoved, PageDeletes
<1>18. CASE DeletePageDrop(r)
  <2> DEFINE step == IF page = "gone" THEN "refused" ELSE "ok"
  <2>1. /\ req[r].at = "drop" /\ req[r].op \in PageDeletes /\ Goto(r, step)
        /\ token' = 0 /\ report' = NoKey /\ objects' = objects
    BY <1>18 DEF DeletePageDrop, IInv, PageDeletesInOrder
  <2>2. Goes(r) /\ req'[r].at = step /\ req'[r].op = req[r].op
    <3>1. step \in {"refused", "ok"}
      OBVIOUS
    <3> HIDE DEF step
    <3> QED BY <1>1, <2>1, <3>1, GotoGoes DEF Goes, Outcomes
  <2>3. ASSUME Leaves(r) PROVE Leaves(r)'
    <3>1. /\ LeftBehind \/ objects \subseteq {report}
          /\ req[r].op = "deletePageAndFiles" => LeftBehind \/ objects = {}
      BY <2>1, <2>3 DEF Leaves, InHand, HasTaken
    <3>2. page = "gone" => report = NoKey
      BY DEF IInv, GoneIsEmpty, ReportIsCurrent
    <3>3. page # "gone" /\ req[r].op = "deletePage" => LeftBehind'
      BY <2>2 DEF LeftBehind
    <3>4. LeftBehind' \/ objects' \subseteq {report'}
      BY <2>1, <2>2, <3>1, <3>2, <3>3, LeftStays DEF PageDeletes
    <3> QED BY <2>1, <2>2, <3>4
            DEF Leaves, Agrees, InHand, HasAttached, HasRemoved, HasTaken, PageDeletes
  <2> QED BY <2>1, <2>2, <2>3
<1> QED BY <1>2, <1>3, <1>4, <1>5, <1>6, <1>7, <1>8, <1>9, <1>10, <1>11, <1>12, <1>13, <1>14,
           <1>15, <1>16, <1>17, <1>18 DEF HandlerStep

LEMMA StepAlone == IInv /\ AloneInv /\ [Next]_vars => AloneInv'
<1> SUFFICES ASSUME IInv, AloneInv, [Next]_vars PROVE AloneInv'
  OBVIOUS
<1>1. TypeOK /\ Intends /\ IsFiniteSet(InFlight)
  BY DEF IInv, AloneInv
<1>2. CASE Submit /\ Observe
  <2>1. InFlight' = InFlight /\ req' = req
    BY <1>2 DEF Submit, InFlight
  <2>2. report = NoKey
    BY <1>2 DEF Submit, IInv, ReportIsCurrent
  <2>3. Agrees' /\ report' = report /\ objects' = objects /\ (alone' => alone)
    BY <1>2, <2>2 DEF Submit, Agrees, Observe
  <2>4. ASSUME NEW r \in Requests, Leaves(r) PROVE Leaves(r)'
    <3>1. InHand(r)' = InHand(r) /\ LeftBehind' = LeftBehind
      BY <2>1 DEF InHand, LeftBehind, At
    <3> QED BY <2>1, <2>3, <2>4, <3>1 DEF Leaves, HasAttached, HasRemoved, HasTaken, At
  <2>5. Idle' <=> Idle
    BY <2>1 DEF Idle
  <2>6. Intends'
    BY <1>1, <2>1 DEF Intends
  <2>7. InFlight \subseteq Requests
    BY DEF InFlight
  <2>8. alone' => /\ \A p, q \in InFlight' : p = q
                  /\ \A r \in InFlight' : req'[r].at # "cleanup" => Leaves(r)'
                  /\ Idle' => (LeftBehind' \/ objects' \subseteq {report'}) /\ Agrees'
    BY <2>1, <2>3, <2>4, <2>5, <2>7 DEF AloneInv, LeftBehind, At
  <2> QED BY <1>1, <2>1, <2>6, <2>8 DEF AloneInv
<1>3. ASSUME NEW r \in Requests, Starts(r), Observe PROVE AloneInv'
  <2>1. InFlight' = InFlight \cup {r} /\ r \notin InFlight
    BY <1>3 DEF Starts, InFlight, Outcomes
  <2>2. IsFiniteSet(InFlight')
    BY <1>1, <2>1, FS_AddElement
  <2>3. Intends'
    BY <1>1, <1>3 DEF Starts, Intends
  <2>4. alone' => alone /\ \A p, q \in InFlight' : p = q
    BY <1>3, <2>2, AtMostOne DEF Observe
  <2>5. ASSUME alone' PROVE Leaves(r)'
    <3>1. Idle
      BY <2>1, <2>4, <2>5 DEF Idle
    <3>2. (LeftBehind \/ objects \subseteq {report}) /\ Agrees
      BY <2>4, <2>5, <3>1 DEF AloneInv
    <3>5. LeftBehind => LeftBehind'
      BY <1>3 DEF Starts, LeftBehind, At
    <3>3. req[r].op # "setStatus"
      BY <1>1, <1>3 DEF Intends, Starts
    <3>4. Agrees'
      BY <1>3, <3>2, <3>3 DEF Agrees, NeverSetByHand, Starts
    <3> QED BY <1>3, <3>2, <3>4, <3>5 DEF Leaves, Starts, HasAttached, HasRemoved, HasTaken, At
  <2> QED BY <2>1, <2>2, <2>3, <2>4, <2>5 DEF AloneInv, Idle
<1>4. ASSUME NEW r \in Requests, HandlerStep(r) \/ Abort(r), Observe PROVE AloneInv'
  <2>1. Goes(r)
    BY <1>1, <1>4, HandlerLeaves
  <2>2. InFlight' \in SUBSET InFlight /\ r \in InFlight
    BY <2>1 DEF Goes, InFlight, Outcomes
  <2>3. IsFiniteSet(InFlight')
    BY <1>1, <2>2, FS_Subset
  <2>4. Intends'
    BY <1>1, <2>1 DEF Goes, Intends
  <2>5. ASSUME alone', req'[r].at # "cleanup" PROVE Leaves(r)'
    <3>1. req'[r].at # "failed" /\ alone
      BY <1>4, <2>5 DEF Observe
    <3> QED BY <1>1, <1>4, <2>2, <2>5, <3>1, HandlerLeaves DEF AloneInv
  <2>6. ASSUME alone' PROVE \A q \in InFlight' : q = r
    BY <1>4, <2>2, <2>6 DEF Observe, AloneInv
  <2>7. ASSUME alone', Idle'
        PROVE  (LeftBehind' \/ objects' \subseteq {report'}) /\ Agrees'
    <3>1. req'[r].at \in {"idle"} \cup Outcomes
      BY <2>7 DEF Idle, InFlight
    <3>2. Leaves(r)'
      BY <2>5, <2>7, <3>1 DEF Outcomes
    <3>3. InHand(r)' = {} /\ ~ HasAttached(r)' /\ ~ HasRemoved(r)'
      BY <3>1 DEF Outcomes, InHand, HasAttached, HasRemoved
    <3> QED BY <3>2, <3>3 DEF Leaves
  <2> QED BY <2>2, <2>3, <2>4, <2>5, <2>6, <2>7 DEF AloneInv
<1>5. CASE UNCHANGED vars
  BY <1>5 DEF vars, AloneInv, Intends, InFlight, Leaves, InHand, HasAttached, HasRemoved,
     HasTaken, LeftBehind, At, Agrees, NeverSetByHand, Idle
<1>6. CASE Seal /\ Observe
  <2>1. /\ req' = req /\ UNCHANGED <<token, status, report, objects>>
        /\ alone' => alone
    BY <1>6 DEF Seal, Observe
  <2> QED BY <2>1 DEF AloneInv, Intends, InFlight, Leaves, InHand, HasAttached, HasRemoved,
                  HasTaken, LeftBehind, At, Agrees, NeverSetByHand, Idle
<1> QED BY <1>1, <1>2, <1>3, <1>4, <1>5, <1>6, ArrivalStarts DEF Next

LEMMA AlwaysAlone == Spec => []AloneInv
<1>1. Spec => [](IInv /\ AloneInv)
  BY InitInvariant, InitAlone, StepInvariant, StepAlone, PTL DEF Spec
<1> QED BY <1>1, PTL

\* After requests that neither overlapped nor failed the receipt says completed exactly
\* if there is a report, unless an admin has set the status by hand.
THEOREM StatusesFollow == Spec => []StatusFollowsReport
<1>1. AloneInv => StatusFollowsReport
  BY DEF AloneInv, StatusFollowsReport, Agrees, NeverSetByHand
<1> QED BY <1>1, AlwaysAlone, PTL

\* The store then holds the attached report and no other, unless the page was deleted
\* without its files.
THEOREM NoReportIsForgotten == Spec => []OnlyTheReportIsKept
<1>1. AloneInv => OnlyTheReportIsKept
  BY DEF AloneInv, OnlyTheReportIsKept, LeftBehind
<1> QED BY <1>1, AlwaysAlone, PTL
=============================================================================
