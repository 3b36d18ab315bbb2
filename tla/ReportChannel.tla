---------------------------- MODULE ReportChannel ----------------------------
(***************************************************************************)
(* The way back to the sender: the admin attaches a report to a submission,*)
(* the receipt shows a status, and whoever holds the receipt token gets    *)
(* the report.  One submission id of one page, which may be deleted and    *)
(* begun again under a new envelope and a new token, until the page itself *)
(* is deleted.  A step is one transaction or statement, or one call of the *)
(* object store; a report's object is named by the request that wrote it.  *)
(* The files of the submission are in Intake; what becomes of a page's id  *)
(* afterwards is in PageLifecycle.                                         *)
(***************************************************************************)
EXTENDS Naturals, FiniteSets

CONSTANTS
    Requests,     \* HTTP requests, each served once
    Menu,         \* the operations that arrive in this instance
    Statuses,     \* the receipt statuses an admin sets by hand
    MaxTokens,    \* bound: how often the submission is begun
    MaxInFlight,  \* bound: requests served at the same time
    Abortable,    \* requests that may be cut
    NoKey

\* The last two: DELETE /pages/{id} without and with files=1.
Ops == {"attach", "remove", "setStatus", "deleteSubmission", "download",
        "deletePage", "deletePageAndFiles"}

ASSUME BoundAssumption == MaxTokens \in Nat /\ MaxInFlight \in Nat
ASSUME NoKeyAssumption == NoKey \notin Requests
ASSUME MenuAssumption == Menu \subseteq Ops /\ Abortable \subseteq Requests
ASSUME StatusAssumption ==
    Statuses \subseteq {"received", "reviewed", "rejected", "downloaded", "completed"}

VARIABLES
    page,     \* "open", "sealed" or "gone"
    token,    \* the envelope's receipt token, 0 when there is no envelope
    issued,   \* history: the tokens drawn so far
    status,   \* the envelope's receipt_status, "received" when there is none
    report,   \* the s3_key of the envelope's row in reports
    objects,  \* the report objects in the store
    events,   \* custody events: their type and the request that left them
    req,      \* the state of each request's handler
    alone     \* history: no two requests have overlapped and none has failed

vars == <<page, token, issued, status, report, objects, events, req, alone>>

Tokens == 1..MaxTokens
Keys == Requests \cup {NoKey}
EventTypes == {"report.uploaded", "report.deleted", "report.downloaded",
               "receipt.status_updated", "submission.deleted"}
Event == [type : EventTypes, by : Requests]
Outcomes == {"ok", "refused", "failed"}
Steps == {"idle", "store", "put", "reread", "replace", "cleanup", "flip", "log",
          "tx", "object", "stream", "list", "recheck", "drop"} \cup Outcomes

\* token: the envelope the handler found; linked: the envelope its event links
\* to; key: the report object it handles; old: the object of the report it
\* replaced; to: the status it will write.
Handler == [op : Ops \cup {"idle"}, at : Steps, token : {0} \cup Tokens,
            linked : {0} \cup Tokens, key : Keys, old : Keys,
            to : Statuses \cup {"received", "completed"}]

IdleHandler == [op |-> "idle", at |-> "idle", token |-> 0, linked |-> 0,
                key |-> NoKey, old |-> NoKey, to |-> "received"]

Init ==
    /\ page = "open"
    /\ token = 0
    /\ issued = 0
    /\ status = "received"
    /\ report = NoKey
    /\ objects = {}
    /\ events = {}
    /\ req = [r \in Requests |-> IdleHandler]
    /\ alone = TRUE

-----------------------------------------------------------------------------
InFlight == {r \in Requests : req[r].at \notin {"idle"} \cup Outcomes}

Begin(r, handler) ==
    /\ handler.op \in Menu
    /\ Cardinality(InFlight) < MaxInFlight
    /\ req[r].at = "idle"
    /\ req' = [req EXCEPT ![r] = handler]

At(r, op, step) == req[r].op = op /\ req[r].at = step

Goto(r, step) == req' = [req EXCEPT ![r].at = step]

-----------------------------------------------------------------------------
\* The sender's first file of the submission: a new envelope with a new token
\* (CreateUpload; its files are in Intake).  A sender who was let in before a
\* seal may be recorded after it.
Submit ==
    /\ page # "gone"
    /\ token = 0
    /\ issued < MaxTokens
    /\ issued' = issued + 1
    /\ token' = issued + 1
    /\ status' = "received"
    /\ UNCHANGED <<page, report, objects, events, req>>

-----------------------------------------------------------------------------
\* POST /submissions/{id}/report: write the object; PutReport, a transaction
\* and then a read of the row; delete the replaced object; flip the status;
\* record report.uploaded.

AttachRead(r) ==
    /\ page # "gone"
    /\ Begin(r, [IdleHandler EXCEPT !.op = "attach", !.at = "store",
                                 !.to = "completed"])
    /\ UNCHANGED <<page, token, issued, status, report, objects, events>>

AttachStore(r) ==
    /\ At(r, "attach", "store")
    /\ objects' = objects \cup {r}
    /\ Goto(r, "put")
    /\ UNCHANGED <<page, token, issued, status, report, events>>

AttachPut(r) ==
    /\ At(r, "attach", "put")
    /\ token # 0
    /\ report' = r
    /\ req' = [req EXCEPT ![r].at = "reread", ![r].token = token,
                          ![r].old = report]
    /\ UNCHANGED <<page, token, issued, status, objects, events>>

\* The read goes by the envelope's row id, which a later envelope may have
\* taken over.
AttachReread(r) ==
    /\ At(r, "attach", "reread")
    /\ report # NoKey
    /\ token # 0
    /\ req' = [req EXCEPT ![r].key = report,
                          ![r].at = IF req[r].old = NoKey THEN "flip" ELSE "replace"]
    /\ UNCHANGED <<page, token, issued, status, report, objects, events>>

\* PutReport's error, whichever of its two halves it comes from: there is no
\* such submission, the row is gone when it is read back, or the call fails.
AttachFails(r) ==
    /\ \/ At(r, "attach", "put") /\ (token = 0 \/ r \in Abortable)
       \/ /\ At(r, "attach", "reread")
          /\ report = NoKey \/ req[r].token # token \/ r \in Abortable
    /\ Goto(r, "cleanup")
    /\ UNCHANGED <<page, token, issued, status, report, objects, events>>

AttachCleanup(r) ==
    /\ At(r, "attach", "cleanup")
    /\ objects' = objects \ {r}
    /\ Goto(r, "failed")
    /\ UNCHANGED <<page, token, issued, status, report, events>>

\* Mutants: the handler deletes the object of the report it read back, or none.
AttachReplaceWrong(r) ==
    /\ At(r, "attach", "replace")
    /\ objects' = objects \ {req[r].key}
    /\ Goto(r, "flip")
    /\ UNCHANGED <<page, token, issued, status, report, events>>
AttachReplaceNothing(r) ==
    /\ At(r, "attach", "replace")
    /\ Goto(r, "flip")
    /\ UNCHANGED <<page, token, issued, status, report, objects, events>>

AttachReplace(r) ==
    /\ At(r, "attach", "replace")
    /\ objects' = objects \ {req[r].old}
    /\ Goto(r, "flip")
    /\ UNCHANGED <<page, token, issued, status, report, events>>

-----------------------------------------------------------------------------
\* DELETE /submissions/{id}/report: the row, the object, the status, the event.

RemoveRead(r) ==
    /\ page # "gone"
    /\ Begin(r, [IdleHandler EXCEPT !.op = "remove", !.at = "tx"])
    /\ UNCHANGED <<page, token, issued, status, report, objects, events>>

\* Mutant: the object is forgotten.
RemoveTxOnly(r) ==
    /\ At(r, "remove", "tx")
    /\ IF token = 0 \/ report = NoKey
       THEN Goto(r, "refused") /\ UNCHANGED report
       ELSE /\ report' = NoKey
            /\ req' = [req EXCEPT ![r].at = "flip", ![r].key = report]
    /\ UNCHANGED <<page, token, issued, status, objects, events>>

RemoveTx(r) ==
    /\ At(r, "remove", "tx")
    /\ IF token = 0 \/ report = NoKey
       THEN Goto(r, "refused") /\ UNCHANGED report
       ELSE /\ report' = NoKey
            /\ req' = [req EXCEPT ![r].at = "object", ![r].key = report]
    /\ UNCHANGED <<page, token, issued, status, objects, events>>

-----------------------------------------------------------------------------
\* DELETE /submissions/{id}: the envelope takes its report row along.

DeleteSubmissionRead(r) ==
    /\ page # "gone"
    /\ Begin(r, [IdleHandler EXCEPT !.op = "deleteSubmission", !.at = "tx"])
    /\ UNCHANGED <<page, token, issued, status, report, objects, events>>

\* Mutant: the report row does not go with its envelope, and the next envelope
\* of that row id finds it.
ReportAfterDeleteKept == report

ReportAfterDelete == NoKey

DeleteSubmissionTx(r) ==
    /\ At(r, "deleteSubmission", "tx")
    /\ IF token = 0
       THEN Goto(r, "refused") /\ UNCHANGED <<token, status, report>>
       ELSE /\ token' = 0
            /\ status' = "received"
            /\ report' = ReportAfterDelete
            /\ req' = [req EXCEPT ![r].key = report,
                          ![r].at = IF report = NoKey THEN "log" ELSE "object"]
    /\ UNCHANGED <<page, issued, objects, events>>

-----------------------------------------------------------------------------
\* DELETE /pages/{id}, with files=1 the report's object first: read the page,
\* list the keys, delete the object, read the page again, delete its row.

DeletePageRead(r, op) ==
    /\ page = "open"
    /\ Begin(r, [IdleHandler EXCEPT !.op = op,
                   !.at = IF op = "deletePageAndFiles" THEN "list" ELSE "recheck"])
    /\ UNCHANGED <<page, token, issued, status, report, objects, events>>

\* ListReportKeys, of this submission.
DeletePageList(r) ==
    /\ At(r, "deletePageAndFiles", "list")
    /\ req' = [req EXCEPT ![r].key = report,
                          ![r].at = IF report = NoKey THEN "recheck" ELSE "object"]
    /\ UNCHANGED <<page, token, issued, status, report, objects, events>>

DeletePageRecheck(r) ==
    /\ req[r].at = "recheck"
    /\ Goto(r, IF page = "open" THEN "drop" ELSE "refused")
    /\ UNCHANGED <<page, token, issued, status, report, objects, events>>

\* The row by its id alone; envelopes, reports and events cascade.
DeletePageDrop(r) ==
    /\ req[r].at = "drop"
    /\ Goto(r, IF page = "gone" THEN "refused" ELSE "ok")
    /\ page' = "gone"
    /\ token' = 0
    /\ status' = "received"
    /\ report' = NoKey
    /\ events' = {}
    /\ UNCHANGED <<issued, objects>>

-----------------------------------------------------------------------------
\* blobs.Delete, in all three deletes.
DeleteObject(r) ==
    /\ req[r].at = "object"
    /\ objects' = objects \ {req[r].key}
    /\ Goto(r, CASE req[r].op = "remove"           -> "flip"
                 [] req[r].op = "deleteSubmission" -> "log"
                 [] OTHER                          -> "recheck")
    /\ UNCHANGED <<page, token, issued, status, report, events>>

-----------------------------------------------------------------------------
\* PATCH /submissions/{id}/receipt, and what the three have in common:
\* UpdateReceiptStatus by page and submission id, then the event.

SetStatusBegin(r, to) ==
    /\ Begin(r, [IdleHandler EXCEPT !.op = "setStatus", !.at = "flip", !.to = to])
    /\ UNCHANGED <<page, token, issued, status, report, objects, events>>

\* Mutant: removing the report leaves the status to the admin.
StatusAfterKept(r) == IF req[r].op = "remove" THEN status ELSE req[r].to

StatusAfter(r) == req[r].to

FlipStatus(r) ==
    /\ req[r].at = "flip"
    /\ IF token = 0
       THEN Goto(r, "failed") /\ UNCHANGED status
       ELSE /\ status' = StatusAfter(r)
            /\ req' = [req EXCEPT ![r].at = "log", ![r].linked = token]
    /\ UNCHANGED <<page, token, issued, report, objects, events>>

-----------------------------------------------------------------------------
\* GET /r/{token}/report: the row by the token alone, the object, the event.

ReportOf(t) == IF t = token THEN report ELSE NoKey

DownloadRead(r, t) ==
    /\ ReportOf(t) # NoKey
    /\ Begin(r, [IdleHandler EXCEPT !.op = "download", !.at = "stream",
                                    !.token = t, !.linked = t,
                                    !.key = ReportOf(t)])
    /\ UNCHANGED <<page, token, issued, status, report, objects, events>>

DownloadStream(r) ==
    /\ At(r, "download", "stream")
    /\ Goto(r, IF req[r].key \in objects THEN "log" ELSE "refused")
    /\ UNCHANGED <<page, token, issued, status, report, objects, events>>

-----------------------------------------------------------------------------
\* The events link to the envelope's row id and are refused when it is gone (a
\* later envelope may have taken it); submission.deleted links to none.  All are
\* refused when the page is gone.  The download alone only logs the refusal.
EventOf(r) ==
    CASE req[r].op = "attach"    -> "report.uploaded"
      [] req[r].op = "remove"    -> "report.deleted"
      [] req[r].op = "setStatus" -> "receipt.status_updated"
      [] req[r].op = "download"  -> "report.downloaded"
      [] OTHER                   -> "submission.deleted"

RecordEvent(r) ==
    /\ req[r].at = "log"
    /\ page # "gone"
    /\ req[r].op = "deleteSubmission" \/ token # 0
    /\ events' = events \cup {[type |-> EventOf(r), by |-> r]}
    /\ Goto(r, "ok")
    /\ UNCHANGED <<page, token, issued, status, report, objects>>

EventRefused(r) ==
    /\ req[r].at = "log"
    /\ page = "gone" \/ (req[r].op # "deleteSubmission" /\ token # req[r].linked)
    /\ Goto(r, IF req[r].op = "download" THEN "ok" ELSE "failed")
    /\ UNCHANGED <<page, token, issued, status, report, objects, events>>

\* POST /pages/{id}/seal, which no handler here waits for.
Seal ==
    /\ page = "open"
    /\ page' = "sealed"
    /\ UNCHANGED <<token, issued, status, report, objects, events, req>>

\* Any other failing call, or a crash, ends the handler where it stands.
Abort(r) ==
    /\ r \in Abortable
    /\ r \in InFlight
    /\ Goto(r, "failed")
    /\ UNCHANGED <<page, token, issued, status, report, objects, events>>

Arrival(r) ==
    \/ AttachRead(r) \/ RemoveRead(r) \/ DeleteSubmissionRead(r)
    \/ \E to \in Statuses : SetStatusBegin(r, to)
    \/ \E t \in Tokens : DownloadRead(r, t)
    \/ \E op \in {"deletePage", "deletePageAndFiles"} : DeletePageRead(r, op)

HandlerStep(r) ==
    \/ AttachStore(r) \/ AttachPut(r) \/ AttachReread(r) \/ AttachFails(r)
    \/ AttachCleanup(r) \/ AttachReplace(r)
    \/ RemoveTx(r) \/ DeleteSubmissionTx(r)
    \/ DeletePageList(r) \/ DeletePageRecheck(r) \/ DeletePageDrop(r)
    \/ DeleteObject(r)
    \/ FlipStatus(r) \/ DownloadStream(r)
    \/ RecordEvent(r) \/ EventRefused(r)

Observe ==
    alone' = /\ alone
             /\ Cardinality(InFlight') <= 1
             /\ \A r \in Requests : req'[r].at # "failed"

Next ==
    /\ Submit \/ Seal \/ \E r \in Requests : Arrival(r) \/ HandlerStep(r) \/ Abort(r)
    /\ Observe

Spec == Init /\ [][Next]_vars

-----------------------------------------------------------------------------
TypeOK ==
    /\ page \in {"open", "sealed", "gone"}
    /\ token \in {0} \cup Tokens
    /\ issued \in {0} \cup Tokens
    /\ status \in {"received", "completed"} \cup Statuses
    /\ report \in Keys
    /\ objects \subseteq Requests
    /\ events \subseteq Event
    /\ req \in [Requests -> Handler]
    /\ alone \in BOOLEAN

-----------------------------------------------------------------------------
\* What holds.

\* A receipt token only ever leads to reports that were attached while it was
\* the submission's token: a deleted submission takes its report along, so a
\* submission begun again under the same id starts without one.
TokenGetsItsOwnReports ==
    \A r \in Requests :
        req[r].op = "download" => req[req[r].key].token = req[r].token

\* r is, or was, a delete of the page that has come past the object k and has
\* not deleted the page: it is not there yet, a seal was faster, or it was cut.
PageDeleteTook(r, k) ==
    /\ req[r].op = "deletePageAndFiles" /\ req[r].key = k
    /\ req[r].at \in {"recheck", "drop", "refused", "failed"}

\* A report the receipt offers can be fetched: its object is in the store,
\* unless the request that attached it answered with an error, or a delete of
\* the whole page took it and then did not delete the page (server.go:447-454,
\* where the objects go before DeletePage can still refuse).  A page delete that
\* is answered with success leaves no such report behind.
OfferedReportExists ==
    report # NoKey =>
        \/ report \in objects
        \/ req[report].at = "failed"
        \/ \E r \in Requests : PageDeleteTook(r, report)

\* What report.deleted and submission.deleted say is gone is gone for good.
DeletionEventsTruthful ==
    \A e \in events :
        e.type \in {"report.deleted", "submission.deleted"}
        => req[e.by].key \notin objects

Idle == InFlight = {}

\* "set automatically when a report is attached and reverted to received when
\* it is removed" (store.go:53): after any series of requests that neither
\* overlapped nor failed the receipt says completed exactly if a report is
\* attached, as long as no admin sets the status by hand.  (Two that overlap
\* can leave the opposite, the row and the status being written separately.)
StatusFollowsReport ==
    Idle /\ alone /\ token # 0 /\ (\A r \in Requests : req[r].op # "setStatus")
    => (status = "completed" <=> report # NoKey)

\* The store then holds the attached report and no other: replaced, removed and
\* deleted reports are gone, unless the page was deleted without its files.  (A
\* remove between the two halves of PutReport hides the replaced object from the
\* handler that has to delete it.)
OnlyTheReportIsKept ==
    Idle /\ alone =>
        objects \subseteq {report} \/ \E r \in Requests : At(r, "deletePage", "ok")

=============================================================================
