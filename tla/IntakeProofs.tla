---------------------------- MODULE IntakeProofs ----------------------------
(***************************************************************************)
(* Theorems about Intake, for any number of requests, rows and submission  *)
(* ids.                                                                    *)
(*                                                                         *)
(* An upload that was recorded is finished: nobody writes its object again *)
(* and its row's key is its own.  The keys that other handlers hold are    *)
(* those of finished uploads.  So what a handler read from a row that is   *)
(* gone by now can be out of date, but never of another upload.            *)
(***************************************************************************)
EXTENDS Intake, TLAPS

USE BoundAssumption, NullAssumption

-----------------------------------------------------------------------------
(* Types.                                                                  *)

LEMMA IdleTypes ==
    /\ IdleHandler \in Handler
    /\ IdleHandler.list = {} /\ IdleHandler.todo = {} /\ IdleHandler.row = 0
    /\ IdleHandler.sent = {}
BY DEF IdleHandler, Handler, Ops, Steps, Outcomes

LEMMA InitTypes == Init => TypeOK
BY IdleTypes DEF Init, TypeOK

\* A step of r's handler: the request keeps its operation and its submission, and
\* no other request notices.
Moves(r) ==
    /\ req' \in [Requests -> Handler]
    /\ req'[r].op = req[r].op /\ req'[r].sub = req[r].sub
    /\ \A q \in Requests \ {r} : req'[q] = req[q]

LEMMA GotoTypes ==
    ASSUME TypeOK, NEW r \in Requests, NEW step \in Steps, Goto(r, step)
    PROVE  Moves(r)
BY DEF TypeOK, Goto, Handler, Moves

LEMMA VisitTypes ==
    ASSUME TypeOK, NEW r \in Requests, NEW keys \in SUBSET Requests,
           NEW step \in Steps, NEW next \in Steps, Visit(r, keys, step, next)
    PROVE  Moves(r)
<1>1. (IF keys = {} THEN next ELSE step) \in Steps
  OBVIOUS
<1>2. req[r] \in Handler
  BY DEF TypeOK
<1> QED BY <1>1, <1>2 DEF TypeOK, Visit, Handler, Moves

LEMMA VisitedTypes ==
    ASSUME TypeOK, NEW r \in Requests, NEW k,
           NEW step \in Steps, NEW next \in Steps, Visited(r, k, step, next)
    PROVE  Moves(r)
<1>1. (IF req[r].todo = {k} THEN next ELSE step) \in Steps
  OBVIOUS
<1>2. req[r] \in Handler /\ req[r].todo \ {k} \subseteq Requests
  BY DEF TypeOK, Handler
<1> QED BY <1>1, <1>2 DEF TypeOK, Visited, Handler, Moves

LEMMA StreamedTypes ==
    ASSUME TypeOK, NEW r \in Requests, NEW k \in Requests, Streamed(r, k)
    PROVE  Moves(r)
<1>1. PICK step \in Steps :
        req' = [req EXCEPT ![r].sent = @ \cup {k}, ![r].todo = @ \ {k}, ![r].at = step]
  BY DEF TypeOK, Streamed, Handler, Steps
<1>2. req[r] \in Handler /\ req[r].todo \ {k} \subseteq Requests
      /\ req[r].sent \cup {k} \subseteq Requests
  BY DEF TypeOK, Handler
<1> QED BY <1>1, <1>2 DEF TypeOK, Handler, Moves

LEMMA RowTypes ==
    ASSUME TypeOK
    PROVE  /\ \A u \in LiveRows : uploads[u] \in Row
           /\ \A v \in LiveEnvelopes : envelopes[v] \in Envelope
           /\ Referenced \subseteq Requests
           /\ \A rows \in SUBSET LiveRows : KeysOf(rows) \subseteq Referenced
BY DEF TypeOK, LiveRows, LiveEnvelopes, Referenced, KeysOf, Row

LEMMA UnlinkTypes ==
    ASSUME TypeOK, NEW rows
    PROVE  Unlink(rows) \subseteq Event
BY DEF TypeOK, Unlink, Event

LEMMA LogTypes ==
    ASSUME TypeOK, NEW r \in Requests, NEW type \in EventTypes,
           NEW u \in RowIds \cup {0}, NEW about \in SUBSET Requests,
           Log(r, type, u, about)
    PROVE  events' \subseteq Event
BY DEF TypeOK, Log, Event

\* A handler as it begins: it holds the keys it has read, and has done nothing yet.
Fresh(h) ==
    /\ h \in Handler
    /\ h.todo = h.list /\ h.list \subseteq Referenced
    /\ h.op \in Ops /\ h.at \notin {"idle", "object", "commit", "ok"}
    /\ h.op \in {"upload", "deletePage", "deleteSubmission", "manifest"} => h.list = {}
    /\ h.op \in {"deleteFile", "deleteSubmission"} => h.at # "log"
    /\ h.op = "upload"
       => /\ page = "open" /\ h.at = "store" /\ h.sub \in Submissions
          /\ h.token = NoToken /\ h.row = 0
    /\ h.op = "deleteFile" => h.row \in LiveRows /\ h.list = {uploads[h.row].key}
    /\ h.op = "deleteFile" => h.at = "check"
    /\ h.sent = {}
    /\ h.op = "download" => h.at = "stream"
    /\ h.op = "zip" => h.at = "verify" \/ (h.at = "log" /\ h.list = {})

Begins(r) ==
    /\ req[r].at = "idle"
    /\ \E h : Fresh(h) /\ req' = [req EXCEPT ![r] = h]
    /\ UNCHANGED <<page, uploads, envelopes, events, objects>>

LEMMA BeginsWith ==
    ASSUME NEW r \in Requests, NEW op, NEW h, Fresh(h), Begin(r, op, h),
           UNCHANGED <<page, uploads, envelopes, events, objects>>
    PROVE  Begins(r)
BY DEF Begin, Begins

LEMMA ArrivalBegins ==
    ASSUME TypeOK, NEW r \in Requests, Arrival(r)
    PROVE  Begins(r)
<1> USE IdleTypes DEF Handler, Ops, Steps, Outcomes
<1>1. ASSUME NEW sub \in Submissions, UploadAdmit(r, sub) PROVE Begins(r)
  <2> DEFINE h == [IdleHandler EXCEPT !.op = "upload", !.at = "store", !.sub = sub]
  <2>1. h \in Handler /\ h.list = {} /\ h.todo = {} /\ h.sent = {}
    OBVIOUS
  <2>2. /\ h.op = "upload" /\ h.at = "store" /\ h.sub = sub
        /\ h.token = NoToken /\ h.row = 0
    BY DEF IdleHandler
  <2>3. page = "open" /\ Begin(r, "upload", h) /\ UNCHANGED <<page, uploads, envelopes, events, objects>>
    BY <1>1 DEF UploadAdmit
  <2> HIDE DEF h
  <2>4. Fresh(h)
    BY <2>1, <2>2, <2>3 DEF Fresh
  <2> QED BY <2>3, <2>4, BeginsWith
<1>2. ASSUME NEW sub \in Submissions, DeleteSubmissionRead(r, sub) PROVE Begins(r)
  <2> DEFINE h == [IdleHandler EXCEPT !.op = "deleteSubmission", !.at = "tx", !.sub = sub]
  <2>1. h \in Handler /\ h.list = {} /\ h.todo = {} /\ h.sent = {}
    OBVIOUS
  <2>2. h.op = "deleteSubmission" /\ h.at = "tx"
    OBVIOUS
  <2>3. Begin(r, "deleteSubmission", h) /\ UNCHANGED <<page, uploads, envelopes, events, objects>>
    BY <1>2 DEF DeleteSubmissionRead
  <2> HIDE DEF h
  <2>4. Fresh(h)
    BY <2>1, <2>2 DEF Fresh
  <2> QED BY <2>3, <2>4, BeginsWith
<1>3. ASSUME NEW u \in RowIds, DeleteFileRead(r, u) PROVE Begins(r)
  <2>1. uploads[u].key \in Referenced /\ uploads[u].key \in Requests
    BY <1>3, RowTypes DEF DeleteFileRead, Referenced, KeysOf
  <2> DEFINE h == [IdleHandler EXCEPT !.op = "deleteFile", !.at = "check", !.row = u,
                     !.list = {uploads[u].key}, !.todo = {uploads[u].key}]
  <2>2. h \in Handler /\ h.list = {uploads[u].key} /\ h.todo = {uploads[u].key}
        /\ h.sent = {}
    BY <2>1
  <2>3. h.op = "deleteFile" /\ h.at = "check" /\ h.row = u
    OBVIOUS
  <2>4. u \in LiveRows /\ Begin(r, "deleteFile", h) /\ UNCHANGED <<page, uploads, envelopes, events, objects>>
    BY <1>3 DEF DeleteFileRead
  <2> HIDE DEF h
  <2>5. Fresh(h)
    BY <2>1, <2>2, <2>3, <2>4 DEF Fresh
  <2> QED BY <2>4, <2>5, BeginsWith
<1>4. ASSUME NEW u \in RowIds, DownloadRead(r, u) PROVE Begins(r)
  <2>1. uploads[u].key \in Referenced /\ uploads[u].key \in Requests
    BY <1>4, RowTypes DEF DownloadRead, Referenced, KeysOf
  <2> DEFINE h == [IdleHandler EXCEPT !.op = "download", !.at = "stream", !.row = u,
                     !.list = {uploads[u].key}, !.todo = {uploads[u].key}]
  <2>2. h \in Handler /\ h.list = {uploads[u].key} /\ h.todo = {uploads[u].key}
        /\ h.sent = {}
    BY <2>1
  <2>3. h.op = "download" /\ h.at = "stream"
    OBVIOUS
  <2>4. Begin(r, "download", h) /\ UNCHANGED <<page, uploads, envelopes, events, objects>>
    BY <1>4 DEF DownloadRead
  <2> HIDE DEF h
  <2>5. Fresh(h)
    BY <2>1, <2>2, <2>3 DEF Fresh
  <2> QED BY <2>4, <2>5, BeginsWith
<1>5. ASSUME NEW files \in BOOLEAN, DeletePageRead(r, files) PROVE Begins(r)
  <2> DEFINE h == [IdleHandler EXCEPT !.op = "deletePage",
                                      !.at = IF files THEN "list" ELSE "recheck"]
  <2>1. h \in Handler /\ h.list = {} /\ h.todo = {} /\ h.sent = {}
    OBVIOUS
  <2>2. h.op = "deletePage" /\ h.at \in {"list", "recheck"}
    OBVIOUS
  <2>3. Begin(r, "deletePage", h) /\ UNCHANGED <<page, uploads, envelopes, events, objects>>
    BY <1>5 DEF DeletePageRead
  <2> HIDE DEF h
  <2>4. Fresh(h)
    BY <2>1, <2>2 DEF Fresh
  <2> QED BY <2>3, <2>4, BeginsWith
<1>6. CASE ZipList(r)
  <2> DEFINE h == [IdleHandler EXCEPT !.op = "zip", !.list = Referenced,
                     !.todo = Referenced,
                     !.at = IF Referenced = {} THEN "log" ELSE "verify"]
  <2>1. h \in Handler /\ h.list = Referenced /\ h.todo = Referenced /\ h.sent = {}
    BY RowTypes
  <2>2. h.op = "zip" /\ (h.at = "verify" \/ (h.at = "log" /\ h.list = {}))
    OBVIOUS
  <2>3. Begin(r, "zip", h) /\ UNCHANGED <<page, uploads, envelopes, events, objects>>
    BY <1>6 DEF ZipList
  <2> HIDE DEF h
  <2>4. Fresh(h)
    BY <2>1, <2>2 DEF Fresh
  <2> QED BY <2>3, <2>4, BeginsWith
<1>7. CASE ManifestRead(r)
  <2> DEFINE h == [IdleHandler EXCEPT !.op = "manifest", !.at = "log"]
  <2>1. h \in Handler /\ h.list = {} /\ h.todo = {} /\ h.sent = {} /\ h.op = "manifest" /\ h.at = "log"
    OBVIOUS
  <2>2. Begin(r, "manifest", h) /\ UNCHANGED <<page, uploads, envelopes, events, objects>>
    BY <1>7 DEF ManifestRead
  <2> HIDE DEF h
  <2>3. Fresh(h)
    BY <2>1 DEF Fresh
  <2> QED BY <2>2, <2>3, BeginsWith
<1> QED BY <1>1, <1>2, <1>3, <1>4, <1>5, <1>6, <1>7 DEF Arrival

\* An upload names its submission.
TypeInv ==
    /\ TypeOK
    /\ \A r \in Requests : req[r].op = "upload" => req[r].sub \in Submissions

\* A step of r's handler, which has begun and not ended.
Works(r) ==
    /\ req[r].at \notin {"idle"} \cup Outcomes
    /\ Moves(r)
    /\ TypeOK'

\* Where the tables of uploads and envelopes stay.
LEMMA TablesStay ==
    ASSUME TypeOK, NEW r \in Requests, Moves(r), req[r].at \notin {"idle"} \cup Outcomes,
           page' \in {"open", "sealed", "gone"}, UNCHANGED <<uploads, envelopes>>,
           events' \subseteq Event, objects' \subseteq Requests
    PROVE  Works(r)
BY DEF TypeOK, Works, Moves

LEMMA CommitTypes ==
    ASSUME TypeInv, NEW r \in Requests, UploadCommit(r)
    PROVE  Works(r)
<1>1. PICK u \in RowIds, v \in EnvIds :
        /\ EnvelopeFor(r, req[r].sub, v)
        /\ uploads' = [uploads EXCEPT ![u] = [key |-> r, env |-> v]]
        /\ Log(r, "upload.accepted", u, {r})
        /\ req' = [req EXCEPT ![r].at = "ok", ![r].row = u,
                              ![r].token = envelopes'[v].token]
  BY DEF UploadCommit
<1>2. TypeOK /\ req[r] \in Handler /\ req[r].op = "upload" /\ req[r].at = "commit"
      /\ req[r].sub \in Submissions
  BY DEF TypeInv, TypeOK, UploadCommit, At
<1>3. uploads' \in [RowIds -> Row \cup {NoRow}]
  <2>1. [key |-> r, env |-> v] \in Row
    BY DEF Row
  <2> QED BY <1>1, <1>2, <2>1 DEF TypeOK
<1>4. envelopes' \in [EnvIds -> Envelope \cup {NoEnvelope}] /\ envelopes'[v] \in Envelope
  <2>1. CASE \E w \in LiveEnvelopes : envelopes[w].sub = req[r].sub
    BY <1>1, <1>2, <2>1, RowTypes DEF EnvelopeFor, TypeOK
  <2>2. CASE ~ \E w \in LiveEnvelopes : envelopes[w].sub = req[r].sub
    <3>1. envelopes' = [envelopes EXCEPT ![v] = [sub |-> req[r].sub, token |-> r]]
      BY <1>1, <2>2 DEF EnvelopeFor
    <3> QED BY <1>2, <3>1 DEF TypeOK, Envelope
  <2> QED BY <2>1, <2>2
<1>5. Moves(r)
  <2>1. envelopes'[v].token \in Requests
    BY <1>4 DEF Envelope
  <2>2. req' = [req EXCEPT ![r] = [req[r] EXCEPT !.at = "ok", !.row = u,
                                                 !.token = envelopes'[v].token]]
    BY <1>1, <1>2 DEF TypeOK
  <2> QED BY <1>2, <2>1, <2>2 DEF TypeOK, Handler, Steps, Outcomes, Moves
<1>6. events' \subseteq Event
  BY <1>1, <1>2, LogTypes DEF EventTypes
<1> QED BY <1>2, <1>3, <1>4, <1>5, <1>6 DEF TypeOK, UploadCommit, Works, Moves, Outcomes

LEMMA DeleteSubmissionTypes ==
    ASSUME TypeOK, NEW r \in Requests, DeleteSubmissionTx(r)
    PROVE  Works(r)
<1> DEFINE found == {v \in LiveEnvelopes : envelopes[v].sub = req[r].sub}
           rows == {u \in LiveRows : uploads[u].env \in found}
<1>1. req[r].at = "tx" /\ page' = page /\ objects' = objects
  BY DEF DeleteSubmissionTx, At
<1>2. CASE found = {}
  <2>1. Goto(r, "refused") /\ UNCHANGED <<uploads, envelopes, events>>
    BY <1>2 DEF DeleteSubmissionTx
  <2> QED BY <1>1, <2>1, GotoTypes, TablesStay DEF TypeOK, Steps, Outcomes
<1>3. CASE found # {}
  <2>1. /\ uploads' = WithoutRows(rows)
        /\ envelopes' = [v \in EnvIds |-> IF v \in found THEN NoEnvelope ELSE envelopes[v]]
        /\ events' = Unlink(rows)
        /\ Visit(r, KeysOf(rows), "object", "log")
    BY <1>3 DEF DeleteSubmissionTx
  <2>2. rows \in SUBSET LiveRows
    OBVIOUS
  <2> HIDE DEF rows, found
  <2>3. KeysOf(rows) \in SUBSET Requests
    BY <2>2, RowTypes
  <2>4. Moves(r)
    BY <2>1, <2>3, VisitTypes DEF Steps
  <2> QED BY <1>1, <2>1, <2>4, UnlinkTypes DEF TypeOK, WithoutRows, Works, Moves, Outcomes
<1> QED BY <1>2, <1>3

LEMMA HandlerTypes ==
    ASSUME TypeInv, NEW r \in Requests, HandlerStep(r) \/ Abort(r)
    PROVE  Works(r)
<1> USE DEF TypeOK, At
<1> TypeOK
  BY DEF TypeInv
<1>1. req[r] \in Handler
  OBVIOUS
<1>2. CASE UploadStore(r)
  BY <1>2, GotoTypes, TablesStay DEF UploadStore, Steps, Outcomes
<1>3. CASE UploadCommit(r)
  BY <1>3, CommitTypes
<1>4. CASE UploadCommitFails(r)
  BY <1>4, GotoTypes, TablesStay DEF UploadCommitFails, Steps, Outcomes
<1>5. CASE UploadCleanup(r)
  BY <1>5, GotoTypes, TablesStay DEF UploadCleanup, Steps, Outcomes
<1>6. CASE DeleteFileCheck(r)
  <2>1. (IF page = "gone" THEN "failed" ELSE "object") \in Steps
    BY DEF Steps, Outcomes
  <2> QED BY <1>6, <2>1, GotoTypes, TablesStay DEF DeleteFileCheck, Outcomes
<1>7. CASE DeleteFileRow(r)
  <2>1. Moves(r) /\ req[r].at = "row"
    BY <1>7, GotoTypes DEF DeleteFileRow, Steps, Outcomes
  <2>2. events' \subseteq Event /\ uploads' \in [RowIds -> Row \cup {NoRow}]
    BY <1>7, UnlinkTypes DEF DeleteFileRow
  <2> QED BY <1>7, <2>1, <2>2 DEF DeleteFileRow, Works, Moves, Outcomes
<1>8. CASE DeleteSubmissionTx(r)
  BY <1>8, DeleteSubmissionTypes
<1>9. CASE DeletePageList(r)
  BY <1>9, RowTypes, VisitTypes, TablesStay DEF DeletePageList, Steps, Outcomes
<1>10. CASE DeletePageRecheck(r)
  <2>1. (IF page = "open" THEN "drop" ELSE "refused") \in Steps
    BY DEF Steps, Outcomes
  <2> QED BY <1>10, <2>1, GotoTypes, TablesStay DEF DeletePageRecheck, Outcomes
<1>11. CASE DeletePageDrop(r)
  <2>1. (IF page = "gone" THEN "refused" ELSE "ok") \in Steps
    BY DEF Steps, Outcomes
  <2>2. Moves(r) /\ req[r].at = "drop"
    BY <1>11, <2>1, GotoTypes DEF DeletePageDrop
  <2> QED BY <1>11, <2>2 DEF DeletePageDrop, Works, Moves, Outcomes
<1>12. CASE DeleteObject(r)
  <2> DEFINE next == IF req[r].op = "deletePage" THEN "recheck" ELSE "log"
  <2>1. next \in Steps
    BY DEF Steps, Outcomes
  <2>2. PICK k \in req[r].todo : objects' = objects \ {k} /\ Visited(r, k, "object", next)
    BY <1>12 DEF DeleteObject
  <2> HIDE DEF next
  <2>3. Moves(r)
    BY <2>1, <2>2, VisitedTypes DEF Steps
  <2> QED BY <1>12, <2>2, <2>3, TablesStay DEF DeleteObject, Outcomes
<1>13. CASE RecordDeletion(r)
  <2>1. Moves(r) /\ req[r].at = "log"
    BY <1>13, GotoTypes DEF RecordDeletion, Steps, Outcomes
  <2>2. events' \subseteq Event
    BY <1>1, <1>13, LogTypes DEF RecordDeletion, EventTypes, Handler
  <2> QED BY <1>13, <2>1, <2>2, TablesStay DEF RecordDeletion, Outcomes
<1>14. CASE ZipVerify(r)
  <2>1. PICK k \in req[r].todo :
          \/ Goto(r, "failed")
          \/ Visit(r, req[r].list, "write", "log")
          \/ Visited(r, k, "verify", "verify")
    BY <1>14 DEF ZipVerify
  <2>2. Moves(r)
    BY <1>1, <2>1, GotoTypes, VisitTypes, VisitedTypes DEF Steps, Outcomes, Handler
  <2> QED BY <1>14, <2>2, TablesStay DEF ZipVerify, Outcomes
<1>15. CASE Stream(r)
  <2>1. PICK k \in req[r].todo : Goto(r, "failed") \/ Streamed(r, k)
    BY <1>15 DEF Stream
  <2>2. k \in Requests
    BY <1>1 DEF Handler
  <2>3. Moves(r)
    BY <1>1, <2>1, <2>2, GotoTypes, StreamedTypes DEF Steps, Outcomes
  <2> QED BY <1>15, <2>3, TablesStay DEF Stream, Outcomes
<1>16. CASE RecordExport(r)
  <2>1. Moves(r) /\ req[r].at = "log"
    BY <1>16, GotoTypes DEF RecordExport, Steps, Outcomes
  <2>2. (IF req[r].row = 0 THEN "page.exported" ELSE "file.downloaded") \in EventTypes
    BY DEF EventTypes
  <2>3. events' \subseteq Event
    BY <1>1, <1>16, <2>2, LogTypes DEF RecordExport, Handler
  <2> QED BY <1>16, <2>1, <2>3, TablesStay DEF RecordExport, Outcomes
<1>17. CASE ManifestLog(r)
  <2>1. AfterManifest("log") = "files"
    BY DEF AfterManifest
  <2>2. Moves(r) /\ req[r].at = "log"
    BY <1>17, <2>1, GotoTypes DEF ManifestLog, Steps, Outcomes
  <2>3. events' \subseteq Event
    BY <1>17, LogTypes DEF ManifestLog, EventTypes
  <2> QED BY <1>17, <2>2, <2>3, TablesStay DEF ManifestLog, Outcomes
<1>18. CASE ManifestFiles(r)
  <2>1. AfterManifest("files") = "events"
    BY DEF AfterManifest
  <2>2. req' = [req EXCEPT ![r] = [req[r] EXCEPT !.list = Referenced, !.at = "events"]]
    BY <1>18, <2>1 DEF ManifestFiles
  <2>3. Moves(r)
    BY <1>1, <2>2, RowTypes DEF Handler, Steps, Moves
  <2> QED BY <1>18, <2>3, TablesStay DEF ManifestFiles, Outcomes
<1>19. CASE ManifestEvents(r)
  <2>1. AfterManifest("events") = "ok"
    BY DEF AfterManifest
  <2>2. req' = [req EXCEPT ![r] = [req[r] EXCEPT !.todo = AcceptedUploads, !.at = "ok"]]
    BY <1>19, <2>1 DEF ManifestEvents
  <2>3. AcceptedUploads \subseteq Requests
    BY DEF AcceptedUploads, Event
  <2>4. Moves(r)
    BY <1>1, <2>2, <2>3 DEF Handler, Steps, Outcomes, Moves
  <2> QED BY <1>19, <2>4, TablesStay DEF ManifestEvents, Outcomes
<1>20. CASE Abort(r)
  BY <1>20, GotoTypes, TablesStay DEF Abort, Steps, Outcomes
<1> QED BY <1>2, <1>3, <1>4, <1>5, <1>6, <1>7, <1>8, <1>9, <1>10, <1>11, <1>12, <1>13,
           <1>14, <1>15, <1>16, <1>17, <1>18, <1>19, <1>20 DEF HandlerStep

-----------------------------------------------------------------------------
(* Steps, as the rest of the proofs sees them.                             *)

\* An upload that was recorded and answered.
Done(k) == req[k].op = "upload" /\ req[k].at = "ok"

LEMMA Cases ==
    ASSUME TypeInv, [Next]_vars
    PROVE  \/ Seal
           \/ UNCHANGED vars
           \/ \E r \in Requests : Begins(r)
           \/ \E r \in Requests : (HandlerStep(r) \/ Abort(r)) /\ Works(r)
BY ArrivalBegins, HandlerTypes DEF Next, TypeInv

LEMMA StepTypes == TypeInv /\ [Next]_vars => TypeInv'
<1> SUFFICES ASSUME TypeInv, [Next]_vars PROVE TypeInv'
  OBVIOUS
<1>1. CASE Seal
  BY <1>1 DEF Seal, TypeInv, TypeOK
<1>2. CASE UNCHANGED vars
  BY <1>2 DEF vars, TypeInv, TypeOK
<1>3. ASSUME NEW r \in Requests, Begins(r) PROVE TypeInv'
  BY <1>3 DEF Begins, Fresh, TypeInv, TypeOK
<1>4. ASSUME NEW r \in Requests, Works(r) PROVE TypeInv'
  BY <1>4 DEF Works, Moves, TypeInv
<1> QED BY <1>1, <1>2, <1>3, <1>4, Cases

\* Nothing happens any more to the request of a recorded upload.
LEMMA DoneStays ==
    ASSUME TypeInv, [Next]_vars, NEW k \in Requests, Done(k)
    PROVE  req'[k] = req[k] /\ Done(k)'
<1>1. CASE Seal
  BY <1>1 DEF Seal, Done
<1>2. CASE UNCHANGED vars
  BY <1>2 DEF vars, Done
<1>3. ASSUME NEW r \in Requests, Begins(r) PROVE req'[k] = req[k] /\ Done(k)'
  BY <1>3 DEF Begins, Done, TypeInv, TypeOK
<1>4. ASSUME NEW r \in Requests, Works(r) PROVE req'[k] = req[k] /\ Done(k)'
  BY <1>4 DEF Works, Moves, Done, Outcomes
<1> QED BY <1>1, <1>2, <1>3, <1>4, Cases

\* Rows and envelopes are deleted, and no row is left that has lost its envelope.
Takes(rows, gone) ==
    /\ uploads' = WithoutRows(rows)
    /\ envelopes' = [v \in EnvIds |-> IF v \in gone THEN NoEnvelope ELSE envelopes[v]]
    /\ events' = Unlink(rows)
    /\ \A u \in LiveRows : uploads[u].env \in gone => u \in rows

Drops ==
    /\ uploads' = [u \in RowIds |-> NoRow]
    /\ envelopes' = [v \in EnvIds |-> NoEnvelope]
    /\ events' = {}

\* r records something other than an upload.
Notes(r, e) ==
    /\ e.type # "upload.accepted" /\ e.upload \in LiveRows \cup {0}
    /\ e.about \in {{}, req[r].list}
    /\ e.type \in {"file.deleted", "submission.deleted"}
       => req[r].op \in {"deleteFile", "deleteSubmission"} /\ req[r].at = "log"
    /\ events' = events \cup {e}
    /\ UNCHANGED <<uploads, envelopes>>

TablesKept == UNCHANGED <<uploads, envelopes, events>>

LEMMA TableEffects ==
    ASSUME TypeInv, NEW r \in Requests, HandlerStep(r) \/ Abort(r)
    PROVE  \/ UploadCommit(r)
           \/ \E rows, gone : Takes(rows, gone)
           \/ Drops
           \/ \E e : Notes(r, e)
           \/ TablesKept
<1>1. CASE DeleteFileRow(r)
  <2>1. CASE req[r].row \in LiveRows
    <3>1. uploads' = WithoutRows({req[r].row}) /\ events' = Unlink({req[r].row})
      BY <1>1, <2>1 DEF DeleteFileRow, WithoutRows, TypeInv, TypeOK
    <3>2. envelopes' = [v \in EnvIds |-> IF v \in {} THEN NoEnvelope ELSE envelopes[v]]
      BY <1>1 DEF DeleteFileRow, TypeInv, TypeOK
    <3>3. Takes({req[r].row}, {})
      BY <3>1, <3>2 DEF Takes
    <3> QED BY <3>3
  <2>2. CASE req[r].row \notin LiveRows
    BY <1>1, <2>2 DEF DeleteFileRow, TablesKept
  <2> QED BY <2>1, <2>2
<1>2. CASE DeleteSubmissionTx(r)
  <2> DEFINE found == {v \in LiveEnvelopes : envelopes[v].sub = req[r].sub}
             rows == {u \in LiveRows : uploads[u].env \in found}
  <2>1. CASE found = {}
    BY <1>2, <2>1 DEF DeleteSubmissionTx, TablesKept
  <2>2. CASE found # {}
    <3>1. Takes(rows, found)
      BY <1>2, <2>2 DEF DeleteSubmissionTx, Takes
    <3> QED BY <3>1
  <2> QED BY <2>1, <2>2
<1>3. CASE DeletePageDrop(r)
  BY <1>3 DEF DeletePageDrop, Drops
<1>4. CASE RecordDeletion(r)
  <2>1. CASE Log(r, "file.deleted", req[r].row, req[r].list)
             /\ req[r].row \in LiveRows \cup {0} /\ req[r].op = "deleteFile"
    <3>1. Notes(r, [type |-> "file.deleted", by |-> r, upload |-> req[r].row,
                    about |-> req[r].list])
      BY <1>4, <2>1 DEF RecordDeletion, Log, Notes, At
    <3> QED BY <3>1
  <2>2. CASE Log(r, "submission.deleted", 0, req[r].list) /\ req[r].op # "deleteFile"
    <3>1. Notes(r, [type |-> "submission.deleted", by |-> r, upload |-> 0,
                    about |-> req[r].list])
      BY <1>4, <2>2 DEF RecordDeletion, Log, Notes, At
    <3> QED BY <3>1
  <2>3. CASE UNCHANGED events
    BY <1>4, <2>3 DEF RecordDeletion, TablesKept
  <2> QED BY <1>4, <2>1, <2>2, <2>3 DEF RecordDeletion
<1>5. CASE RecordExport(r)
  <2> DEFINE type == IF req[r].row = 0 THEN "page.exported" ELSE "file.downloaded"
  <2>1. CASE Log(r, type, req[r].row, req[r].list) /\ req[r].row \in LiveRows \cup {0}
    <3>1. Notes(r, [type |-> type, by |-> r, upload |-> req[r].row,
                    about |-> req[r].list])
      BY <1>5, <2>1 DEF RecordExport, Log, Notes
    <3> QED BY <3>1
  <2>2. CASE UNCHANGED events
    BY <1>5, <2>2 DEF RecordExport, TablesKept
  <2> QED BY <1>5, <2>1, <2>2 DEF RecordExport
<1>6. CASE ManifestLog(r)
  <2>1. CASE Log(r, "page.exported", 0, {})
    <3>1. Notes(r, [type |-> "page.exported", by |-> r, upload |-> 0, about |-> {}])
      BY <1>6, <2>1 DEF ManifestLog, Log, Notes
    <3> QED BY <3>1
  <2>2. CASE UNCHANGED events
    BY <1>6, <2>2 DEF ManifestLog, TablesKept
  <2> QED BY <1>6, <2>1, <2>2 DEF ManifestLog
<1>7. CASE UploadCommit(r)
  BY <1>7
<1>8. CASE UNCHANGED <<uploads, envelopes, events>>
  BY <1>8 DEF TablesKept
<1> QED
  BY <1>1, <1>2, <1>3, <1>4, <1>5, <1>6, <1>7, <1>8
  DEF HandlerStep, Abort, UploadStore, UploadCommitFails, UploadCleanup, DeleteFileCheck,
      DeletePageList, DeletePageRecheck, DeleteObject, ZipVerify, Stream, ManifestFiles,
      ManifestEvents

-----------------------------------------------------------------------------
(* The inductive invariant.                                                *)

\* The rows: their keys are recorded uploads, each once.
KeysAreDone ==
    /\ \A u \in LiveRows : Done(uploads[u].key)
    /\ \A u, w \in LiveRows : uploads[u].key = uploads[w].key => u = w

\* The events: a link leads to a row, and what an event is about was recorded.
EventsAreLinked ==
    \A e \in events :
        /\ e.upload # 0 => e.upload \in LiveRows
        /\ e.type = "upload.accepted" => e.about = {e.by}
        /\ \A k \in e.about : Done(k)

TablesInv ==
    KeysAreDone /\ EventsAreLinked /\ AcceptedExactlyOnce /\ ReceiptCoversUpload

Deletes == {"deleteFile", "deleteSubmission", "deletePage"}

\* The handlers: which keys they hold, and what they have done with them.
HandlerInOrder(r) ==
    /\ req[r].at = "idle" => req[r].op = "idle" /\ req[r].list = {}
    /\ req[r].at = "object" => req[r].op \in Deletes
    /\ req[r].op = "deletePage" /\ req[r].at = "list" => req[r].list = {}
    /\ req[r].op # "manifest" => req[r].todo \subseteq req[r].list
    /\ req[r].op \in {"deleteFile", "deleteSubmission"} /\ req[r].at = "log"
       => req[r].todo = {}
    /\ \A k \in req[r].list : Done(k)

HandlerAndObjects(r) ==
    /\ req[r].op = "upload" /\ req[r].at = "commit" => r \in objects
    /\ req[r].op \in Deletes => (req[r].list \ req[r].todo) \cap objects = {}

HandlerAndRows(r) ==
    /\ req[r].op = "deleteSubmission" => req[r].list \cap Referenced = {}
    /\ req[r].op = "manifest" /\ req[r].at = "ok"
       => req[r].list \cap Referenced \subseteq req[r].todo

HandlerInv(r) == HandlerInOrder(r) /\ HandlerAndObjects(r) /\ HandlerAndRows(r)

IInv ==
    /\ TypeInv
    /\ TablesInv
    /\ \A r \in Requests : HandlerInv(r)
    /\ DeletionEventsTruthful /\ MissingObjectWasDeleted

LEMMA InitHolds == Init => IInv
<1> SUFFICES ASSUME Init PROVE IInv
  OBVIOUS
<1>1. TypeInv
  BY InitTypes, IdleTypes DEF TypeInv, Init, IdleHandler
<1>2. LiveRows = {} /\ events = {} /\ \A r \in Requests : req[r] = IdleHandler
  BY DEF Init, LiveRows
<1>3. TablesInv /\ DeletionEventsTruthful /\ MissingObjectWasDeleted
  BY <1>2 DEF TablesInv, KeysAreDone, EventsAreLinked, AcceptedExactlyOnce,
              ReceiptCoversUpload, DeletionEventsTruthful, MissingObjectWasDeleted
<1>4. ASSUME NEW r \in Requests PROVE HandlerInv(r)
  BY <1>2, IdleTypes
  DEF HandlerInv, HandlerInOrder, HandlerAndObjects, HandlerAndRows, IdleHandler, Deletes
<1> QED BY <1>1, <1>3, <1>4 DEF IInv

-----------------------------------------------------------------------------
(* The tables.                                                             *)

\* r's upload is recorded as row u under envelope v.
Records(r, u, v) ==
    /\ u \in RowIds \ LiveRows /\ LiveRows' = LiveRows \cup {u}
    /\ uploads'[u] = [key |-> r, env |-> v]
    /\ \A w \in LiveRows : uploads'[w] = uploads[w]
    /\ LiveEnvelopes' = LiveEnvelopes \cup {v}
    /\ \A w \in LiveEnvelopes : envelopes'[w] = envelopes[w]
    /\ envelopes'[v].sub = req[r].sub
    /\ events' = events \cup
         {[type |-> "upload.accepted", by |-> r, upload |-> u, about |-> {r}]}
    /\ req[r].op = "upload" /\ req[r].at = "commit" /\ Done(r)'
    /\ req'[r].sub = req[r].sub /\ req'[r].token = envelopes'[v].token
    /\ req'[r].list = req[r].list /\ req'[r].todo = req[r].todo /\ req'[r].row = u

LEMMA CommitRecords ==
    ASSUME TypeInv, NEW r \in Requests, UploadCommit(r)
    PROVE  \E u, v : Records(r, u, v)
<1>1. PICK u \in RowIds, v \in EnvIds :
        /\ IsNext(u, LiveRows)
        /\ EnvelopeFor(r, req[r].sub, v)
        /\ uploads' = [uploads EXCEPT ![u] = [key |-> r, env |-> v]]
        /\ Log(r, "upload.accepted", u, {r})
        /\ req' = [req EXCEPT ![r].at = "ok", ![r].row = u,
                              ![r].token = envelopes'[v].token]
  BY DEF UploadCommit
<1>2. TypeOK /\ req[r] \in Handler /\ req[r].op = "upload" /\ req[r].at = "commit"
      /\ req[r].sub \in Submissions
  BY DEF TypeInv, TypeOK, UploadCommit, At
<1>3. u \notin LiveRows
  BY <1>1 DEF IsNext, RowIds
<1>4. [key |-> r, env |-> v] \in Row
  BY DEF Row
<1>5. /\ LiveRows' = LiveRows \cup {u} /\ uploads'[u] = [key |-> r, env |-> v]
      /\ \A w \in LiveRows : uploads'[w] = uploads[w]
  BY <1>1, <1>2, <1>3, <1>4 DEF TypeOK, LiveRows
<1>6. /\ LiveEnvelopes' = LiveEnvelopes \cup {v}
      /\ \A w \in LiveEnvelopes : envelopes'[w] = envelopes[w]
      /\ envelopes'[v].sub = req[r].sub
  <2>1. CASE \E w \in LiveEnvelopes : envelopes[w].sub = req[r].sub
    BY <1>1, <2>1 DEF EnvelopeFor, LiveEnvelopes
  <2>2. CASE ~ \E w \in LiveEnvelopes : envelopes[w].sub = req[r].sub
    <3>1. /\ envelopes' = [envelopes EXCEPT ![v] = [sub |-> req[r].sub, token |-> r]]
          /\ IsNext(v, LiveEnvelopes)
      BY <1>1, <2>2 DEF EnvelopeFor
    <3>2. v \notin LiveEnvelopes
      BY <3>1 DEF IsNext, EnvIds
    <3>3. [sub |-> req[r].sub, token |-> r] \in Envelope
      BY <1>2 DEF Envelope
    <3> QED BY <1>2, <3>1, <3>2, <3>3 DEF TypeOK, LiveEnvelopes
  <2> QED BY <2>1, <2>2
<1>7. /\ req'[r].op = "upload" /\ req'[r].at = "ok"
      /\ req'[r].sub = req[r].sub /\ req'[r].token = envelopes'[v].token
      /\ req'[r].list = req[r].list /\ req'[r].todo = req[r].todo /\ req'[r].row = u
  <2>1. req' = [req EXCEPT ![r] = [req[r] EXCEPT !.at = "ok", !.row = u,
                                                 !.token = envelopes'[v].token]]
    BY <1>1, <1>2 DEF TypeOK
  <2> QED BY <1>2, <2>1 DEF TypeOK, Handler
<1>8. Records(r, u, v)
  BY <1>1, <1>2, <1>3, <1>5, <1>6, <1>7 DEF Records, Log, Done
<1> QED BY <1>8

\* What Unlink leaves: the links to other rows, and what each event tells.
LEMMA UnlinkEvents ==
    ASSUME TypeOK, NEW rows
    PROVE  /\ \A e \in events : e.upload \notin rows => e \in Unlink(rows)
           /\ \A f \in Unlink(rows) :
                \E e \in events :
                   /\ f.type = e.type /\ f.by = e.by /\ f.about = e.about
                   /\ f.upload # 0 => f = e /\ e.upload \notin rows
<1>1. ASSUME NEW e \in events
      PROVE  LET f == [e EXCEPT !.upload = IF @ \in rows THEN 0 ELSE @] IN
             /\ f.type = e.type /\ f.by = e.by /\ f.about = e.about
             /\ f.upload = IF e.upload \in rows THEN 0 ELSE e.upload
             /\ e.upload \notin rows => f = e
  <2>1. e \in Event
    BY DEF TypeOK
  <2> QED BY <2>1 DEF Event
<1>2. ASSUME NEW e \in events, e.upload \notin rows PROVE e \in Unlink(rows)
  BY <1>1, <1>2 DEF Unlink
<1>3. ASSUME NEW f \in Unlink(rows)
      PROVE  \E e \in events :
                /\ f.type = e.type /\ f.by = e.by /\ f.about = e.about
                /\ f.upload # 0 => f = e /\ e.upload \notin rows
  <2>1. PICK e \in events : f = [e EXCEPT !.upload = IF @ \in rows THEN 0 ELSE @]
    BY DEF Unlink
  <2> QED BY <1>1, <2>1
<1> QED BY <1>2, <1>3

LEMMA TakesRows ==
    ASSUME TypeOK, NEW rows, NEW gone, Takes(rows, gone)
    PROVE  /\ LiveRows' = LiveRows \ rows
           /\ \A u \in LiveRows' : uploads'[u] = uploads[u]
           /\ \A v \in LiveEnvelopes \ gone :
                v \in LiveEnvelopes' /\ envelopes'[v] = envelopes[v]
BY DEF TypeOK, Takes, WithoutRows, LiveRows, LiveEnvelopes


\* The requests of recorded uploads are left alone.
Settled == \A k \in Requests : Done(k) => req'[k] = req[k] /\ Done(k)'

LEMMA KeptKeepsTables ==
    ASSUME TypeInv, TablesInv, Settled, UNCHANGED <<uploads, envelopes>>,
           events' \subseteq Event, events \subseteq events',
           \A e \in events' \ events : /\ e.type # "upload.accepted"
                                       /\ e.upload \in LiveRows \cup {0}
                                       /\ \A k \in e.about : Done(k)
    PROVE  TablesInv'
<1>1. LiveRows' = LiveRows /\ LiveEnvelopes' = LiveEnvelopes
  BY DEF LiveRows, LiveEnvelopes
<1>2. \A u \in LiveRows : uploads[u].key \in Requests /\ Done(uploads[u].key)
  BY RowTypes DEF TypeInv, TablesInv, KeysAreDone, Row
<1>3. KeysAreDone'
  BY <1>1, <1>2 DEF Settled, KeysAreDone, TablesInv
<1>4. EventsAreLinked'
  BY <1>1 DEF Settled, EventsAreLinked, TablesInv, Event
<1>5. AcceptedExactlyOnce'
  <2>1. \A e \in events' : e.type = "upload.accepted" => e \in events
    OBVIOUS
  <2> QED BY <1>1, <2>1 DEF AcceptedExactlyOnce, TablesInv
<1>6. ReceiptCoversUpload'
  BY <1>1, <1>2 DEF Settled, ReceiptCoversUpload, TablesInv
<1> QED BY <1>3, <1>4, <1>5, <1>6 DEF TablesInv

LEMMA RecordsKeepsTables ==
    ASSUME TypeInv, TablesInv, Settled, TypeInv',
           NEW r \in Requests, NEW u, NEW v, Records(r, u, v)
    PROVE  TablesInv'
<1>1. \A w \in LiveRows : uploads[w].key \in Requests /\ Done(uploads[w].key)
  BY RowTypes DEF TypeInv, TablesInv, KeysAreDone, Row
<1>2. /\ ~ Done(r) /\ Done(r)' /\ u \notin LiveRows /\ u # 0
      /\ uploads'[u].key = r /\ uploads'[u].env = v
      /\ LiveRows' = LiveRows \cup {u} /\ \A w \in LiveRows : uploads'[w] = uploads[w]
  BY DEF Records, Done, RowIds
<1>3. KeysAreDone'
  BY <1>1, <1>2 DEF Settled, KeysAreDone, TablesInv
<1> DEFINE new == [type |-> "upload.accepted", by |-> r, upload |-> u, about |-> {r}]
<1>4. /\ events' = events \cup {new}
      /\ new.type = "upload.accepted" /\ new.by = r /\ new.upload = u /\ new.about = {r}
  BY DEF Records
<1> HIDE DEF new
<1>5. EventsAreLinked'
  <2>1. ASSUME NEW e \in events PROVE e.about \subseteq Requests
    BY DEF TypeInv, TypeOK, Event
  <2> QED BY <1>2, <1>4, <2>1 DEF Settled, EventsAreLinked, TablesInv
<1>6. AcceptedExactlyOnce'
  <2>1. \A e \in events : e.upload # u
    BY <1>2 DEF EventsAreLinked, TablesInv
  <2>2. ASSUME NEW w \in LiveRows
        PROVE  \E e \in events' :
                 /\ e.type = "upload.accepted" /\ e.upload = w /\ e.by = uploads'[w].key
                 /\ \A f \in events' : f.type = "upload.accepted" /\ f.upload = w => f = e
    <3>1. PICK e \in events :
            /\ e.type = "upload.accepted" /\ e.upload = w /\ e.by = uploads[w].key
            /\ \A f \in events : f.type = "upload.accepted" /\ f.upload = w => f = e
      BY <2>2 DEF AcceptedExactlyOnce, TablesInv
    <3> QED BY <1>2, <1>4, <3>1
  <2>3. /\ new \in events' /\ new.type = "upload.accepted" /\ new.upload = u
        /\ new.by = uploads'[u].key
        /\ \A f \in events' : f.type = "upload.accepted" /\ f.upload = u => f = new
    BY <1>2, <1>4, <2>1
  <2> QED BY <1>2, <2>2, <2>3 DEF AcceptedExactlyOnce
<1>7. ReceiptCoversUpload'
  <2>1. /\ LiveEnvelopes' = LiveEnvelopes \cup {v}
        /\ \A w \in LiveEnvelopes : envelopes'[w] = envelopes[w]
        /\ envelopes'[v].sub = req'[r].sub /\ envelopes'[v].token = req'[r].token
    BY DEF Records
  <2> QED BY <1>1, <1>2, <2>1 DEF Settled, ReceiptCoversUpload, TablesInv
<1> QED BY <1>3, <1>5, <1>6, <1>7 DEF TablesInv

LEMMA TakesKeepsTables ==
    ASSUME TypeInv, TablesInv, Settled, NEW rows, NEW gone, Takes(rows, gone)
    PROVE  TablesInv'
<1>1. /\ LiveRows' = LiveRows \ rows
      /\ \A u \in LiveRows' : uploads'[u] = uploads[u]
      /\ \A v \in LiveEnvelopes \ gone : v \in LiveEnvelopes' /\ envelopes'[v] = envelopes[v]
  BY TakesRows DEF TypeInv
<1>2. \A w \in LiveRows : uploads[w].key \in Requests /\ Done(uploads[w].key)
  BY RowTypes DEF TypeInv, TablesInv, KeysAreDone, Row
<1>3. /\ \A e \in events : e.upload \notin rows => e \in events'
      /\ \A f \in events' :
           \E e \in events :
              /\ f.type = e.type /\ f.by = e.by /\ f.about = e.about
              /\ f.upload # 0 => f = e /\ e.upload \notin rows
  BY UnlinkEvents DEF Takes, TypeInv
<1>4. KeysAreDone'
  BY <1>1, <1>2 DEF Settled, KeysAreDone, TablesInv
<1>5. EventsAreLinked'
  <2> SUFFICES ASSUME NEW f \in events'
               PROVE  /\ f.upload # 0 => f.upload \in LiveRows'
                      /\ f.type = "upload.accepted" => f.about = {f.by}
                      /\ \A k \in f.about : Done(k)'
    BY DEF EventsAreLinked
  <2>1. PICK e \in events :
          /\ f.type = e.type /\ f.by = e.by /\ f.about = e.about
          /\ f.upload # 0 => f = e /\ e.upload \notin rows
    BY <1>3
  <2>2. e.about \subseteq Requests
    BY DEF TypeInv, TypeOK, Event
  <2> QED BY <1>1, <2>1, <2>2 DEF Settled, EventsAreLinked, TablesInv
<1>6. AcceptedExactlyOnce'
  <2> SUFFICES ASSUME NEW u \in LiveRows'
               PROVE  \E e \in events' :
                        /\ e.type = "upload.accepted" /\ e.upload = u
                        /\ e.by = uploads'[u].key
                        /\ \A f \in events' :
                              f.type = "upload.accepted" /\ f.upload = u => f = e
    BY DEF AcceptedExactlyOnce
  <2>1. u \in LiveRows /\ u \notin rows /\ u # 0 /\ uploads'[u] = uploads[u]
    BY <1>1 DEF LiveRows, RowIds
  <2>2. PICK e \in events :
          /\ e.type = "upload.accepted" /\ e.upload = u /\ e.by = uploads[u].key
          /\ \A f \in events : f.type = "upload.accepted" /\ f.upload = u => f = e
    BY <2>1 DEF AcceptedExactlyOnce, TablesInv
  <2>3. e \in events'
    BY <1>3, <2>1, <2>2
  <2>4. ASSUME NEW f \in events', f.type = "upload.accepted", f.upload = u PROVE f = e
    BY <1>3, <2>1, <2>2, <2>4
  <2> QED BY <2>1, <2>2, <2>3, <2>4
<1>7. ReceiptCoversUpload'
  <2>1. \A u \in LiveRows' : uploads[u].env \notin gone
    BY <1>1 DEF Takes
  <2> QED BY <1>1, <1>2, <2>1 DEF Settled, ReceiptCoversUpload, TablesInv
<1> QED BY <1>4, <1>5, <1>6, <1>7 DEF TablesInv

LEMMA DropsKeepsTables ==
    ASSUME Drops
    PROVE  LiveRows' = {} /\ TablesInv'
BY DEF Drops, LiveRows, TablesInv, KeysAreDone, EventsAreLinked, AcceptedExactlyOnce,
       ReceiptCoversUpload

LEMMA NotesKeepsTables ==
    ASSUME TypeInv, TablesInv, Settled, TypeInv', NEW r \in Requests, HandlerInOrder(r),
           NEW e, Notes(r, e)
    PROVE  TablesInv'
<1>1. UNCHANGED <<uploads, envelopes>> /\ events \subseteq events' /\ events' \subseteq Event
  BY DEF Notes, TypeInv, TypeOK
<1>2. \A f \in events' \ events : /\ f.type # "upload.accepted"
                                  /\ f.upload \in LiveRows \cup {0}
                                  /\ \A k \in f.about : Done(k)
  BY DEF Notes, HandlerInOrder
<1> QED BY <1>1, <1>2, KeptKeepsTables


LEMMA SettledStep ==
    ASSUME TypeInv, [Next]_vars
    PROVE  Settled
BY DoneStays DEF Settled

LEMMA StepKeepsTables ==
    ASSUME IInv, [Next]_vars
    PROVE  TablesInv'
<1>1. TypeInv /\ TablesInv /\ Settled /\ TypeInv'
  BY SettledStep, StepTypes DEF IInv
<1>2. CASE UNCHANGED <<uploads, envelopes, events>>
  BY <1>1, <1>2, KeptKeepsTables DEF TypeInv, TypeOK
<1>3. ASSUME NEW r \in Requests, HandlerStep(r) \/ Abort(r) PROVE TablesInv'
  <2>1. CASE UploadCommit(r)
    BY <1>1, <2>1, CommitRecords, RecordsKeepsTables
  <2>2. ASSUME NEW e, Notes(r, e) PROVE TablesInv'
    BY <1>1, <2>2, NotesKeepsTables DEF IInv, HandlerInv
  <2> QED
    BY <1>1, <1>2, <1>3, <2>1, <2>2, TableEffects, TakesKeepsTables, DropsKeepsTables
    DEF TablesKept
<1> QED BY <1>1, <1>2, <1>3, Cases DEF Seal, Begins, vars

\* What a step of r's handler does to the rows.
LEMMA RowEffects ==
    ASSUME TypeInv, NEW r \in Requests, HandlerStep(r) \/ Abort(r)
    PROVE  \A u \in LiveRows' :
              \/ u \in LiveRows /\ uploads'[u] = uploads[u]
              \/ /\ uploads'[u].key = r
                 /\ req[r].op = "upload" /\ req[r].at = "commit" /\ UNCHANGED objects
<1>1. CASE UploadCommit(r)
  <2>1. PICK u, v : Records(r, u, v)
    BY <1>1, CommitRecords
  <2>2. uploads'[u].key = r
    BY <2>1 DEF Records
  <2> QED BY <1>1, <2>1, <2>2 DEF Records, UploadCommit
<1>2. ASSUME NEW rows, NEW gone, Takes(rows, gone)
      PROVE  \A u \in LiveRows' : u \in LiveRows /\ uploads'[u] = uploads[u]
  BY <1>2, TakesRows DEF TypeInv
<1>3. CASE Drops
  BY <1>3, DropsKeepsTables
<1>4. CASE UNCHANGED uploads
  BY <1>4 DEF LiveRows
<1> QED BY <1>1, <1>2, <1>3, <1>4, TableEffects DEF Notes, TablesKept

\* What a step of r's handler does to the objects.
LEMMA ObjectEffects ==
    ASSUME TypeInv, NEW r \in Requests, HandlerStep(r) \/ Abort(r)
    PROVE  \/ /\ req[r].op = "upload" /\ req[r].at \in {"store", "cleanup"}
              /\ objects' \in {objects \cup {r}, objects \ {r}}
           \/ \E k \in req[r].todo :
                /\ req[r].at = "object" /\ objects' = objects \ {k}
                /\ req'[r].list = req[r].list /\ req'[r].todo = req[r].todo \ {k}
           \/ UNCHANGED objects
<1>1. CASE DeleteObject(r)
  <2> DEFINE next == IF req[r].op = "deletePage" THEN "recheck" ELSE "log"
  <2>1. PICK k \in req[r].todo : objects' = objects \ {k} /\ Visited(r, k, "object", next)
    BY <1>1 DEF DeleteObject
  <2> HIDE DEF next
  <2>2. req'[r].list = req[r].list /\ req'[r].todo = req[r].todo \ {k}
    BY <2>1 DEF Visited, TypeInv, TypeOK, Handler
  <2> QED BY <1>1, <2>1, <2>2 DEF DeleteObject
<1>2. CASE UploadStore(r) \/ UploadCleanup(r)
  BY <1>2 DEF UploadStore, UploadCleanup, At
<1>3. CASE UNCHANGED objects
  BY <1>3
<1> QED
  BY <1>1, <1>2, <1>3
  DEF HandlerStep, Abort, UploadCommit, UploadCommitFails, DeleteFileCheck, DeleteFileRow,
      DeleteSubmissionTx, DeletePageList, DeletePageRecheck, DeletePageDrop, RecordDeletion,
      ZipVerify, Stream, RecordExport, ManifestLog, ManifestFiles, ManifestEvents

\* What a step of r's handler does to the events.
LEMMA EventEffects ==
    ASSUME TypeInv, NEW r \in Requests, HandlerStep(r) \/ Abort(r)
    PROVE  \A f \in events' :
              \/ \E e \in events : f.type = e.type /\ f.about = e.about
              \/ f.type \notin {"file.deleted", "submission.deleted"}
              \/ /\ f.about \in {{}, req[r].list}
                 /\ req[r].op \in {"deleteFile", "deleteSubmission"} /\ req[r].at = "log"
<1>1. CASE UploadCommit(r)
  <2>1. PICK u, v : Records(r, u, v)
    BY <1>1, CommitRecords
  <2> QED BY <2>1 DEF Records
<1>2. ASSUME NEW rows, NEW gone, Takes(rows, gone)
      PROVE  \A f \in events' : \E e \in events : f.type = e.type /\ f.about = e.about
  BY <1>2, UnlinkEvents DEF Takes, TypeInv
<1>3. ASSUME NEW e, Notes(r, e)
      PROVE  \A f \in events' :
                \/ f \in events
                \/ f.type \notin {"file.deleted", "submission.deleted"}
                \/ /\ f.about \in {{}, req[r].list}
                   /\ req[r].op \in {"deleteFile", "deleteSubmission"} /\ req[r].at = "log"
  BY <1>3 DEF Notes
<1> QED BY <1>1, <1>2, <1>3, TableEffects DEF Drops, TablesKept

-----------------------------------------------------------------------------
(* The handlers.                                                           *)

\* What a step leaves alone, as far as a handler that holds keys goes: no object
\* of a recorded upload appears and none of another unrecorded one disappears,
\* and the keys of new rows are in nobody's hands.
Considers(r) ==
    /\ Settled
    /\ \A k \in objects' \ objects : ~ Done(k)
    /\ \A k \in objects \ objects' : Done(k) \/ k = r
    /\ \A k \in Referenced' \ Referenced : ~ Done(k)

LEMMA StepConsiders ==
    ASSUME IInv, [Next]_vars, NEW r \in Requests, HandlerStep(r) \/ Abort(r)
    PROVE  Considers(r)
<1>1. TypeInv /\ HandlerInv(r) /\ req[r] \in Handler
  BY DEF IInv, TypeInv, TypeOK
<1>2. \A k \in Referenced' \ Referenced : ~ Done(k)
  BY <1>1, RowEffects DEF Referenced, KeysOf, Done
<1>3. ASSUME NEW k \in req[r].todo, req[r].at = "object", objects' = objects \ {k}
      PROVE  Done(k)
  BY <1>1, <1>3 DEF HandlerInv, HandlerInOrder, Deletes
<1>4. (\A k \in objects' \ objects : ~ Done(k)) /\ (\A k \in objects \ objects' : Done(k) \/ k = r)
  BY <1>1, <1>3, ObjectEffects DEF Done
<1> QED BY <1>1, <1>2, <1>4, SettledStep DEF Considers

\* A handler that does not move.
LEMMA BystanderKept ==
    ASSUME TypeInv, NEW r \in Requests, Considers(r), NEW q \in Requests \ {r},
           HandlerInv(q), req'[q] = req[q]
    PROVE  HandlerInv(q)'
<1>1. req[q].list \subseteq Requests
  BY DEF TypeInv, TypeOK, Handler
<1>2. HandlerInOrder(q)'
  BY <1>1 DEF HandlerInv, HandlerInOrder, Considers, Settled
<1>3. HandlerAndObjects(q)'
  <2>1. \A k \in req[q].list : Done(k)
    BY DEF HandlerInv, HandlerInOrder
  <2>2. req[q].at = "commit" => ~ Done(q)
    BY DEF Done
  <2> QED BY <2>1, <2>2 DEF HandlerInv, HandlerAndObjects, Considers
<1>4. HandlerAndRows(q)'
  <2>1. \A k \in req[q].list : Done(k)
    BY DEF HandlerInv, HandlerInOrder
  <2> QED BY <2>1 DEF HandlerInv, HandlerAndRows, Considers
<1> QED BY <1>2, <1>3, <1>4 DEF HandlerInv

\* Nothing but the page has changed, or not even that.
LEMMA NothingKept ==
    ASSUME IInv, [Next]_vars, UNCHANGED <<uploads, envelopes, events, objects, req>>
    PROVE  IInv'
BY StepTypes, StepKeepsTables
DEF IInv, HandlerInv, HandlerInOrder, HandlerAndObjects, HandlerAndRows, Done, Deletes,
    DeletionEventsTruthful, MissingObjectWasDeleted, Referenced, KeysOf, LiveRows


\* What a delete has dealt with stays dealt with.
Progress(r) ==
    req[r].op \in {"deleteFile", "deletePage"}
    => req[r].list \ req[r].todo \subseteq req'[r].list \ req'[r].todo

\* A handler that goes on with the keys it holds.
LEMMA Advances ==
    ASSUME TypeInv, NEW r \in Requests, Considers(r), HandlerInv(r),
           req'[r].op = req[r].op, req'[r].list = req[r].list,
           req'[r].todo \subseteq req[r].todo,
           req[r].op \in Deletes => (req[r].todo \ req'[r].todo) \cap objects' = {},
           req'[r].at \notin {"idle", "list"},
           req'[r].at = "object" => req[r].op \in Deletes,
           req'[r].at = "log" /\ req[r].op \in {"deleteFile", "deleteSubmission"}
              => req'[r].todo = {},
           req'[r].at = "commit" => r \in objects',
           req'[r].at = "ok" => req[r].op # "manifest"
    PROVE  HandlerInv(r)' /\ Progress(r)
<1>1. req[r].list \subseteq Requests /\ \A k \in req[r].list : Done(k)
  BY DEF TypeInv, TypeOK, Handler, HandlerInv, HandlerInOrder
<1>2. HandlerInOrder(r)'
  BY <1>1 DEF HandlerInv, HandlerInOrder, Considers, Settled, Deletes
<1>3. HandlerAndObjects(r)'
  BY <1>1 DEF HandlerInv, HandlerAndObjects, Considers, Deletes
<1>4. HandlerAndRows(r)'
  BY <1>1 DEF HandlerInv, HandlerAndRows, Considers
<1> QED BY <1>2, <1>3, <1>4 DEF HandlerInv, Progress

LEMMA GotoAdvances ==
    ASSUME TypeInv, NEW r \in Requests, Considers(r), HandlerInv(r), NEW step, Goto(r, step),
           step \notin {"idle", "list", "log"},
           step = "object" => req[r].op \in Deletes,
           step = "commit" => r \in objects',
           step = "ok" => req[r].op # "manifest"
    PROVE  HandlerInv(r)' /\ Progress(r)
<1>1. /\ req'[r].op = req[r].op /\ req'[r].list = req[r].list
      /\ req'[r].todo = req[r].todo /\ req'[r].at = step
  BY DEF TypeInv, TypeOK, Handler, Goto
<1> QED BY <1>1, Advances

LEMMA VisitedTo ==
    ASSUME TypeInv, NEW r \in Requests, NEW k, NEW step, NEW next, Visited(r, k, step, next)
    PROVE  /\ req'[r].op = req[r].op /\ req'[r].list = req[r].list
           /\ req'[r].todo = req[r].todo \ {k}
           /\ req'[r].at = (IF req[r].todo = {k} THEN next ELSE step)
BY DEF TypeInv, TypeOK, Handler, Visited

LEMMA StreamedTo ==
    ASSUME TypeInv, NEW r \in Requests, NEW k, Streamed(r, k)
    PROVE  /\ req'[r].op = req[r].op /\ req'[r].list = req[r].list
           /\ req'[r].todo = req[r].todo \ {k}
           /\ req'[r].sent = req[r].sent \cup {k}
           /\ req'[r].at = (IF req[r].todo = {k} THEN "log" ELSE req[r].at)
BY DEF TypeInv, TypeOK, Handler, Streamed

LEMMA VisitedAdvances ==
    ASSUME TypeInv, NEW r \in Requests, Considers(r), HandlerInv(r),
           NEW k, NEW step, NEW next, Visited(r, k, step, next),
           req[r].op \in Deletes => k \notin objects',
           {step, next} \cap {"idle", "list", "commit", "ok"} = {},
           "object" \in {step, next} => req[r].op \in Deletes,
           step # "log"
    PROVE  HandlerInv(r)' /\ Progress(r)
<1>1. /\ req'[r].op = req[r].op /\ req'[r].list = req[r].list
      /\ req'[r].todo = req[r].todo \ {k}
      /\ req'[r].at = (IF req[r].todo = {k} THEN next ELSE step)
  BY VisitedTo
<1>2. req'[r].at = "log" => req'[r].todo = {}
  BY <1>1
<1> QED BY <1>1, <1>2, Advances

\* A handler that has read keys it has all still to visit.
LEMMA VisitHolds ==
    ASSUME TypeInv, NEW r \in Requests, Considers(r), HandlerInv(r),
           NEW keys, NEW step, NEW next, Visit(r, keys, step, next),
           \A k \in keys : k \in Requests /\ Done(k),
           {step, next} \cap {"idle", "list", "commit", "ok"} = {},
           "object" \in {step, next} => req[r].op \in Deletes,
           step # "log",
           req[r].op = "deleteSubmission" => keys \cap Referenced' = {}
    PROVE  HandlerInv(r)'
<1>1. /\ req'[r].op = req[r].op /\ req'[r].list = keys /\ req'[r].todo = keys
      /\ req'[r].at = (IF keys = {} THEN next ELSE step)
  BY DEF TypeInv, TypeOK, Handler, Visit
<1>2. HandlerInOrder(r)'
  BY <1>1 DEF HandlerInOrder, Considers, Settled, Deletes
<1>3. HandlerAndObjects(r)' /\ HandlerAndRows(r)'
  BY <1>1 DEF HandlerAndObjects, HandlerAndRows
<1> QED BY <1>2, <1>3 DEF HandlerInv

\* What the manifest prints as accepted covers every row.
LEMMA AcceptedCovers ==
    ASSUME TypeInv, TablesInv
    PROVE  Referenced \subseteq AcceptedUploads
<1> SUFFICES ASSUME NEW u \in LiveRows PROVE uploads[u].key \in AcceptedUploads
  BY DEF Referenced, KeysOf
<1>1. PICK e \in events :
        e.type = "upload.accepted" /\ e.upload = u /\ e.by = uploads[u].key
  BY DEF TablesInv, AcceptedExactlyOnce
<1>2. e.about = {uploads[u].key} /\ e.upload # 0
  BY <1>1 DEF TablesInv, EventsAreLinked, LiveRows, RowIds
<1> QED BY <1>1, <1>2 DEF AcceptedUploads

LEMMA ActingHandler ==
    ASSUME IInv, [Next]_vars, NEW r \in Requests, HandlerStep(r) \/ Abort(r)
    PROVE  HandlerInv(r)' /\ Progress(r)
<1>1. TypeInv /\ TablesInv /\ HandlerInv(r) /\ Considers(r) /\ req[r] \in Handler
  BY StepConsiders DEF IInv, TypeInv, TypeOK
<1>2. \A u \in LiveRows : uploads[u].key \in Requests /\ Done(uploads[u].key)
  BY <1>1, RowTypes DEF TypeInv, TablesInv, KeysAreDone, Row
<1>3. \A k \in Referenced : k \in Requests /\ Done(k)
  BY <1>2 DEF Referenced, KeysOf
<1> USE DEF At
<1>4. CASE UploadStore(r)
  BY <1>1, <1>4, GotoAdvances DEF UploadStore
<1>5. CASE UploadCommit(r)
  <2>1. /\ req'[r].op = req[r].op /\ req'[r].list = req[r].list
        /\ req'[r].todo = req[r].todo /\ req'[r].at = "ok" /\ req[r].op = "upload"
    BY <1>1, <1>5, CommitRecords DEF Records, Done
  <2> QED BY <1>1, <2>1, Advances
<1>6. CASE UploadCommitFails(r)
  BY <1>1, <1>6, GotoAdvances DEF UploadCommitFails
<1>7. CASE UploadCleanup(r)
  BY <1>1, <1>7, GotoAdvances DEF UploadCleanup
<1>8. CASE DeleteFileCheck(r)
  BY <1>1, <1>8, GotoAdvances DEF DeleteFileCheck, Deletes
<1>9. CASE DeleteFileRow(r)
  BY <1>1, <1>9, GotoAdvances DEF DeleteFileRow
<1>10. CASE DeleteSubmissionTx(r)
  <2> DEFINE found == {v \in LiveEnvelopes : envelopes[v].sub = req[r].sub}
             rows == {u \in LiveRows : uploads[u].env \in found}
  <2>1. CASE found = {}
    <3>1. Goto(r, "refused")
      BY <1>10, <2>1 DEF DeleteSubmissionTx
    <3> QED BY <1>1, <3>1, GotoAdvances
  <2>2. CASE found # {}
    <3>1. /\ Takes(rows, found) /\ Visit(r, KeysOf(rows), "object", "log")
          /\ req[r].op = "deleteSubmission" /\ rows \subseteq LiveRows
      BY <1>10, <2>2 DEF DeleteSubmissionTx, Takes
    <3> HIDE DEF found, rows
    <3>2. LiveRows' = LiveRows \ rows /\ \A u \in LiveRows' : uploads'[u] = uploads[u]
      BY <1>1, <3>1, TakesRows DEF TypeInv
    <3>3. KeysOf(rows) \cap Referenced' = {}
      BY <1>1, <3>1, <3>2 DEF TablesInv, KeysAreDone, KeysOf, Referenced
    <3>4. \A k \in KeysOf(rows) : k \in Requests /\ Done(k)
      BY <1>2, <3>1 DEF KeysOf
    <3>5. HandlerInv(r)'
      BY <1>1, <3>1, <3>3, <3>4, VisitHolds DEF Deletes
    <3> QED BY <3>1, <3>5 DEF Progress
  <2> QED BY <2>1, <2>2
<1>11. CASE DeletePageList(r)
  <2>1. HandlerInv(r)'
    BY <1>1, <1>3, <1>11, VisitHolds DEF DeletePageList, Deletes
  <2>2. req[r].list = {}
    BY <1>1, <1>11 DEF DeletePageList, HandlerInv, HandlerInOrder
  <2> QED BY <2>1, <2>2 DEF Progress
<1>12. CASE DeletePageRecheck(r)
  BY <1>1, <1>12, GotoAdvances DEF DeletePageRecheck
<1>13. CASE DeletePageDrop(r)
  BY <1>1, <1>13, GotoAdvances DEF DeletePageDrop
<1>14. CASE DeleteObject(r)
  <2> DEFINE next == IF req[r].op = "deletePage" THEN "recheck" ELSE "log"
  <2>1. PICK k \in req[r].todo : objects' = objects \ {k} /\ Visited(r, k, "object", next)
    BY <1>14 DEF DeleteObject
  <2>2. req[r].op \in Deletes /\ next \in {"recheck", "log"}
    BY <1>1, <1>14 DEF DeleteObject, HandlerInv, HandlerInOrder
  <2> HIDE DEF next
  <2> QED BY <1>1, <2>1, <2>2, VisitedAdvances
<1>15. CASE RecordDeletion(r)
  BY <1>1, <1>15, GotoAdvances DEF RecordDeletion
<1>16. CASE ZipVerify(r)
  <2>1. req[r].op = "zip"
    BY <1>16 DEF ZipVerify
  <2>2. PICK k \in req[r].todo :
          \/ Goto(r, "failed")
          \/ Visit(r, req[r].list, "write", "log")
          \/ Visited(r, k, "verify", "verify")
    BY <1>16 DEF ZipVerify
  <2>3. CASE Goto(r, "failed")
    BY <1>1, <2>3, GotoAdvances
  <2>4. CASE Visit(r, req[r].list, "write", "log")
    <3>1. \A k1 \in req[r].list : k1 \in Requests /\ Done(k1)
      BY <1>1 DEF Handler, HandlerInv, HandlerInOrder
    <3>2. HandlerInv(r)'
      BY <1>1, <2>1, <2>4, <3>1, VisitHolds
    <3> QED BY <2>1, <3>2 DEF Progress
  <2>5. CASE Visited(r, k, "verify", "verify")
    BY <1>1, <2>1, <2>5, VisitedAdvances DEF Deletes
  <2> QED BY <2>2, <2>3, <2>4, <2>5
<1>17. CASE Stream(r)
  <2>1. req[r].op \in {"download", "zip"} /\ req[r].at \in {"stream", "write"}
    BY <1>17 DEF Stream
  <2>2. PICK k \in req[r].todo : Goto(r, "failed") \/ Streamed(r, k)
    BY <1>17 DEF Stream
  <2>3. CASE Goto(r, "failed")
    BY <1>1, <2>3, GotoAdvances
  <2>4. CASE Streamed(r, k)
    <3>1. /\ req'[r].op = req[r].op /\ req'[r].list = req[r].list
          /\ req'[r].todo = req[r].todo \ {k}
          /\ req'[r].at \in {"stream", "write", "log"}
      BY <1>1, <2>1, <2>4, StreamedTo
    <3> QED BY <1>1, <2>1, <3>1, Advances DEF Deletes
  <2> QED BY <2>2, <2>3, <2>4
<1>18. CASE RecordExport(r)
  BY <1>1, <1>18, GotoAdvances DEF RecordExport
<1>19. CASE ManifestLog(r)
  BY <1>1, <1>19, GotoAdvances DEF ManifestLog, AfterManifest
<1>20. CASE ManifestFiles(r)
  <2>1. /\ req'[r].op = "manifest" /\ req'[r].list = Referenced /\ req'[r].at = "events"
        /\ req[r].op = "manifest"
    BY <1>1, <1>20 DEF ManifestFiles, AfterManifest, TypeInv, TypeOK, Handler
  <2>2. HandlerInv(r)'
    BY <1>1, <1>3, <2>1
    DEF HandlerInv, HandlerInOrder, HandlerAndObjects, HandlerAndRows, Considers, Settled,
        Deletes
  <2> QED BY <2>1, <2>2 DEF Progress
<1>21. CASE ManifestEvents(r)
  <2>1. /\ req'[r].op = "manifest" /\ req'[r].list = req[r].list /\ req'[r].at = "ok"
        /\ req'[r].todo = AcceptedUploads /\ req[r].op = "manifest"
    BY <1>1, <1>21 DEF ManifestEvents, AfterManifest, TypeInv, TypeOK, Handler
  <2>2. Referenced' = Referenced
    BY <1>21 DEF ManifestEvents, Referenced, KeysOf, LiveRows
  <2>3. req[r].list \subseteq Requests /\ \A k \in req[r].list : Done(k)
    BY <1>1 DEF Handler, HandlerInv, HandlerInOrder
  <2>4. HandlerInv(r)'
    BY <1>1, <2>1, <2>2, <2>3, AcceptedCovers
    DEF HandlerInv, HandlerInOrder, HandlerAndObjects, HandlerAndRows, Considers, Settled,
        Deletes
  <2> QED BY <2>1, <2>4 DEF Progress
<1>22. CASE Abort(r)
  BY <1>1, <1>22, GotoAdvances DEF Abort
<1> QED BY <1>4, <1>5, <1>6, <1>7, <1>8, <1>9, <1>10, <1>11, <1>12, <1>13, <1>14, <1>15,
           <1>16, <1>17, <1>18, <1>19, <1>20, <1>21, <1>22 DEF HandlerStep


-----------------------------------------------------------------------------
(* The invariant is kept.                                                  *)

LEMMA BeginsHolds ==
    ASSUME IInv, [Next]_vars, NEW r \in Requests, Begins(r)
    PROVE  IInv'
<1>1. TypeInv /\ TablesInv /\ Settled /\ TypeInv' /\ TablesInv'
  BY SettledStep, StepTypes, StepKeepsTables DEF IInv
<1>2. PICK h : Fresh(h) /\ req' = [req EXCEPT ![r] = h]
  BY DEF Begins
<1>3. /\ UNCHANGED <<uploads, envelopes, events, objects>> /\ Referenced' = Referenced
      /\ LiveRows' = LiveRows /\ req'[r] = h /\ req[r].at = "idle"
      /\ \A q \in Requests \ {r} : req'[q] = req[q]
  BY <1>1, <1>2 DEF Begins, Referenced, KeysOf, LiveRows, TypeInv, TypeOK
<1>4. \A k \in Referenced : k \in Requests /\ Done(k)
  BY <1>1, RowTypes DEF TypeInv, TablesInv, KeysAreDone, Referenced, KeysOf, Row
<1>5. Considers(r)
  BY <1>1, <1>3 DEF Considers
<1>6. ASSUME NEW q \in Requests PROVE HandlerInv(q)'
  <2>1. CASE q # r
    BY <1>1, <1>3, <1>5, <2>1, BystanderKept DEF IInv
  <2>2. CASE q = r
    BY <1>1, <1>2, <1>3, <1>4, <2>2
    DEF Fresh, HandlerInv, HandlerInOrder, HandlerAndObjects, HandlerAndRows, Settled,
        Deletes
  <2> QED BY <2>1, <2>2
<1>7. DeletionEventsTruthful'
  BY <1>3 DEF IInv, DeletionEventsTruthful
<1>8. MissingObjectWasDeleted'
  <2>1. req[r].list = {}
    BY <1>3 DEF IInv, HandlerInv, HandlerInOrder
  <2>2. ASSUME NEW q \in Requests, NEW k \in req[q].list PROVE req'[q] = req[q]
    BY <1>3, <2>1, <2>2
  <2> SUFFICES ASSUME NEW u \in LiveRows, uploads[u].key \notin objects
               PROVE  \E q \in Requests : /\ req'[q].op \in {"deleteFile", "deletePage"}
                                          /\ uploads[u].key \in req'[q].list \ req'[q].todo
    BY <1>3 DEF MissingObjectWasDeleted
  <2>3. PICK q \in Requests : /\ req[q].op \in {"deleteFile", "deletePage"}
                              /\ uploads[u].key \in req[q].list \ req[q].todo
    BY DEF IInv, MissingObjectWasDeleted
  <2> QED BY <2>2, <2>3
<1> QED BY <1>1, <1>6, <1>7, <1>8 DEF IInv

LEMMA HandlerKeepsTruth ==
    ASSUME IInv, [Next]_vars, NEW r \in Requests, HandlerStep(r) \/ Abort(r)
    PROVE  DeletionEventsTruthful'
<1>1. TypeInv /\ TablesInv /\ HandlerInv(r) /\ Considers(r)
  BY StepConsiders DEF IInv
<1> SUFFICES ASSUME NEW f \in events', f.type \in {"file.deleted", "submission.deleted"}
             PROVE  f.about \cap objects' = {}
  BY DEF DeletionEventsTruthful
<1>2. \A k \in objects' : k \in objects \/ ~ Done(k)
  BY <1>1 DEF Considers
<1>3. ASSUME NEW e \in events, f.type = e.type, f.about = e.about
      PROVE  f.about \cap objects' = {}
  <2>1. e.about \cap objects = {} /\ \A k \in e.about : Done(k)
    BY <1>1, <1>3 DEF IInv, DeletionEventsTruthful, TablesInv, EventsAreLinked
  <2> QED BY <1>2, <1>3, <2>1
<1>4. CASE /\ f.about \in {{}, req[r].list}
           /\ req[r].op \in {"deleteFile", "deleteSubmission"} /\ req[r].at = "log"
  <2>1. req[r].list \cap objects = {} /\ \A k \in req[r].list : Done(k)
    BY <1>1, <1>4 DEF HandlerInv, HandlerInOrder, HandlerAndObjects, Deletes
  <2> QED BY <1>2, <1>4, <2>1
<1> QED BY <1>1, <1>3, <1>4, EventEffects

LEMMA HandlerKeepsObjects ==
    ASSUME IInv, [Next]_vars, NEW r \in Requests, HandlerStep(r) \/ Abort(r)
    PROVE  MissingObjectWasDeleted'
<1>1. TypeInv /\ TablesInv /\ HandlerInv(r) /\ Considers(r) /\ Works(r)
  BY StepConsiders, HandlerTypes DEF IInv
<1>2. \A q \in Requests : req'[q].op = req[q].op /\ Progress(q)
  BY <1>1, ActingHandler DEF Works, Moves, Progress
<1> SUFFICES ASSUME NEW u \in LiveRows', uploads'[u].key \notin objects'
             PROVE  \E q \in Requests : /\ req'[q].op \in {"deleteFile", "deletePage"}
                                        /\ uploads'[u].key \in req'[q].list \ req'[q].todo
  BY DEF MissingObjectWasDeleted
<1>3. u \in LiveRows /\ uploads'[u] = uploads[u]
  <2>1. CASE /\ uploads'[u].key = r
             /\ req[r].op = "upload" /\ req[r].at = "commit" /\ UNCHANGED objects
    BY <1>1, <2>1 DEF HandlerInv, HandlerAndObjects
  <2> QED BY <1>1, <2>1, RowEffects
<1> DEFINE k == uploads[u].key
<1>4. Done(k) /\ k \in Referenced
  BY <1>1, <1>3 DEF TablesInv, KeysAreDone, Referenced, KeysOf
<1>5. CASE k \notin objects
  <2>1. PICK q \in Requests : /\ req[q].op \in {"deleteFile", "deletePage"}
                              /\ k \in req[q].list \ req[q].todo
    BY <1>3, <1>5 DEF IInv, MissingObjectWasDeleted
  <2> QED BY <1>2, <1>3, <2>1 DEF Progress
<1>6. CASE k \in objects
  <2>1. ~ (req[r].at \in {"store", "cleanup"} /\ objects' \in {objects \cup {r}, objects \ {r}})
    BY <1>3, <1>4, <1>6 DEF Done
  <2>2. /\ k \in req[r].todo /\ req[r].at = "object"
        /\ req'[r].list = req[r].list /\ req'[r].todo = req[r].todo \ {k}
    BY <1>1, <1>3, <1>6, <2>1, ObjectEffects
  <2>3. k \in req[r].list /\ req[r].op \in Deletes
    BY <1>1, <2>2 DEF HandlerInv, HandlerInOrder, Deletes
  <2>4. req[r].op # "deleteSubmission"
    BY <1>1, <1>4, <2>3 DEF HandlerInv, HandlerAndRows
  <2> QED BY <1>2, <1>3, <2>2, <2>3, <2>4 DEF Deletes
<1> QED BY <1>5, <1>6

LEMMA StepHolds == IInv /\ [Next]_vars => IInv'
<1> SUFFICES ASSUME IInv, [Next]_vars PROVE IInv'
  OBVIOUS
<1>1. ASSUME NEW r \in Requests, HandlerStep(r) \/ Abort(r), Works(r) PROVE IInv'
  <2>1. ASSUME NEW q \in Requests PROVE HandlerInv(q)'
    <3>1. CASE q # r
      BY <1>1, <3>1, StepConsiders, BystanderKept DEF IInv, Works, Moves
    <3> QED BY <1>1, <3>1, ActingHandler
  <2> QED
    BY <1>1, <2>1, StepTypes, StepKeepsTables, HandlerKeepsTruth, HandlerKeepsObjects
    DEF IInv
<1>2. CASE Seal \/ UNCHANGED vars
  BY <1>2, NothingKept DEF Seal, vars
<1> QED BY <1>1, <1>2, BeginsHolds, Cases DEF IInv

LEMMA InvariantHolds == Spec => []IInv
BY InitHolds, StepHolds, PTL DEF Spec

-----------------------------------------------------------------------------
(* Theorems.                                                               *)

\* The tables, the object store and the handlers keep their types: every row, every
\* event and every handler has the fields the code gives it (store.go, server.go).
THEOREM TypeCorrect == Spec => []TypeOK
BY InvariantHolds, PTL DEF IInv, TypeInv

\* CreateUpload and the ON DELETE SET NULL of custody_events.upload_id together: every
\* row has exactly one upload.accepted event linked to it, the one of its own upload.
THEOREM EveryRowAcceptedOnce == Spec => []AcceptedExactlyOnce
BY InvariantHolds, PTL DEF IInv, TablesInv

\* The token an uploader was answered with is that of the envelope its row hangs on,
\* for as long as the row exists (CreateUpload, DeleteSubmission).
THEOREM ReceiptKeepsCovering == Spec => []ReceiptCoversUpload
BY InvariantHolds, PTL DEF IInv, TablesInv

\* What a file.deleted or submission.deleted event names is not in the object store,
\* then or at any later time.
THEOREM DeletionEventsStayTrue == Spec => []DeletionEventsTruthful
BY InvariantHolds, PTL DEF IInv

\* A listed upload lacks its object only where a delete of the file or of the page has
\* got as far as that object.
THEOREM OnlyDeletesLoseObjects == Spec => []MissingObjectWasDeleted
BY InvariantHolds, PTL DEF IInv

\* What a finished manifest lists, and the page still has, is accepted in the handling
\* log of the same manifest.
THEOREM ManifestsAgree == Spec => []ManifestLogCoversFiles
<1>1. IInv => ManifestLogCoversFiles
  BY DEF IInv, HandlerInv, HandlerAndRows, ManifestLogCoversFiles
<1> QED BY <1>1, InvariantHolds, PTL

\* The cleanup of a failed upload removes its own object, which no row refers to.
THEOREM CleanupIsSafe == Spec => CleanupSparesRecorded
<1>1. ASSUME IInv, NEW r \in Requests, UploadCleanup(r)
      PROVE  objects \ objects' \subseteq {r} \ Referenced
  <2>1. \A k \in Referenced : Done(k)
    BY <1>1 DEF IInv, TablesInv, KeysAreDone, Referenced, KeysOf
  <2>2. ~ Done(r)
    BY <1>1 DEF UploadCleanup, At, Done
  <2> QED BY <1>1, <2>1, <2>2 DEF UploadCleanup
<1>2. IInv => [\A r \in Requests :
                  UploadCleanup(r) => objects \ objects' \subseteq {r} \ Referenced]_vars
  BY <1>1
<1> QED BY <1>2, InvariantHolds, PTL DEF CleanupSparesRecorded


\* What an export has sent, at each of its steps: nothing while it checks, what it
\* has visited while it writes, and at its end all that it has listed.
Exports == {"zip", "download"}

Sends(r) ==
    req[r].op \in Exports =>
        /\ req[r].at \in {"verify", "stream", "write", "log"} \cup Outcomes
        /\ req[r].at = "verify" => req[r].sent = {}
        /\ req[r].at \in {"stream", "write"} => req[r].sent = req[r].list \ req[r].todo
        /\ req[r].at \in {"log", "ok"} => req[r].sent = req[r].list

\* The step of an export itself.
LEMMA ExportSends ==
    ASSUME IInv, NEW r \in Requests, Sends(r), HandlerStep(r) \/ Abort(r), Works(r)
    PROVE  Sends(r)'
<1>1. TypeInv /\ HandlerInv(r) /\ req[r] \in Handler
  BY DEF IInv, TypeInv, TypeOK
<1>2. req'[r].op = req[r].op
  BY DEF Works, Moves
<1> SUFFICES ASSUME req[r].op \in Exports PROVE Sends(r)'
  BY <1>2 DEF Sends
<1>3. ASSUME NEW step, Goto(r, step)
      PROVE  /\ req'[r].at = step /\ req'[r].list = req[r].list
             /\ req'[r].sent = req[r].sent
  BY <1>1, <1>3 DEF Goto, TypeInv, TypeOK, Handler
<1>4. ASSUME Goto(r, "failed") PROVE Sends(r)'
  BY <1>2, <1>3, <1>4 DEF Sends, Outcomes
<1>5. CASE ZipVerify(r)
  <2>1. req[r].at = "verify" /\ req[r].sent = {} /\ req[r].list # {}
    BY <1>1, <1>5 DEF ZipVerify, At, Sends, HandlerInv, HandlerInOrder, Exports
  <2>2. PICK k \in req[r].todo :
          \/ Goto(r, "failed")
          \/ Visit(r, req[r].list, "write", "log")
          \/ req[r].todo # {k} /\ Visited(r, k, "verify", "verify")
    BY <1>5 DEF ZipVerify
  <2>3. CASE Visit(r, req[r].list, "write", "log")
    <3>1. /\ req'[r].at = "write" /\ req'[r].sent = {}
          /\ req'[r].list = req[r].list /\ req'[r].todo = req[r].list
      BY <1>1, <2>1, <2>3 DEF Visit, TypeInv, TypeOK, Handler
    <3> QED BY <3>1 DEF Sends
  <2>4. CASE Visited(r, k, "verify", "verify")
    <3>1. req'[r].at = "verify" /\ req'[r].sent = {}
      BY <1>1, <2>1, <2>4 DEF Visited, TypeInv, TypeOK, Handler
    <3> QED BY <3>1 DEF Sends
  <2> QED BY <1>4, <2>2, <2>3, <2>4
<1>6. CASE Stream(r)
  <2>1. /\ req[r].at \in {"stream", "write"} /\ req[r].sent = req[r].list \ req[r].todo
        /\ req[r].todo \subseteq req[r].list
    BY <1>1, <1>6 DEF Stream, At, Sends, HandlerInv, HandlerInOrder, Exports
  <2>2. PICK k \in req[r].todo : Goto(r, "failed") \/ Streamed(r, k)
    BY <1>6 DEF Stream
  <2>3. CASE Streamed(r, k)
    <3>1. /\ req'[r].list = req[r].list /\ req'[r].todo = req[r].todo \ {k}
          /\ req'[r].sent = req[r].sent \cup {k}
          /\ req'[r].at = (IF req[r].todo = {k} THEN "log" ELSE req[r].at)
      BY <1>1, <2>3, StreamedTo
    <3>2. req'[r].sent = req'[r].list \ req'[r].todo
      BY <2>1, <3>1
    <3> QED BY <2>1, <3>1, <3>2 DEF Sends
  <2> QED BY <1>4, <2>2, <2>3
<1>7. CASE RecordExport(r)
  <2>1. req[r].at = "log" /\ Goto(r, "ok")
    BY <1>7 DEF RecordExport, At
  <2> QED BY <1>3, <2>1 DEF Sends, Outcomes
<1>8. CASE Abort(r)
  BY <1>4, <1>8 DEF Abort
<1> QED
  BY <1>1, <1>5, <1>6, <1>7, <1>8
  DEF HandlerStep, Exports, At, UploadStore, UploadCommit, UploadCommitFails, UploadCleanup,
      DeleteFileCheck, DeleteFileRow, DeleteSubmissionTx, DeletePageList,
      DeletePageRecheck, DeletePageDrop, DeleteObject, RecordDeletion, ManifestLog,
      ManifestFiles, ManifestEvents, HandlerInv, HandlerInOrder, Deletes

LEMMA ExportsSend ==
    ASSUME IInv, \A r \in Requests : Sends(r), [Next]_vars
    PROVE  \A r \in Requests : Sends(r)'
<1> SUFFICES ASSUME NEW r \in Requests PROVE Sends(r)'
  OBVIOUS
<1>1. TypeInv /\ TypeOK
  BY DEF IInv, TypeInv
<1>2. ASSUME req'[r] = req[r] PROVE Sends(r)'
  BY <1>2 DEF Sends
<1>3. CASE Seal \/ UNCHANGED vars
  BY <1>2, <1>3 DEF Seal, vars
<1>4. ASSUME NEW q \in Requests, Begins(q) PROVE Sends(r)'
  <2>1. PICK h : Fresh(h) /\ req' = [req EXCEPT ![q] = h]
    BY <1>4 DEF Begins
  <2>2. CASE q = r
    <3>1. req'[r] = h
      BY <1>1, <2>1, <2>2 DEF TypeOK
    <3> QED BY <2>1, <3>1 DEF Fresh, Sends, Exports
  <2>3. CASE q # r
    BY <1>1, <1>2, <2>1, <2>3 DEF TypeOK
  <2> QED BY <2>2, <2>3
<1>5. ASSUME NEW q \in Requests, HandlerStep(q) \/ Abort(q), Works(q) PROVE Sends(r)'
  BY <1>2, <1>5, ExportSends DEF Works, Moves
<1> QED BY <1>1, <1>3, <1>4, <1>5, Cases

\* An archive or a download that is recorded as finished has sent every object it
\* listed (handleZip, writeZipEntry, handleDownloadFile).
THEOREM ArchivesAreComplete == Spec => []FinishedArchiveIsComplete
<1> DEFINE S == \A r \in Requests : Sends(r)
<1>1. Init => S
  BY DEF Init, IdleHandler, Sends, Exports
<1>2. IInv /\ S /\ [Next]_vars => S'
  BY ExportsSend
<1>3. S => FinishedArchiveIsComplete
  BY DEF Sends, FinishedArchiveIsComplete, Exports
<1> HIDE DEF S
<1> QED BY <1>1, <1>2, <1>3, InvariantHolds, PTL DEF Spec

-----------------------------------------------------------------------------
(* The ledger.                                                             *)

\* A stored object is that of an upload that got so far; a submission has one
\* envelope; a page that is gone has nothing left.
ObjectsAreStored ==
    \A k \in objects : req[k].op = "upload" /\ req[k].at \notin {"idle", "store"}

EnvelopesApart ==
    \A v, w \in LiveEnvelopes : envelopes[v].sub = envelopes[w].sub => v = w

GoneIsEmpty == page = "gone" => LiveRows = {} /\ LiveEnvelopes = {}

LedgerInv == IInv /\ ObjectsAreStored /\ EnvelopesApart /\ GoneIsEmpty

\* The steps of an upload's handler, and those of the others.
LEMMA UploadSteps ==
    ASSUME IInv, NEW r \in Requests, HandlerStep(r) \/ Abort(r), req[r].op = "upload"
    PROVE  UploadStore(r) \/ UploadCommit(r) \/ UploadCommitFails(r) \/ UploadCleanup(r)
           \/ Abort(r)
<1>1. HandlerInv(r)
  BY DEF IInv
<1>2. ~ DeleteObject(r)
  BY <1>1 DEF DeleteObject, HandlerInv, HandlerInOrder, Deletes
<1> QED
  BY <1>2
  DEF HandlerStep, At, DeleteFileCheck, DeleteFileRow, DeleteSubmissionTx, DeletePageList,
      DeletePageRecheck, DeletePageDrop, RecordDeletion, ZipVerify, Stream, RecordExport,
      ManifestLog, ManifestFiles, ManifestEvents

LEMMA OtherSteps ==
    ASSUME TypeInv, NEW r \in Requests, HandlerStep(r) \/ Abort(r), req[r].op # "upload"
    PROVE  \/ DeleteFileRow(r) \/ DeleteSubmissionTx(r) \/ DeletePageDrop(r)
           \/ DeleteObject(r)
           \/ UNCHANGED <<page, uploads, envelopes, objects>>
BY DEF HandlerStep, Abort, At, UploadStore, UploadCommit, UploadCommitFails, UploadCleanup,
       DeleteFileCheck, DeletePageList, DeletePageRecheck, RecordDeletion, ZipVerify,
       Stream, RecordExport, ManifestLog, ManifestFiles, ManifestEvents

\* Only the commit of an upload adds an envelope, and it adds one of a submission
\* that has none.
LEMMA CommitEnvelope ==
    ASSUME TypeInv, NEW r \in Requests, UploadCommit(r)
    PROVE  \E v :
              /\ LiveEnvelopes' = LiveEnvelopes \cup {v}
              /\ \A w \in LiveEnvelopes : envelopes'[w] = envelopes[w]
              /\ envelopes'[v].sub = req[r].sub
              /\ req'[r].token = envelopes'[v].token
              /\ v \notin LiveEnvelopes
                 => /\ \A w \in LiveEnvelopes : envelopes[w].sub # req[r].sub
                    /\ envelopes'[v].token = r
<1>1. PICK u \in RowIds, v \in EnvIds :
        /\ EnvelopeFor(r, req[r].sub, v)
        /\ req' = [req EXCEPT ![r].at = "ok", ![r].row = u,
                              ![r].token = envelopes'[v].token]
  BY DEF UploadCommit
<1>2. TypeOK /\ req[r] \in Handler /\ req[r].sub \in Submissions
  BY DEF TypeInv, TypeOK, UploadCommit, At
<1>3. req'[r].token = envelopes'[v].token
  BY <1>1, <1>2 DEF TypeOK, Handler
<1>4. CASE \E w \in LiveEnvelopes : envelopes[w].sub = req[r].sub
  BY <1>1, <1>3, <1>4 DEF EnvelopeFor, LiveEnvelopes
<1>5. CASE ~ \E w \in LiveEnvelopes : envelopes[w].sub = req[r].sub
  <2>1. envelopes' = [envelopes EXCEPT ![v] = [sub |-> req[r].sub, token |-> r]]
        /\ IsNext(v, LiveEnvelopes)
    BY <1>1, <1>5 DEF EnvelopeFor
  <2>2. v \notin LiveEnvelopes
    BY <2>1 DEF IsNext, EnvIds
  <2>3. [sub |-> req[r].sub, token |-> r] \in Envelope
    BY <1>2 DEF Envelope
  <2>4. /\ LiveEnvelopes' = LiveEnvelopes \cup {v}
        /\ \A w \in LiveEnvelopes : envelopes'[w] = envelopes[w]
        /\ envelopes'[v] = [sub |-> req[r].sub, token |-> r]
    BY <1>2, <2>1, <2>2, <2>3 DEF TypeOK, LiveEnvelopes
  <2> QED BY <1>3, <1>5, <2>2, <2>4
<1> QED BY <1>4, <1>5

\* What is left of the envelopes after any other step.
LEMMA EnvelopesLeft ==
    ASSUME TypeInv, NEW r \in Requests, HandlerStep(r) \/ Abort(r), ~ UploadCommit(r)
    PROVE  \A v \in LiveEnvelopes' : v \in LiveEnvelopes /\ envelopes'[v] = envelopes[v]
<1>1. ASSUME NEW rows, NEW gone, Takes(rows, gone)
      PROVE  \A v \in LiveEnvelopes' : v \in LiveEnvelopes /\ envelopes'[v] = envelopes[v]
  BY <1>1 DEF Takes, LiveEnvelopes, TypeInv, TypeOK
<1>2. CASE Drops
  BY <1>2 DEF Drops, LiveEnvelopes
<1> QED BY <1>1, <1>2, TableEffects DEF Notes, TablesKept, LiveEnvelopes



LEMMA StoredInit == Init => LedgerInv
<1> SUFFICES ASSUME Init PROVE LedgerInv
  OBVIOUS
<1> QED BY InitHolds DEF Init, LedgerInv, ObjectsAreStored, EnvelopesApart, GoneIsEmpty,
                         LiveEnvelopes

\* A working handler keeps the three.
LEMMA ObjectsStayStored ==
    ASSUME LedgerInv, NEW r \in Requests, HandlerStep(r) \/ Abort(r), Works(r)
    PROVE  ObjectsAreStored'
<1>1. IInv /\ TypeInv /\ TypeOK /\ req[r] \in Handler /\ objects \subseteq Requests
  BY DEF LedgerInv, IInv, TypeInv, TypeOK
<1>2. \A q \in Requests \ {r} : req'[q] = req[q]
  BY DEF Works, Moves
<1>3. ASSUME NEW k \in objects', k # r PROVE k \in objects
  BY <1>1, <1>3, ObjectEffects
<1>4. ASSUME r \in objects'
      PROVE  req'[r].op = "upload" /\ req'[r].at \notin {"idle", "store"}
  <2>1. req[r].op = "upload"
    <3>1. CASE r \in objects
      BY <3>1 DEF LedgerInv, ObjectsAreStored
    <3>2. CASE r \notin objects
      BY <1>1, <1>4, <3>2, ObjectEffects
    <3> QED BY <3>1, <3>2
  <2>2. req'[r].op = "upload"
    BY <2>1 DEF Works, Moves
  <2>3. req'[r].at \in {"commit", "ok", "cleanup", "failed"}
    <3>1. CASE UploadCommit(r)
      BY <1>1, <3>1, CommitRecords DEF Records, Done
    <3>2. ASSUME NEW step, Goto(r, step) PROVE req'[r].at = step
      BY <1>1, <3>2 DEF Goto, TypeOK, Handler
    <3> QED
      BY <1>1, <2>1, <3>1, <3>2, UploadSteps
      DEF LedgerInv, UploadStore, UploadCommitFails, UploadCleanup, Abort
  <2> QED BY <2>2, <2>3
<1>5. ASSUME NEW k \in objects', k # r
      PROVE  req'[k].op = "upload" /\ req'[k].at \notin {"idle", "store"}
  <2>1. k \in objects /\ req'[k] = req[k]
    BY <1>1, <1>2, <1>3, <1>5
  <2> QED BY <2>1 DEF LedgerInv, ObjectsAreStored
<1> QED BY <1>4, <1>5 DEF ObjectsAreStored

LEMMA EnvelopesStayApart ==
    ASSUME LedgerInv, NEW r \in Requests, HandlerStep(r) \/ Abort(r)
    PROVE  EnvelopesApart'
<1>1. TypeInv /\ EnvelopesApart
  BY DEF LedgerInv, IInv
<1>2. CASE UploadCommit(r)
  <2>1. PICK v : /\ LiveEnvelopes' = LiveEnvelopes \cup {v}
                 /\ \A w \in LiveEnvelopes : envelopes'[w] = envelopes[w]
                 /\ envelopes'[v].sub = req[r].sub
                 /\ v \notin LiveEnvelopes
                    => \A w \in LiveEnvelopes : envelopes[w].sub # req[r].sub
    BY <1>1, <1>2, CommitEnvelope
  <2> QED BY <1>1, <2>1 DEF EnvelopesApart
<1>3. CASE ~ UploadCommit(r)
  BY <1>1, <1>3, EnvelopesLeft DEF EnvelopesApart
<1> QED BY <1>2, <1>3

LEMMA GoneStaysEmpty ==
    ASSUME LedgerInv, NEW r \in Requests, HandlerStep(r) \/ Abort(r), page' = "gone"
    PROVE  LiveRows' = {} /\ LiveEnvelopes' = {}
<1>1. TypeInv
  BY DEF LedgerInv, IInv
<1>2. CASE DeletePageDrop(r)
  BY <1>2 DEF DeletePageDrop, LiveRows, LiveEnvelopes
<1>3. CASE ~ DeletePageDrop(r)
  <2>1. page = "gone"
    BY <1>3 DEF HandlerStep, Abort, UploadStore, UploadCommit, UploadCommitFails,
        UploadCleanup, DeleteFileCheck, DeleteFileRow, DeleteSubmissionTx, DeletePageList,
        DeletePageRecheck, DeleteObject, RecordDeletion, ZipVerify, Stream, RecordExport,
        ManifestLog, ManifestFiles, ManifestEvents
  <2>2. ~ UploadCommit(r) /\ LiveRows = {} /\ LiveEnvelopes = {}
    BY <2>1 DEF UploadCommit, LedgerInv, GoneIsEmpty
  <2>3. LiveEnvelopes' = {}
    BY <1>1, <2>2, EnvelopesLeft
  <2>4. \A rows, gone : Takes(rows, gone) => LiveRows' = {}
    BY <1>1, <2>2, TakesRows DEF TypeInv
  <2>5. Drops => LiveRows' = {}
    BY DEF Drops, LiveRows
  <2>6. UNCHANGED uploads => LiveRows' = {}
    BY <2>2 DEF LiveRows
  <2> QED BY <1>1, <2>2, <2>3, <2>4, <2>5, <2>6, TableEffects DEF Notes, TablesKept
<1> QED BY <1>2, <1>3

LEMMA LedgerInvStep == LedgerInv /\ [Next]_vars => LedgerInv'
<1> SUFFICES ASSUME LedgerInv, [Next]_vars PROVE LedgerInv'
  OBVIOUS
<1>1. IInv' /\ TypeInv /\ TypeOK
  BY StepHolds DEF LedgerInv, IInv, TypeInv
<1>2. ASSUME NEW r \in Requests, HandlerStep(r) \/ Abort(r), Works(r) PROVE LedgerInv'
  BY <1>1, <1>2, ObjectsStayStored, EnvelopesStayApart, GoneStaysEmpty
  DEF LedgerInv, GoneIsEmpty
<1>3. CASE Seal \/ UNCHANGED vars
  BY <1>1, <1>3 DEF Seal, vars, LedgerInv, ObjectsAreStored, EnvelopesApart, GoneIsEmpty,
                    LiveRows, LiveEnvelopes
<1>4. ASSUME NEW r \in Requests, Begins(r) PROVE LedgerInv'
  <2>1. EnvelopesApart' /\ GoneIsEmpty'
    BY <1>4 DEF Begins, LedgerInv, EnvelopesApart, GoneIsEmpty, LiveRows, LiveEnvelopes
  <2>2. objects' = objects /\ \A q \in Requests \ {r} : req'[q] = req[q]
    BY <1>1, <1>4 DEF Begins, TypeOK
  <2>3. r \notin objects
    BY <1>4 DEF Begins, LedgerInv, ObjectsAreStored
  <2>4. ObjectsAreStored'
    <3>1. objects \subseteq Requests
      BY <1>1 DEF TypeOK
    <3> QED BY <2>2, <2>3, <3>1 DEF LedgerInv, ObjectsAreStored
  <2> QED BY <1>1, <2>1, <2>4 DEF LedgerInv
<1> QED BY <1>1, <1>2, <1>3, <1>4, Cases

LEMMA LedgerInvHolds == Spec => []LedgerInv
BY StoredInit, LedgerInvStep, PTL DEF Spec

\* What the ledger sees of the requests and the envelopes in a step.
SameSenders == \A k \in Requests : SenderOf(k)' = SenderOf(k)
SameReceipts == \A k \in Requests : ReceiptOf(k)' = ReceiptOf(k)
SameOpened == \A s \in Submissions : OpenedBy(s)' = OpenedBy(s)
PlacesBut(K) == \A k \in Requests \ K : PlaceOf(k)' = PlaceOf(k)

LEMMA LedgerStutters ==
    ASSUME UNCHANGED page, SameSenders, SameReceipts, SameOpened, PlacesBut({})
    PROVE  UNCHANGED Ledger!ledgerVars
BY DEF Ledger!ledgerVars, SameSenders, SameReceipts, SameOpened, PlacesBut

LEMMA LedgerMoves ==
    ASSUME NEW k \in Requests, NEW from, NEW to, PlaceOf(k) \in from, PlaceOf(k)' = to,
           PlacesBut({k})
    PROVE  Ledger!Move(k, from, to)
BY DEF Ledger!Move, PlacesBut

LEMMA OpenedKept ==
    ASSUME UNCHANGED envelopes
    PROVE  SameOpened
BY DEF SameOpened, OpenedBy, LiveEnvelopes

\* The one envelope of a submission tells its receipt.
LEMMA OpenedIs ==
    ASSUME NEW s
    PROVE  /\ EnvelopesApart
              => \A v \in LiveEnvelopes :
                    envelopes[v].sub = s => OpenedBy(s) = envelopes[v].token
           /\ EnvelopesApart'
              => \A v \in LiveEnvelopes' :
                    envelopes'[v].sub = s => OpenedBy(s)' = envelopes'[v].token
<1>1. ASSUME EnvelopesApart, NEW v \in LiveEnvelopes, envelopes[v].sub = s
      PROVE  OpenedBy(s) = envelopes[v].token
  <2> DEFINE w == CHOOSE x \in LiveEnvelopes : envelopes[x].sub = s
  <2>1. w \in LiveEnvelopes /\ envelopes[w].sub = s
    BY <1>1
  <2>2. w = v
    BY <1>1, <2>1 DEF EnvelopesApart
  <2> QED BY <1>1, <2>2 DEF OpenedBy
<1>2. ASSUME EnvelopesApart', NEW v \in LiveEnvelopes', envelopes'[v].sub = s
      PROVE  OpenedBy(s)' = envelopes'[v].token
  <2> DEFINE w == CHOOSE x \in LiveEnvelopes' : envelopes'[x].sub = s
  <2>1. w \in LiveEnvelopes' /\ envelopes'[w].sub = s
    BY <1>2
  <2>2. w = v
    BY <1>2, <2>1 DEF EnvelopesApart
  <2> QED BY <1>2, <2>2 DEF OpenedBy
<1> QED BY <1>1, <1>2

LEMMA NotOpened ==
    ASSUME NEW s
    PROVE  /\ (\A v \in LiveEnvelopes : envelopes[v].sub # s) => OpenedBy(s) = NoToken
           /\ (\A v \in LiveEnvelopes' : envelopes'[v].sub # s) => OpenedBy(s)' = NoToken
BY DEF OpenedBy

\* Who has sent what is settled when a request begins; the receipt, when it is
\* recorded.
LEMMA SendersKept ==
    ASSUME TypeInv, NEW r \in Requests, Works(r)
    PROVE  SameSenders
BY DEF Works, Moves, SameSenders, SenderOf

LEMMA ReceiptsKept ==
    ASSUME IInv, NEW r \in Requests, HandlerStep(r) \/ Abort(r), Works(r), ~ UploadCommit(r)
    PROVE  SameReceipts
<1>1. \A q \in Requests \ {r} : req'[q] = req[q]
  BY DEF Works, Moves
<1>2. req'[r].op = req[r].op
  BY DEF Works, Moves
<1>3. CASE req[r].op = "upload"
  <2>1. ASSUME NEW step, Goto(r, step) PROVE req'[r].token = req[r].token
    BY <2>1 DEF Goto, IInv, TypeInv, TypeOK, Handler
  <2>2. req'[r].token = req[r].token
    BY <1>3, <2>1, UploadSteps DEF UploadStore, UploadCommitFails, UploadCleanup, Abort
  <2> QED BY <1>1, <1>2, <2>2 DEF SameReceipts, ReceiptOf
<1>4. CASE req[r].op # "upload"
  BY <1>1, <1>2, <1>4 DEF SameReceipts, ReceiptOf
<1> QED BY <1>3, <1>4

LEMMA ReferencedAreDone ==
    ASSUME IInv
    PROVE  Referenced \subseteq Requests /\ \A k \in Referenced : Done(k)
BY RowTypes DEF IInv, TypeInv, TablesInv, KeysAreDone, Referenced, KeysOf

\* A request that is not of an upload has its place nowhere.
LEMMA OtherPlaces ==
    ASSUME LedgerInv, NEW r \in Requests, Works(r), req[r].op # "upload", NEW k \in Requests,
           k \in objects' => k \in objects, k \in Referenced' => k \in Referenced
    PROVE  /\ (k \in objects' <=> k \in objects) /\ (k \in Referenced' <=> k \in Referenced)
              => PlaceOf(k)' = PlaceOf(k)
           /\ k \in objects' <=> k \in objects
              => PlaceOf(k)' = IF k \in Referenced /\ k \notin Referenced'
                               THEN Ledger!Unlisted(PlaceOf(k)) ELSE PlaceOf(k)
<1>1. k \in Referenced => Done(k)
  BY ReferencedAreDone DEF LedgerInv
<1>2. k \in objects => req[k].op = "upload"
  BY DEF LedgerInv, ObjectsAreStored
<1>3. CASE k = r
  <2>1. k \notin Referenced /\ k \notin objects /\ req'[k].op = req[k].op
    BY <1>1, <1>2, <1>3 DEF Done, Works, Moves
  <2> QED BY <1>3, <2>1 DEF PlaceOf
<1>4. CASE k # r
  <2>1. req'[k] = req[k]
    BY <1>4 DEF Works, Moves
  <2> QED BY <1>1, <2>1 DEF PlaceOf, Ledger!Unlisted, Done
<1> QED BY <1>3, <1>4

-----------------------------------------------------------------------------
(* Every step is one of the ledger, or none.                               *)

LEMMA BeginInLedger ==
    ASSUME LedgerInv, NEW r \in Requests, Begins(r)
    PROVE  [Ledger!Next]_Ledger!ledgerVars
<1>1. TypeOK /\ IInv /\ HandlerInv(r)
  BY DEF LedgerInv, IInv, TypeInv
<1>2. PICK h : Fresh(h) /\ req' = [req EXCEPT ![r] = h]
  BY DEF Begins
<1>3. req'[r] = h /\ \A q \in Requests \ {r} : req'[q] = req[q]
  BY <1>1, <1>2 DEF TypeOK
<1>4. req[r].op = "idle" /\ r \notin objects /\ r \notin Referenced
  BY <1>1, ReferencedAreDone
  DEF Begins, HandlerInv, HandlerInOrder, LedgerInv, ObjectsAreStored, Done
<1>5. UNCHANGED <<page, objects>> /\ UNCHANGED Referenced /\ SameOpened
  BY OpenedKept DEF Begins, Referenced, KeysOf, LiveRows
<1>6. PlacesBut({})
  <2>1. PlaceOf(r)' = PlaceOf(r)
    BY <1>2, <1>3, <1>4, <1>5 DEF PlaceOf, Fresh
  <2>2. ASSUME NEW k \in Requests \ {r} PROVE PlaceOf(k)' = PlaceOf(k)
    BY <1>3, <1>5 DEF PlaceOf
  <2> QED BY <2>1, <2>2 DEF PlacesBut
<1>7. SameReceipts
  BY <1>2, <1>3, <1>4 DEF SameReceipts, ReceiptOf, Fresh
<1>8. CASE h.op = "upload"
  <2>1. h.sub \in Submissions /\ page = "open"
    BY <1>2, <1>8 DEF Fresh
  <2>2. SenderOf(r) = NoSub /\ SenderOf(r)' = h.sub
        /\ \A k \in Requests \ {r} : SenderOf(k)' = SenderOf(k)
    BY <1>3, <1>4, <1>8 DEF SenderOf
  <2>3. Ledger!Admit(r, h.sub)
    BY <1>5, <1>6, <1>7, <2>1, <2>2
    DEF Ledger!Admit, PlacesBut, SameReceipts, SameOpened
  <2> QED BY <2>1, <2>3 DEF Ledger!Next
<1>9. CASE h.op # "upload"
  <2>1. SameSenders
    BY <1>3, <1>4, <1>9 DEF SameSenders, SenderOf
  <2> QED BY <1>5, <1>6, <1>7, <2>1, LedgerStutters
<1> QED BY <1>8, <1>9

\* A step of an upload other than its commit.
LEMMA UploadInLedger ==
    ASSUME LedgerInv, NEW r \in Requests, HandlerStep(r) \/ Abort(r), Works(r),
           req[r].op = "upload", ~ UploadCommit(r)
    PROVE  [Ledger!Next]_Ledger!ledgerVars
<1>1. TypeInv /\ IInv /\ TypeOK
  BY DEF LedgerInv, IInv, TypeInv
<1>2. UploadStore(r) \/ UploadCommitFails(r) \/ UploadCleanup(r) \/ Abort(r)
  BY <1>1, UploadSteps
<1>3. /\ UNCHANGED page /\ UNCHANGED Referenced
      /\ SameOpened /\ SameSenders /\ SameReceipts
  BY <1>1, <1>2, OpenedKept, SendersKept, ReceiptsKept
  DEF UploadStore, UploadCommitFails, UploadCleanup, Abort, Referenced, KeysOf, LiveRows
<1>4. r \notin Referenced /\ req'[r].op = "upload"
      /\ req[r].at \notin {"idle"} \cup Outcomes
  BY <1>1, ReferencedAreDone DEF Done, Works, Moves, Outcomes
<1>5. PlacesBut({r})
  <2>1. ASSUME NEW k \in Requests \ {r} PROVE k \in objects' <=> k \in objects
    BY <1>2 DEF UploadStore, UploadCommitFails, UploadCleanup, Abort
  <2>2. ASSUME NEW k \in Requests \ {r} PROVE req'[k] = req[k]
    BY DEF Works, Moves
  <2> QED BY <1>3, <2>1, <2>2 DEF PlacesBut, PlaceOf
<1>6. CASE PlaceOf(r)' = PlaceOf(r)
  <2>1. PlacesBut({})
    BY <1>5, <1>6 DEF PlacesBut
  <2> QED BY <1>3, <2>1, LedgerStutters
<1>7. SenderOf(r) # NoSub
  BY <1>1 DEF SenderOf, TypeInv
<1>8. ASSUME NEW step, Goto(r, step) PROVE req'[r].at = step
  BY <1>1, <1>8 DEF Goto, TypeOK, Handler
<1>9. CASE UploadStore(r)
  <2>1. PlaceOf(r) = "absent" /\ PlaceOf(r)' = "held"
    BY <1>3, <1>4, <1>8, <1>9
    DEF UploadStore, At, PlaceOf, LedgerInv, ObjectsAreStored
  <2>2. Ledger!Move(r, {"absent"}, "held")
    BY <1>5, <2>1, LedgerMoves
  <2>3. Ledger!Store(r)
    BY <1>3, <1>7, <2>2
    DEF Ledger!Store, SameSenders, SameReceipts, SameOpened
  <2> QED BY <2>3 DEF Ledger!Next
<1>10. CASE UploadCommitFails(r)
  <2>1. PlaceOf(r)' = PlaceOf(r)
    <3>1. objects' = objects /\ req[r].at = "commit" /\ req'[r].at = "cleanup"
      BY <1>8, <1>10 DEF UploadCommitFails, At
    <3> QED BY <1>3, <1>4, <3>1 DEF PlaceOf
  <2> QED BY <1>6, <2>1
<1>11. CASE UploadCleanup(r) \/ Abort(r)
  <2>1. req'[r].at = "failed"
    BY <1>8, <1>11 DEF UploadCleanup, Abort
  <2>2. objects' = objects \/ (req[r].at = "cleanup" /\ r \notin objects')
    <3>1. CASE UploadCleanup(r)
      BY <3>1 DEF UploadCleanup, At
    <3> QED BY <1>11, <3>1 DEF Abort
  <2>3. \/ PlaceOf(r) \in {"absent", "held"} /\ PlaceOf(r)' = "gone"
        \/ PlaceOf(r) \in {"held"} /\ PlaceOf(r)' = "orphan"
        \/ PlaceOf(r)' = PlaceOf(r)
    BY <1>3, <1>4, <2>1, <2>2 DEF PlaceOf
  <2>4. CASE PlaceOf(r)' = PlaceOf(r)
    BY <1>6, <2>4
  <2>5. CASE PlaceOf(r)' # PlaceOf(r)
    <3>1. \/ Ledger!Move(r, {"absent", "held"}, "gone")
          \/ Ledger!Move(r, {"held"}, "orphan")
      BY <1>5, <2>3, <2>5, LedgerMoves
    <3>2. Ledger!GiveUp(r)
      BY <1>3, <1>7, <3>1
      DEF Ledger!GiveUp, SameSenders, SameReceipts, SameOpened
    <3> QED BY <3>2 DEF Ledger!Next
  <2> QED BY <2>4, <2>5
<1> QED BY <1>2, <1>9, <1>10, <1>11

LEMMA CommitInLedger ==
    ASSUME LedgerInv, NEW r \in Requests, UploadCommit(r), Works(r), EnvelopesApart'
    PROVE  Ledger!Record(r)
<1>1. TypeInv /\ IInv /\ TypeOK /\ TypeOK' /\ HandlerInv(r)
  BY DEF LedgerInv, IInv, TypeInv, Works
<1>2. PICK u, w : Records(r, u, w)
  BY <1>1, CommitRecords
<1>3. PICK v : /\ LiveEnvelopes' = LiveEnvelopes \cup {v}
               /\ \A x \in LiveEnvelopes : envelopes'[x] = envelopes[x]
               /\ envelopes'[v].sub = req[r].sub
               /\ req'[r].token = envelopes'[v].token
               /\ v \notin LiveEnvelopes
                  => /\ \A x \in LiveEnvelopes : envelopes[x].sub # req[r].sub
                     /\ envelopes'[v].token = r
  BY <1>1, CommitEnvelope
<1>4. /\ req[r].op = "upload" /\ req'[r].op = "upload" /\ req'[r].at = "ok"
      /\ req[r].at = "commit" /\ req[r].sub \in Submissions
      /\ page # "gone" /\ UNCHANGED <<page, objects>>
      /\ \A k \in Requests \ {r} : req'[k] = req[k]
  BY <1>1, <1>2 DEF Records, Done, UploadCommit, TypeInv, Works, Moves
<1>5. Referenced' = Referenced \cup {r}
  BY <1>2 DEF Records, Referenced, KeysOf
<1>6. SameSenders
  BY <1>1, SendersKept
<1>7. Ledger!Move(r, {"held"}, "listed")
  <2>1. r \in objects /\ r \notin Referenced
    BY <1>1, <1>4, ReferencedAreDone DEF HandlerInv, HandlerAndObjects, Done
  <2>2. PlaceOf(r) = "held" /\ PlaceOf(r)' = "listed"
    BY <1>4, <1>5, <2>1 DEF PlaceOf
  <2>3. PlacesBut({r})
    BY <1>4, <1>5 DEF PlacesBut, PlaceOf
  <2> QED BY <2>2, <2>3, LedgerMoves
<1>8. PICK s \in Submissions : s = req[r].sub
  BY <1>4
<1>9. EnvelopesApart
  BY DEF LedgerInv
<1>10. OpenedBy(s)' = req'[r].token
  BY <1>3, <1>8, OpenedIs
<1>11. OpenedBy(s)' = IF OpenedBy(s) = NoToken THEN r ELSE OpenedBy(s)
  <2>1. CASE v \in LiveEnvelopes
    <3>1. OpenedBy(s) = envelopes[v].token
      BY <1>3, <1>8, <1>9, <2>1, OpenedIs
    <3>2. envelopes[v].token \in Requests
      BY <1>1, <2>1, RowTypes DEF Envelope
    <3> QED BY <1>3, <1>10, <2>1, <3>1, <3>2
  <2>2. CASE v \notin LiveEnvelopes
    BY <1>3, <1>8, <1>10, <2>2, NotOpened
  <2> QED BY <2>1, <2>2
<1>12. ASSUME NEW t \in Submissions, t # s PROVE OpenedBy(t)' = OpenedBy(t)
  <2>1. CASE \E x \in LiveEnvelopes : envelopes[x].sub = t
    <3>1. PICK x \in LiveEnvelopes : envelopes[x].sub = t
      BY <2>1
    <3> QED BY <1>3, <1>9, <3>1, OpenedIs
  <2>2. CASE ~ \E x \in LiveEnvelopes : envelopes[x].sub = t
    <3>1. \A x \in LiveEnvelopes' : envelopes'[x].sub # t
      BY <1>3, <1>8, <1>12, <2>2
    <3> QED BY <2>2, <3>1, NotOpened
  <2> QED BY <2>1, <2>2
<1>13. SenderOf(r) = s /\ ReceiptOf(r)' = OpenedBy(s)'
  BY <1>4, <1>8, <1>10 DEF SenderOf, ReceiptOf
<1>14. \A k \in Requests \ {r} : ReceiptOf(k)' = ReceiptOf(k)
  BY <1>4 DEF ReceiptOf
<1> QED
  BY <1>4, <1>6, <1>7, <1>11, <1>12, <1>13, <1>14 DEF Ledger!Record, SameSenders

\* Another handler changes no sender and no receipt.
LEMMA OtherKept ==
    ASSUME LedgerInv, NEW r \in Requests, HandlerStep(r) \/ Abort(r), Works(r),
           req[r].op # "upload"
    PROVE  SameSenders /\ SameReceipts
BY SendersKept, ReceiptsKept DEF LedgerInv, IInv, UploadCommit, At

LEMMA DeleteFileInLedger ==
    ASSUME LedgerInv, NEW r \in Requests, Works(r), DeleteFileRow(r)
    PROVE  [Ledger!Next]_Ledger!ledgerVars
<1>1. IInv /\ TypeInv /\ TypeOK
  BY DEF LedgerInv, IInv, TypeInv
<1>2. /\ req[r].op # "upload" /\ HandlerStep(r) /\ UNCHANGED <<page, objects>>
      /\ SameOpened
  BY OpenedKept DEF DeleteFileRow, At, HandlerStep
<1>3. SameSenders /\ SameReceipts
  BY <1>2, OtherKept
<1>4. CASE req[r].row \in LiveRows
  <2>1. PICK u \in LiveRows : u = req[r].row
    BY <1>4
  <2>2. uploads' = [uploads EXCEPT ![u] = NoRow]
    BY <1>4, <2>1 DEF DeleteFileRow
  <2>3. LiveRows' = LiveRows \ {u} /\ \A w \in LiveRows' : uploads'[w] = uploads[w]
    BY <1>1, <2>2 DEF LiveRows, TypeOK
  <2>4. PICK k \in Requests : k = uploads[u].key
    BY <1>1, RowTypes DEF Row
  <2>5. k \in Referenced
    BY <2>4 DEF Referenced, KeysOf
  <2>6. \A w \in LiveRows : uploads[w].key = k => w = u
    BY <1>1, <2>4 DEF IInv, TablesInv, KeysAreDone
  <2>7. Referenced' = Referenced \ {k}
    BY <2>3, <2>4, <2>6 DEF Referenced, KeysOf
  <2>8. PlaceOf(k)' = Ledger!Unlisted(PlaceOf(k)) /\ PlacesBut({k})
    BY <1>2, <2>5, <2>7, OtherPlaces DEF PlacesBut
  <2>9. PlaceOf(k) \in {"listed", "hollow"}
    BY <2>5 DEF PlaceOf
  <2>10. Ledger!RemoveFile(k)
    BY <1>2, <1>3, <2>8, <2>9, LedgerMoves
    DEF Ledger!RemoveFile, SameSenders, SameReceipts, SameOpened
  <2> QED BY <2>10 DEF Ledger!Next
<1>5. CASE req[r].row \notin LiveRows
  <2>1. UNCHANGED Referenced
    BY <1>5 DEF DeleteFileRow, Referenced, KeysOf, LiveRows
  <2>2. PlacesBut({})
    BY <1>2, <2>1, OtherPlaces DEF PlacesBut
  <2> QED BY <1>2, <1>3, <2>2, LedgerStutters
<1> QED BY <1>4, <1>5

LEMMA DeletePageInLedger ==
    ASSUME LedgerInv, NEW r \in Requests, Works(r), DeletePageDrop(r)
    PROVE  [Ledger!Next]_Ledger!ledgerVars
<1>1. IInv
  BY DEF LedgerInv
<1>2. req[r].op # "upload" /\ HandlerStep(r) /\ UNCHANGED objects /\ page' = "gone"
  BY DEF DeletePageDrop, At, HandlerStep
<1>3. SameSenders /\ SameReceipts
  BY <1>2, OtherKept
<1>4. LiveRows' = {} /\ LiveEnvelopes' = {} /\ Referenced' = {}
  BY DEF DeletePageDrop, LiveRows, LiveEnvelopes, Referenced, KeysOf
<1>5. \A s \in Submissions : OpenedBy(s)' = NoToken
  BY <1>4, NotOpened
<1>6. \A k \in Requests :
         PlaceOf(k)' = IF k \in Referenced THEN Ledger!Unlisted(PlaceOf(k)) ELSE PlaceOf(k)
  BY <1>2, <1>4, OtherPlaces
<1>7. CASE page = "gone"
  <2>1. LiveRows = {} /\ LiveEnvelopes = {} /\ Referenced = {}
    BY <1>7 DEF LedgerInv, GoneIsEmpty, Referenced, KeysOf
  <2>2. PlacesBut({})
    BY <1>6, <2>1 DEF PlacesBut
  <2>3. SameOpened
    BY <1>5, <2>1, NotOpened DEF SameOpened
  <2> QED BY <1>2, <1>3, <1>7, <2>2, <2>3, LedgerStutters
<1>8. CASE page # "gone"
  <2>1. \A k \in Requests : PlaceOf(k)' = Ledger!Unlisted(PlaceOf(k))
    <3>1. \A k \in Requests \ Referenced : Ledger!Unlisted(PlaceOf(k)) = PlaceOf(k)
      BY DEF PlaceOf, Ledger!Unlisted
    <3> QED BY <1>6, <3>1
  <2>2. Ledger!RemovePage
    BY <1>2, <1>3, <1>5, <1>8, <2>1 DEF Ledger!RemovePage, SameSenders, SameReceipts
  <2> QED BY <2>2 DEF Ledger!Next
<1> QED BY <1>7, <1>8

LEMMA DeleteObjectInLedger ==
    ASSUME LedgerInv, NEW r \in Requests, Works(r), DeleteObject(r)
    PROVE  [Ledger!Next]_Ledger!ledgerVars
<1>1. IInv /\ HandlerInv(r) /\ TypeOK /\ req[r] \in Handler
  BY DEF LedgerInv, IInv, TypeInv, TypeOK
<1>2. PICK k \in req[r].todo : objects' = objects \ {k}
  BY DEF DeleteObject
<1>3. req[r].op \in Deletes /\ k \in Requests /\ Done(k)
  BY <1>1 DEF DeleteObject, HandlerInv, HandlerInOrder, Deletes, Handler
<1>4. /\ req[r].op # "upload" /\ HandlerStep(r) /\ UNCHANGED page
      /\ UNCHANGED Referenced /\ SameOpened
  BY <1>3, OpenedKept
  DEF DeleteObject, HandlerStep, Deletes, Referenced, KeysOf, LiveRows
<1>5. SameSenders /\ SameReceipts
  BY <1>4, OtherKept
<1>6. PlacesBut({k})
  BY <1>2, <1>4, OtherPlaces DEF PlacesBut
<1>7. CASE k \in objects
  <2>1. req'[k] = req[k]
    BY <1>3, <1>4 DEF Done, Works, Moves
  <2>2. \/ PlaceOf(k) \in {"listed"} /\ PlaceOf(k)' = "hollow"
        \/ PlaceOf(k) \in {"orphan"} /\ PlaceOf(k)' = "gone"
    BY <1>2, <1>3, <1>4, <1>7, <2>1 DEF PlaceOf, Done
  <2>3. Ledger!Move(k, {"listed"}, "hollow") \/ Ledger!Move(k, {"orphan"}, "gone")
    BY <1>3, <1>6, <2>2, LedgerMoves
  <2>4. Ledger!Discard(k)
    BY <1>4, <1>5, <2>3 DEF Ledger!Discard, SameSenders, SameReceipts, SameOpened
  <2> QED BY <1>3, <2>4 DEF Ledger!Next
<1>8. CASE k \notin objects
  <2>1. PlacesBut({})
    BY <1>2, <1>4, <1>8, OtherPlaces DEF PlacesBut
  <2> QED BY <1>4, <1>5, <2>1, LedgerStutters
<1> QED BY <1>7, <1>8

LEMMA DeleteSubmissionInLedger ==
    ASSUME LedgerInv, NEW r \in Requests, Works(r), DeleteSubmissionTx(r)
    PROVE  [Ledger!Next]_Ledger!ledgerVars
<1> DEFINE found == {v \in LiveEnvelopes : envelopes[v].sub = req[r].sub}
           rows == {u \in LiveRows : uploads[u].env \in found}
<1>1. IInv /\ TypeInv /\ TypeOK /\ EnvelopesApart
  BY DEF LedgerInv, IInv, TypeInv
<1>2. /\ req[r].op # "upload" /\ HandlerStep(r) /\ UNCHANGED <<page, objects>>
  BY DEF DeleteSubmissionTx, At, HandlerStep
<1>3. SameSenders /\ SameReceipts
  BY <1>2, OtherKept
<1>4. CASE found = {}
  <2>1. UNCHANGED <<uploads, envelopes>>
    BY <1>4 DEF DeleteSubmissionTx
  <2>2. UNCHANGED Referenced /\ SameOpened
    BY <2>1, OpenedKept DEF Referenced, KeysOf, LiveRows
  <2>3. PlacesBut({})
    BY <1>2, <2>2, OtherPlaces DEF PlacesBut
  <2> QED BY <1>2, <1>3, <2>2, <2>3, LedgerStutters
<1>5. CASE found # {}
  <2>1. /\ uploads' = WithoutRows(rows)
        /\ envelopes' = [v \in EnvIds |-> IF v \in found THEN NoEnvelope ELSE envelopes[v]]
    BY <1>5 DEF DeleteSubmissionTx
  <2>2. PICK x \in LiveEnvelopes : envelopes[x].sub = req[r].sub
    BY <1>5
  <2>3. PICK s \in Submissions : s = req[r].sub
    BY <1>1, <2>2, RowTypes DEF Envelope
  <2>4. /\ LiveRows' = LiveRows \ rows
        /\ \A u \in LiveRows' : uploads'[u] = uploads[u]
    BY <1>1, <2>1 DEF LiveRows, WithoutRows, TypeOK
  <2>5. /\ LiveEnvelopes' = LiveEnvelopes \ found
        /\ \A v \in LiveEnvelopes' : envelopes'[v] = envelopes[v]
    BY <1>1, <2>1 DEF LiveEnvelopes, TypeOK
  <2>6. OpenedBy(s) # NoToken
    <3>1. OpenedBy(s) = envelopes[x].token /\ envelopes[x].token \in Requests
      BY <1>1, <2>2, <2>3, OpenedIs, RowTypes DEF Envelope
    <3> QED BY <3>1
  <2>7. OpenedBy(s)' = NoToken
    BY <2>3, <2>5, NotOpened
  <2>8. ASSUME NEW t \in Submissions, t # s PROVE OpenedBy(t)' = OpenedBy(t)
    <3>1. CASE \E v \in LiveEnvelopes : envelopes[v].sub = t
      <4>1. PICK v \in LiveEnvelopes : envelopes[v].sub = t
        BY <3>1
      <4>2. v \in LiveEnvelopes' /\ envelopes'[v] = envelopes[v]
        BY <2>3, <2>5, <2>8, <4>1
      <4>3. EnvelopesApart'
        BY <1>2, EnvelopesStayApart
      <4> QED BY <1>1, <4>1, <4>2, <4>3, OpenedIs
    <3>2. CASE ~ \E v \in LiveEnvelopes : envelopes[v].sub = t
      <4>1. \A v \in LiveEnvelopes' : envelopes'[v].sub # t
        BY <2>5, <3>2
      <4> QED BY <3>2, <4>1, NotOpened
    <3> QED BY <3>1, <3>2
  <2>9. ASSUME NEW u \in LiveRows
        PROVE  u \in rows <=> SenderOf(uploads[u].key) = s
    <3>1. /\ uploads[u].env \in LiveEnvelopes
          /\ envelopes[uploads[u].env].sub = req[uploads[u].key].sub
          /\ Done(uploads[u].key)
      BY <1>1 DEF IInv, TablesInv, ReceiptCoversUpload, KeysAreDone
    <3> QED BY <2>3, <3>1 DEF SenderOf, Done
  <2>10. ASSUME NEW k \in Requests
         PROVE  /\ k \in Referenced' => k \in Referenced
                /\ k \in Referenced /\ k \notin Referenced' <=> k \in Referenced /\ SenderOf(k) = s
    <3>1. k \in Referenced' => k \in Referenced
      BY <2>4 DEF Referenced, KeysOf
    <3>2. ASSUME k \in Referenced, SenderOf(k) = s PROVE k \notin Referenced'
      BY <2>4, <2>9, <3>2 DEF Referenced, KeysOf
    <3>3. ASSUME k \in Referenced, SenderOf(k) # s PROVE k \in Referenced'
      <4>1. PICK u \in LiveRows : k = uploads[u].key
        BY <3>3 DEF Referenced, KeysOf
      <4>2. u \in LiveRows' /\ uploads'[u] = uploads[u]
        BY <2>4, <2>9, <3>3, <4>1
      <4> QED BY <4>1, <4>2 DEF Referenced, KeysOf
    <3> QED BY <3>1, <3>2, <3>3
  <2>11. ASSUME NEW k \in Requests
         PROVE  PlaceOf(k)' = IF SenderOf(k) = s THEN Ledger!Unlisted(PlaceOf(k))
                                                 ELSE PlaceOf(k)
    <3>1. k \notin Referenced => Ledger!Unlisted(PlaceOf(k)) = PlaceOf(k)
      BY DEF PlaceOf, Ledger!Unlisted
    <3>2. PlaceOf(k)' = IF k \in Referenced /\ k \notin Referenced'
                        THEN Ledger!Unlisted(PlaceOf(k)) ELSE PlaceOf(k)
      BY <1>2, <2>10, OtherPlaces
    <3> QED BY <2>10, <3>1, <3>2
  <2>12. Ledger!RemoveSubmission(s)
    BY <1>2, <1>3, <2>6, <2>7, <2>8, <2>11
    DEF Ledger!RemoveSubmission, SameSenders, SameReceipts
  <2> QED BY <2>12 DEF Ledger!Next
<1> QED BY <1>4, <1>5

LEMMA StepInLedger == LedgerInv /\ [Next]_vars => [Ledger!Next]_Ledger!ledgerVars
<1> SUFFICES ASSUME LedgerInv, [Next]_vars PROVE [Ledger!Next]_Ledger!ledgerVars
  OBVIOUS
<1>1. IInv /\ TypeInv
  BY DEF LedgerInv, IInv
<1>2. EnvelopesApart'
  BY LedgerInvStep DEF LedgerInv
<1>3. CASE Seal \/ UNCHANGED vars
  <2>1. SameSenders /\ SameReceipts /\ SameOpened /\ PlacesBut({})
    BY <1>3, OpenedKept
    DEF Seal, vars, SameSenders, SenderOf, SameReceipts, ReceiptOf, PlacesBut, PlaceOf,
        Referenced, KeysOf, LiveRows
  <2>2. CASE Seal
    <3>1. Ledger!Seal
      BY <2>1, <2>2
      DEF Seal, Ledger!Seal, SameSenders, SameReceipts, SameOpened, PlacesBut
    <3> QED BY <3>1 DEF Ledger!Next
  <2> QED BY <1>3, <2>1, <2>2, LedgerStutters DEF vars
<1>4. ASSUME NEW r \in Requests, HandlerStep(r) \/ Abort(r), Works(r), req[r].op = "upload"
      PROVE  [Ledger!Next]_Ledger!ledgerVars
  <2>1. CASE UploadCommit(r)
    BY <1>2, <1>4, <2>1, CommitInLedger DEF Ledger!Next
  <2> QED BY <1>4, <2>1, UploadInLedger
<1>5. ASSUME NEW r \in Requests, HandlerStep(r) \/ Abort(r), Works(r), req[r].op # "upload"
      PROVE  [Ledger!Next]_Ledger!ledgerVars
  <2>1. CASE UNCHANGED <<page, uploads, envelopes, objects>>
    <3>1. UNCHANGED Referenced /\ SameOpened
      BY <2>1, OpenedKept DEF Referenced, KeysOf, LiveRows
    <3>2. PlacesBut({})
      BY <1>5, <2>1, <3>1, OtherPlaces DEF PlacesBut
    <3> QED BY <1>5, <2>1, <3>1, <3>2, OtherKept, LedgerStutters
  <2> QED
    BY <1>1, <1>5, <2>1, OtherSteps, DeleteFileInLedger, DeleteSubmissionInLedger,
       DeletePageInLedger, DeleteObjectInLedger
<1> QED BY <1>1, <1>3, <1>4, <1>5, BeginInLedger, Cases

\* The handlers, their SQL and their store calls, in any order and cut anywhere, do
\* what the ledger says: a file is listed once and only with its object in the store,
\* a submission goes as a whole and every listed file was answered with the receipt of
\* the file that opened its submission (handleUpload, CreateUpload, the three deletes).
THEOREM FilesFollowTheLedger == Spec => ImplementsLedger
<1>1. Init => Ledger!Init
  BY DEF Init, Ledger!Init, PlaceOf, SenderOf, ReceiptOf, OpenedBy, Referenced, KeysOf,
         LiveRows, LiveEnvelopes, IdleHandler
<1> QED BY <1>1, StepInLedger, LedgerInvHolds, PTL DEF Spec, ImplementsLedger, Ledger!Spec

-----------------------------------------------------------------------------
(* What is left behind.                                                    *)

\* An upload knows its row when it is done, and a delete of a file the row it read.
UploadRows ==
    /\ \A r \in Requests : req[r].op = "upload" /\ req[r].row # 0 => Done(r)
    /\ \A u \in LiveRows : req[uploads[u].key].row = u

FileDelete(r) ==
    req[r].op = "deleteFile"
    => /\ \E k \in Requests : req[r].list = {k} /\ req[k].row = req[r].row
       /\ req[r].row # 0
       /\ req[r].at = "row" => req[r].todo = {}

RowsAreKnown == UploadRows /\ \A r \in Requests : FileDelete(r)

\* The steps of a delete of a file: it keeps what it has read.
LEMMA FileDeleteSteps ==
    ASSUME IInv, NEW r \in Requests, HandlerStep(r) \/ Abort(r), req[r].op = "deleteFile"
    PROVE  /\ req'[r].list = req[r].list /\ req'[r].row = req[r].row
           /\ req'[r].at = "row" => req[r].at = "log" /\ req'[r].todo = req[r].todo
<1>1. TypeOK /\ HandlerInv(r)
  BY DEF IInv, TypeInv
<1>2. ASSUME NEW step, Goto(r, step)
      PROVE  /\ req'[r].list = req[r].list /\ req'[r].row = req[r].row
             /\ req'[r].todo = req[r].todo /\ req'[r].at = step
  BY <1>1, <1>2 DEF Goto, TypeOK, Handler
<1>3. CASE DeleteObject(r)
  <2>1. PICK k : Visited(r, k, "object", "log")
    BY <1>3 DEF DeleteObject
  <2>2. req'[r].list = req[r].list /\ req'[r].row = req[r].row
    BY <1>1, <2>1 DEF Visited, TypeOK, Handler
  <2>3. req'[r].at \in {"object", "log"}
    BY <2>1, VisitedTo DEF IInv
  <2> QED BY <2>2, <2>3
<1>4. CASE RecordDeletion(r)
  <2>1. PICK step : Goto(r, step)
    BY <1>4 DEF RecordDeletion
  <2> QED BY <1>2, <1>4, <2>1 DEF RecordDeletion, At
<1>5. CASE DeleteFileCheck(r) \/ DeleteFileRow(r) \/ Abort(r)
  <2>1. PICK step : Goto(r, step) /\ step # "row"
    BY <1>5 DEF DeleteFileCheck, DeleteFileRow, Abort
  <2> QED BY <1>2, <2>1
<1> QED
  BY <1>3, <1>4, <1>5
  DEF HandlerStep, At, UploadStore, UploadCommit, UploadCommitFails, UploadCleanup,
      DeleteSubmissionTx, DeletePageList, DeletePageRecheck, DeletePageDrop, ZipVerify,
      Stream, RecordExport, ManifestLog, ManifestFiles, ManifestEvents

LEMMA RowsStayKnown ==
    ASSUME IInv, RowsAreKnown, [Next]_vars
    PROVE  RowsAreKnown'
<1>1. TypeInv /\ TypeOK /\ Settled
  BY SettledStep DEF IInv, TypeInv
<1>2. \A u \in LiveRows : uploads[u].key \in Requests /\ Done(uploads[u].key)
  BY <1>1, RowTypes DEF IInv, TablesInv, KeysAreDone, TypeInv, Row
<1>3. \A k \in Requests : Done(k) => req'[k].row = req[k].row
  BY <1>1 DEF Settled
<1>4. ASSUME NEW r \in Requests, req'[r] = req[r] PROVE FileDelete(r)'
  <2>1. ASSUME NEW k \in Requests, req[r].list = {k} PROVE req'[k].row = req[k].row
    BY <1>3, <2>1 DEF IInv, HandlerInv, HandlerInOrder
  <2> QED BY <1>4, <2>1 DEF RowsAreKnown, FileDelete
<1>5. CASE Seal \/ UNCHANGED vars
  <2>1. req' = req /\ uploads' = uploads
    BY <1>5 DEF Seal, vars
  <2> QED BY <1>4, <2>1 DEF RowsAreKnown, UploadRows, Done, LiveRows
<1>6. ASSUME NEW r \in Requests, Begins(r) PROVE RowsAreKnown'
  <2>1. PICK h : Fresh(h) /\ req' = [req EXCEPT ![r] = h]
    BY <1>6 DEF Begins
  <2>2. req'[r] = h /\ \A q \in Requests \ {r} : req'[q] = req[q]
    BY <1>1, <2>1 DEF TypeOK
  <2>3. LiveRows' = LiveRows /\ uploads' = uploads
    BY <1>6 DEF Begins, LiveRows
  <2>4. UploadRows'
    <3>1. \A u \in LiveRows : req'[uploads[u].key].row = u
      BY <1>2, <1>3 DEF RowsAreKnown, UploadRows
    <3>2. \A q \in Requests : req'[q].op = "upload" /\ req'[q].row # 0 => Done(q)'
      BY <2>1, <2>2 DEF RowsAreKnown, UploadRows, Done, Fresh
    <3> QED BY <2>3, <3>1, <3>2 DEF UploadRows
  <2>5. FileDelete(r)'
    <3>1. CASE h.op = "deleteFile"
      <4>1. PICK u \in LiveRows : u = h.row /\ h.list = {uploads[u].key} /\ h.at = "check"
        BY <2>1, <3>1 DEF Fresh
      <4>2. req'[uploads[u].key].row = u /\ uploads[u].key \in Requests
        BY <1>2, <1>3 DEF RowsAreKnown, UploadRows
      <4>3. u # 0
        BY DEF LiveRows, RowIds
      <4> QED BY <2>2, <4>1, <4>2, <4>3 DEF FileDelete
    <3> QED BY <2>2, <3>1 DEF FileDelete
  <2> QED BY <1>4, <2>2, <2>4, <2>5 DEF RowsAreKnown
<1>7. ASSUME NEW r \in Requests, HandlerStep(r) \/ Abort(r), Works(r) PROVE RowsAreKnown'
  <2>1. /\ \A q \in Requests \ {r} : req'[q] = req[q]
        /\ req'[r].op = req[r].op
    BY <1>7 DEF Works, Moves
  <2>2. \A q \in Requests : req'[q].op = "upload" /\ req'[q].row # 0 => Done(q)'
    <3>1. CASE req[r].op = "upload"
      <4>1. CASE UploadCommit(r)
        <5>1. Done(r)'
          BY <1>1, <4>1, CommitRecords DEF Records
        <5> QED BY <2>1, <5>1 DEF RowsAreKnown, UploadRows, Done
      <4>2. ASSUME NEW step, Goto(r, step) PROVE req'[r].row = req[r].row
        BY <1>1, <4>2 DEF Goto, TypeOK, Handler
      <4>3. req[r].row = 0
        BY <1>7, <3>1 DEF RowsAreKnown, UploadRows, Done, Works, Outcomes
      <4>4. CASE ~ UploadCommit(r)
        <5>1. req'[r].row = 0
          BY <1>7, <3>1, <4>2, <4>3, <4>4, UploadSteps
          DEF UploadStore, UploadCommitFails, UploadCleanup, Abort
        <5> QED BY <2>1, <5>1 DEF RowsAreKnown, UploadRows, Done
      <4> QED BY <4>1, <4>4
    <3>2. CASE req[r].op # "upload"
      BY <2>1, <3>2 DEF RowsAreKnown, UploadRows, Done
    <3> QED BY <3>1, <3>2
  <2>3. ASSUME NEW u \in LiveRows' PROVE req'[uploads'[u].key].row = u
    <3>1. CASE u \in LiveRows /\ uploads'[u] = uploads[u]
      BY <1>2, <1>3, <3>1 DEF RowsAreKnown, UploadRows
    <3>2. CASE UploadCommit(r)
      <4>1. PICK w, v : Records(r, w, v)
        BY <1>1, <3>2, CommitRecords
      <4>2. uploads'[w].key = r /\ req'[r].row = w
        BY <4>1 DEF Records
      <4>3. u = w \/ (u \in LiveRows /\ uploads'[u] = uploads[u])
        BY <4>1 DEF Records
      <4> QED BY <3>1, <4>2, <4>3
    <3>3. CASE ~ UploadCommit(r)
      <4>1. u \in LiveRows /\ uploads'[u] = uploads[u]
        <5>1. ASSUME NEW rows, NEW gone, Takes(rows, gone)
              PROVE  u \in LiveRows /\ uploads'[u] = uploads[u]
          BY <1>1, <5>1, TakesRows
        <5>2. ~ Drops
          BY DEF Drops, LiveRows
        <5>3. CASE UNCHANGED uploads
          BY <5>3 DEF LiveRows
        <5> QED BY <1>1, <1>7, <3>3, <5>1, <5>2, <5>3, TableEffects DEF Notes, TablesKept
      <4> QED BY <3>1, <4>1
    <3> QED BY <3>2, <3>3
  <2>4. FileDelete(r)'
    <3>1. CASE req[r].op = "deleteFile"
      <4>1. /\ req'[r].list = req[r].list /\ req'[r].row = req[r].row
            /\ req'[r].at = "row" => req[r].at = "log" /\ req'[r].todo = req[r].todo
        BY <1>7, <3>1, FileDeleteSteps
      <4>2. req[r].at = "log" => req[r].todo = {}
        BY <3>1 DEF IInv, HandlerInv, HandlerInOrder
      <4>3. PICK k \in Requests : req[r].list = {k} /\ req[k].row = req[r].row
        BY <3>1 DEF RowsAreKnown, FileDelete
      <4>4. req'[k].row = req[k].row
        BY <1>3, <4>3 DEF IInv, HandlerInv, HandlerInOrder
      <4>5. req[r].row # 0
        BY <3>1 DEF RowsAreKnown, FileDelete
      <4> QED BY <4>1, <4>2, <4>3, <4>4, <4>5 DEF FileDelete
    <3> QED BY <2>1, <3>1 DEF FileDelete
  <2> QED BY <1>4, <2>1, <2>2, <2>3, <2>4 DEF RowsAreKnown, UploadRows
<1> QED BY <1>1, <1>5, <1>6, <1>7, Cases

\* A row id that was given out twice stays so.
LEMMA ReuseStays ==
    ASSUME IInv, RowsAreKnown, [Next]_vars, RowIdReused
    PROVE  RowIdReused'
<1>1. Settled
  BY SettledStep DEF IInv
<1>2. PICK r, s \in Requests :
        /\ r # s
        /\ req[r].op = "upload" /\ req[s].op = "upload"
        /\ req[r].row # 0 /\ req[r].row = req[s].row
  BY DEF RowIdReused
<1>3. req'[r] = req[r] /\ req'[s] = req[s]
  BY <1>1, <1>2 DEF RowsAreKnown, UploadRows, Settled
<1> QED BY <1>2, <1>3 DEF RowIdReused

OwedInv == LedgerInv /\ RowsAreKnown /\ StrandedIsOwed

\* A row that goes while its object stays goes with its submission.
LEMMA RowGoesWithSubmission ==
    ASSUME LedgerInv, RowsAreKnown, NEW r \in Requests, HandlerStep(r) \/ Abort(r), Works(r),
           page' # "gone", ~ RowIdReused,
           NEW k \in Referenced, k \notin Referenced', k \in objects'
    PROVE  At(r, "deleteSubmission", "object")' /\ k \in req'[r].todo
<1>1. IInv /\ TypeInv /\ TypeOK /\ HandlerInv(r) /\ k \in Requests /\ Done(k)
  BY ReferencedAreDone DEF LedgerInv, IInv, TypeInv
<1>2. req[r].op # "upload"
  <2>1. CASE UploadCommit(r)
    <3>1. PICK u, v : Records(r, u, v)
      BY <1>1, <2>1, CommitRecords
    <3>2. k \in Referenced'
      BY <3>1 DEF Records, Referenced, KeysOf
    <3> QED BY <3>2
  <2>2. CASE UNCHANGED uploads
    BY <2>2 DEF Referenced, KeysOf, LiveRows
  <2> QED
    BY <1>1, <2>1, <2>2, UploadSteps
    DEF UploadStore, UploadCommitFails, UploadCleanup, Abort
<1>3. ~ UNCHANGED uploads
  BY DEF Referenced, KeysOf, LiveRows
<1>4. CASE DeleteFileRow(r)
  <2>1. PICK u \in LiveRows : u = req[r].row /\ uploads' = [uploads EXCEPT ![u] = NoRow]
    BY <1>3, <1>4 DEF DeleteFileRow
  <2>2. LiveRows' = LiveRows \ {u} /\ \A w \in LiveRows' : uploads'[w] = uploads[w]
    BY <1>1, <2>1 DEF LiveRows, TypeOK
  <2>3. uploads[u].key = k
    BY <2>2 DEF Referenced, KeysOf
  <2>4. req[k].row = u /\ u # 0
    BY <2>3 DEF RowsAreKnown, UploadRows, LiveRows, RowIds
  <2>5. PICK j \in Requests : req[r].list = {j} /\ req[j].row = u
    BY <1>4, <2>1 DEF RowsAreKnown, FileDelete, DeleteFileRow, At
  <2>6. Done(j)
    BY <1>1, <2>5 DEF HandlerInv, HandlerInOrder
  <2>7. j = k
    BY <1>1, <2>4, <2>5, <2>6 DEF RowIdReused, Done
  <2>8. req[r].todo = {} /\ req[r].op \in Deletes
    BY <1>4 DEF RowsAreKnown, FileDelete, DeleteFileRow, At, Deletes
  <2>9. k \notin objects
    BY <1>1, <2>5, <2>7, <2>8 DEF HandlerInv, HandlerAndObjects
  <2> QED BY <1>4, <2>9 DEF DeleteFileRow
<1>5. CASE DeleteSubmissionTx(r)
  <2> DEFINE found == {v \in LiveEnvelopes : envelopes[v].sub = req[r].sub}
             rows == {u \in LiveRows : uploads[u].env \in found}
  <2>1. found # {}
    BY <1>3, <1>5 DEF DeleteSubmissionTx
  <2>2. uploads' = WithoutRows(rows) /\ Visit(r, KeysOf(rows), "object", "log")
    BY <1>5, <2>1 DEF DeleteSubmissionTx
  <2>3. LiveRows' = LiveRows \ rows /\ \A w \in LiveRows' : uploads'[w] = uploads[w]
    BY <1>1, <2>2 DEF LiveRows, WithoutRows, TypeOK
  <2>4. k \in KeysOf(rows)
    BY <2>3 DEF Referenced, KeysOf
  <2> HIDE DEF rows, found
  <2>5. req'[r].todo = KeysOf(rows) /\ req'[r].at = "object" /\ req'[r].op = req[r].op
    BY <1>1, <2>2, <2>4 DEF Visit, TypeOK, Handler
  <2> QED BY <1>5, <2>4, <2>5 DEF DeleteSubmissionTx, At
<1>6. ~ DeletePageDrop(r)
  BY DEF DeletePageDrop
<1>7. ~ DeleteObject(r)
  BY <1>3 DEF DeleteObject
<1> QED BY <1>1, <1>2, <1>3, <1>4, <1>5, <1>6, <1>7, OtherSteps

\* Who owes an object, goes on owing it until it is recorded or removed.
LEMMA DebtsAreKept ==
    ASSUME Abortable = {}, OwedInv, NEW r \in Requests, HandlerStep(r) \/ Abort(r), Works(r),
           page' # "gone", ~ RowIdReused,
           NEW k \in objects \ Referenced, k \in objects' \ Referenced'
    PROVE  \/ req'[k].at \in {"commit", "cleanup"}
           \/ \E q \in Requests :
                 At(q, "deleteSubmission", "object")' /\ k \in req'[q].todo
<1>1. IInv /\ TypeInv /\ TypeOK /\ k \in Requests /\ HandlerStep(r)
  BY DEF OwedInv, LedgerInv, IInv, TypeInv, TypeOK, Abort
<1>2. \A q \in Requests \ {r} : req'[q] = req[q]
  BY DEF Works, Moves
<1>3. page # "gone"
  BY <1>1 DEF HandlerStep, UploadStore, UploadCommit, UploadCommitFails, UploadCleanup,
        DeleteFileCheck, DeleteFileRow, DeleteSubmissionTx, DeletePageList,
        DeletePageRecheck, DeletePageDrop, DeleteObject, RecordDeletion, ZipVerify, Stream,
        RecordExport, ManifestLog, ManifestFiles, ManifestEvents
<1>4. CASE k = r /\ req[k].at \in {"commit", "cleanup"}
  <2>1. req[r].op = "upload"
    BY <1>4 DEF OwedInv, LedgerInv, ObjectsAreStored
  <2>2. CASE UploadCommit(r)
    <3>1. PICK u, v : Records(r, u, v)
      BY <1>1, <2>2, CommitRecords
    <3>2. r \in Referenced'
      BY <3>1 DEF Records, Referenced, KeysOf
    <3> QED BY <1>4, <3>2
  <2>3. CASE UploadCommitFails(r)
    BY <1>1, <1>4, <2>3 DEF UploadCommitFails, Goto, TypeOK, Handler
  <2>4. ~ UploadCleanup(r) /\ ~ UploadStore(r) /\ ~ Abort(r)
    BY <1>4 DEF UploadCleanup, UploadStore, At, Abort
  <2> QED BY <1>1, <2>1, <2>2, <2>3, <2>4, UploadSteps
<1>5. CASE k # r /\ req[k].at \in {"commit", "cleanup"}
  BY <1>1, <1>2, <1>5
<1>6. CASE \E q \in Requests : At(q, "deleteSubmission", "object") /\ k \in req[q].todo
  <2>1. PICK q \in Requests : At(q, "deleteSubmission", "object") /\ k \in req[q].todo
    BY <1>6
  <2>2. CASE q # r
    BY <1>2, <2>1, <2>2 DEF At
  <2>3. CASE q = r
    <3>1. DeleteObject(r)
      BY <1>1, <2>1, <2>3 DEF HandlerStep, At, UploadStore, UploadCommit, UploadCommitFails,
        UploadCleanup, DeleteFileCheck, DeleteFileRow, DeleteSubmissionTx, DeletePageList,
        DeletePageRecheck, DeletePageDrop, RecordDeletion, ZipVerify, Stream, RecordExport,
        ManifestLog, ManifestFiles, ManifestEvents
    <3>2. PICK j \in req[r].todo : objects' = objects \ {j} /\ Visited(r, j, "object", "log")
      BY <2>1, <2>3, <3>1 DEF DeleteObject, At
    <3>3. k # j
      BY <3>2
    <3>4. k \in req'[r].todo /\ At(r, "deleteSubmission", "object")'
      BY <1>1, <2>1, <2>3, <3>2, <3>3, VisitedTo DEF At
    <3> QED BY <3>4
  <2> QED BY <2>2, <2>3
<1> QED BY <1>3, <1>4, <1>5, <1>6 DEF OwedInv, StrandedIsOwed

LEMMA OwedStep ==
    ASSUME Abortable = {}
    PROVE  OwedInv /\ [Next]_vars => OwedInv'
<1> SUFFICES ASSUME OwedInv, [Next]_vars PROVE OwedInv'
  OBVIOUS
<1>1. IInv /\ TypeInv /\ TypeOK /\ LedgerInv' /\ RowsAreKnown'
  BY LedgerInvStep, RowsStayKnown DEF OwedInv, LedgerInv, IInv, TypeInv
<1>2. RowIdReused => RowIdReused'
  BY <1>1, ReuseStays DEF OwedInv
<1>3. CASE Seal \/ UNCHANGED vars
  <2>1. /\ objects' = objects /\ Referenced' = Referenced /\ req' = req
        /\ page = "gone" => page' = "gone"
    BY <1>3 DEF Seal, vars, Referenced, KeysOf, LiveRows
  <2> QED BY <1>1, <1>2, <2>1 DEF OwedInv, StrandedIsOwed, At
<1>4. ASSUME NEW r \in Requests, Begins(r) PROVE OwedInv'
  <2>1. /\ objects' = objects /\ Referenced' = Referenced /\ page' = page
        /\ \A q \in Requests \ {r} : req'[q] = req[q]
        /\ req[r].at = "idle"
    BY <1>1, <1>4 DEF Begins, TypeOK, Referenced, KeysOf, LiveRows
  <2>2. objects \subseteq Requests
    BY <1>1 DEF TypeOK
  <2> QED BY <1>1, <1>2, <2>1, <2>2 DEF OwedInv, StrandedIsOwed, At
<1>5. ASSUME NEW r \in Requests, HandlerStep(r) \/ Abort(r), Works(r) PROVE OwedInv'
  <2>1. ASSUME page' # "gone", ~ RowIdReused', NEW k \in objects' \ Referenced'
        PROVE  \/ req'[k].at \in {"commit", "cleanup"}
               \/ \E q \in Requests :
                     At(q, "deleteSubmission", "object")' /\ k \in req'[q].todo
    <3>1. CASE k \in objects \ Referenced
      BY <1>2, <1>5, <2>1, <3>1, DebtsAreKept
    <3>2. CASE k \in Referenced
      BY <1>2, <1>5, <2>1, <3>2, RowGoesWithSubmission DEF OwedInv
    <3>3. CASE k \notin objects
      <4>1. k = r /\ req[r].op = "upload"
        BY <1>1, <1>5, <2>1, <3>3, ObjectEffects
      <4>2. UploadStore(r)
        BY <1>1, <1>5, <2>1, <3>3, <4>1, UploadSteps
        DEF UploadCommit, UploadCommitFails, UploadCleanup, Abort
      <4>3. req'[r].at = "commit"
        BY <1>1, <4>2 DEF UploadStore, Goto, TypeOK, Handler
      <4> QED BY <4>1, <4>3
    <3> QED BY <3>1, <3>2, <3>3
  <2> QED BY <1>1, <2>1 DEF OwedInv, StrandedIsOwed
<1> QED BY <1>1, <1>3, <1>4, <1>5, Cases

\* The safety half of NoObjectStranded: when no request is cut, an object that no row
\* refers to (server.go:616, server.go:1239) is one that a handler still holds and will
\* record or remove, unless its page was deleted or a row id was given out twice.
THEOREM NothingIsForgotten ==
    ASSUME Abortable = {} PROVE Spec => []StrandedIsOwed
<1>1. Init => OwedInv
  <2> SUFFICES ASSUME Init PROVE OwedInv
    OBVIOUS
  <2>1. LiveRows = {} /\ objects = {} /\ \A r \in Requests : req[r] = IdleHandler
    BY DEF Init, LiveRows
  <2> QED BY <2>1, StoredInit DEF OwedInv, RowsAreKnown, UploadRows, FileDelete,
                                  StrandedIsOwed, IdleHandler
<1>2. OwedInv => StrandedIsOwed
  BY DEF OwedInv
<1> QED BY <1>1, <1>2, OwedStep, PTL DEF Spec
=============================================================================
