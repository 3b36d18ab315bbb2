------------------------------- MODULE Intake -------------------------------
(***************************************************************************)
(* The files of one page: the uploads, submission_envelopes and            *)
(* custody_events tables, the object store beside them, and the handlers   *)
(* that have to keep the two in step without a transaction over both.      *)
(* A step is one SQL statement or transaction, or one call of the object   *)
(* store.  Object keys carry a fresh UUID, so an object is named by the    *)
(* upload request that wrote it, and so is a receipt token by the request  *)
(* that drew it.                                                           *)
(*                                                                         *)
(* Left out: what PageLifecycle has (patches, the post_seal mark, page ids *)
(* used again), reports, whose objects a delete of a page takes after the  *)
(* files (ReportChannel), and the contents of files.                       *)
(***************************************************************************)
EXTENDS Naturals, FiniteSets

CONSTANTS
    Requests,     \* HTTP requests, each served once
    Menu,         \* the operations that arrive in this instance
    MaxRow,       \* bound: upload rows at a time
    MaxEnvelope,  \* bound: envelopes at a time
    Submissions,  \* submission ids chosen by uploaders
    Abortable,    \* requests that may be cut: by a cancelled context, a
                  \* failing call or a crash of the process
    NoSub, NoRow, NoEnvelope, NoToken

Ops == {"upload", "deleteFile", "deleteSubmission", "deletePage",
        "download", "zip", "manifest"}

ASSUME BoundAssumption == MaxRow \in Nat /\ MaxEnvelope \in Nat
ASSUME MenuAssumption == Menu \subseteq Ops /\ Abortable \subseteq Requests

VARIABLES
    page,       \* "open", "sealed" or "gone"
    uploads,    \* the uploads table: row id -> row
    envelopes,  \* the submission_envelopes table: row id -> envelope
    events,     \* the page's custody_events
    objects,    \* the keys the object store holds
    req         \* the state of each request's handler

vars == <<page, uploads, envelopes, events, objects, req>>

RowIds == 1..MaxRow
EnvIds == 1..MaxEnvelope

\* s3_key and submission_envelope_id (0 for NULL).
Row == [key : Requests, env : EnvIds \cup {0}]

Envelope == [sub : Submissions, token : Requests]

ASSUME NullAssumption ==
    /\ NoRow \notin Row /\ NoEnvelope \notin Envelope
    /\ NoSub \notin Submissions /\ NoToken \notin Requests

\* upload: the upload_id column (0 for NULL).  about: the objects the event
\* tells of, which for file.deleted is its detail's object_key.
EventTypes == {"upload.accepted", "file.downloaded", "file.deleted",
               "submission.deleted", "page.exported"}
Event == [type : EventTypes, by : Requests, upload : RowIds \cup {0},
          about : SUBSET Requests]

Steps == {"idle", "store", "commit", "cleanup", "check", "object", "log",
          "row", "tx", "list", "recheck", "drop", "stream", "verify", "write",
          "files", "events", "ok", "refused", "failed"}
Outcomes == {"ok", "refused", "failed"}

\* row: the upload id of the URL, or the one an upload was answered with.
\* list: the keys the handler has read; todo: those of them still to visit.
\* sent (history): the objects that have gone out to the client.
Handler == [op : Ops \cup {"idle"}, at : Steps, row : RowIds \cup {0},
            sub : Submissions \cup {NoSub}, token : Requests \cup {NoToken},
            list : SUBSET Requests, todo : SUBSET Requests,
            sent : SUBSET Requests]

IdleHandler == [op |-> "idle", at |-> "idle", row |-> 0, sub |-> NoSub,
                token |-> NoToken, list |-> {}, todo |-> {}, sent |-> {}]

Init ==
    /\ page = "open"
    /\ uploads = [u \in RowIds |-> NoRow]
    /\ envelopes = [v \in EnvIds |-> NoEnvelope]
    /\ events = {}
    /\ objects = {}
    /\ req = [r \in Requests |-> IdleHandler]

-----------------------------------------------------------------------------
LiveRows == {u \in RowIds : uploads[u] # NoRow}
LiveEnvelopes == {v \in EnvIds : envelopes[v] # NoEnvelope}
KeysOf(rows) == {uploads[u].key : u \in rows}
Referenced == KeysOf(LiveRows)

\* SQLite's choice of id: one more than the largest in use.
IsNext(id, live) == (\A x \in live : x < id) /\ (id > 1 => id - 1 \in live)

Begin(r, op, handler) ==
    /\ op \in Menu
    /\ req[r].at = "idle"
    /\ req' = [req EXCEPT ![r] = handler]

At(r, op, step) == req[r].op = op /\ req[r].at = step

Goto(r, step) == req' = [req EXCEPT ![r].at = step]

\* A handler that has read some keys and visits them one by one at the given
\* step, then goes on to the next.
Visit(r, keys, step, next) ==
    req' = [req EXCEPT ![r].list = keys, ![r].todo = keys,
                       ![r].at = IF keys = {} THEN next ELSE step]

Visited(r, k, step, next) ==
    req' = [req EXCEPT ![r].todo = @ \ {k},
                       ![r].at = IF req[r].todo = {k} THEN next ELSE step]

\* Mutant: the events of a deleted upload keep its id.
UnlinkNothing(rows) == events

\* ON DELETE SET NULL of custody_events.upload_id.
Unlink(rows) == {[e EXCEPT !.upload = IF @ \in rows THEN 0 ELSE @] : e \in events}

Log(r, type, upload, about) ==
    events' = events \cup
        {[type |-> type, by |-> r, upload |-> upload, about |-> about]}

-----------------------------------------------------------------------------
\* POST /u/{slug}: let in, write the object, record it; on failure remove it.

UploadAdmit(r, sub) ==
    /\ page = "open"
    /\ Begin(r, "upload", [IdleHandler EXCEPT !.op = "upload", !.at = "store",
                                              !.sub = sub])
    /\ UNCHANGED <<page, uploads, envelopes, events, objects>>

UploadStore(r) ==
    /\ At(r, "upload", "store")
    /\ objects' = objects \cup {r}
    /\ Goto(r, "commit")
    /\ UNCHANGED <<page, uploads, envelopes, events>>

\* Mutant: nothing conflicts, every upload gets an envelope of its own.
EnvelopeForEach(r, sub, v) ==
    /\ IsNext(v, LiveEnvelopes)
    /\ envelopes' = [envelopes EXCEPT ![v] = [sub |-> sub, token |-> r]]

\* ensureSubmissionEnvelope: INSERT ... ON CONFLICT DO NOTHING, then a read.
EnvelopeFor(r, sub, v) ==
    IF \E w \in LiveEnvelopes : envelopes[w].sub = sub
    THEN /\ v \in LiveEnvelopes
         /\ envelopes[v].sub = sub
         /\ UNCHANGED envelopes
    ELSE /\ IsNext(v, LiveEnvelopes)
         /\ envelopes' = [envelopes EXCEPT ![v] = [sub |-> sub, token |-> r]]

\* CreateUpload: envelope, row and upload.accepted in one transaction.
UploadCommit(r) ==
    /\ At(r, "upload", "commit")
    /\ page # "gone"
    /\ \E u \in RowIds, v \in EnvIds :
          /\ IsNext(u, LiveRows)
          /\ EnvelopeFor(r, req[r].sub, v)
          /\ uploads' = [uploads EXCEPT ![u] = [key |-> r, env |-> v]]
          /\ Log(r, "upload.accepted", u, {r})
          /\ req' = [req EXCEPT ![r].at = "ok", ![r].row = u,
                                ![r].token = envelopes'[v].token]
    /\ UNCHANGED <<page, objects>>

\* Mutant: the row is inserted outside the transaction that fails.
UploadCommitFailsHalfway(r) ==
    /\ At(r, "upload", "commit")
    /\ r \in Abortable
    /\ \E u \in RowIds :
          /\ IsNext(u, LiveRows)
          /\ uploads' = [uploads EXCEPT ![u] = [key |-> r, env |-> 0]]
    /\ Goto(r, "cleanup")
    /\ UNCHANGED <<page, envelopes, events, objects>>

\* The transaction fails: the page's row is gone, or the context or the
\* database gives out.
UploadCommitFails(r) ==
    /\ At(r, "upload", "commit")
    /\ page = "gone" \/ r \in Abortable
    /\ Goto(r, "cleanup")
    /\ UNCHANGED <<page, uploads, envelopes, events, objects>>

UploadCleanup(r) ==
    /\ At(r, "upload", "cleanup")
    /\ objects' = objects \ {r}
    /\ Goto(r, "failed")
    /\ UNCHANGED <<page, uploads, envelopes, events>>

-----------------------------------------------------------------------------
\* DELETE /files/{id}: read the row, read the page, delete the object, record
\* file.deleted, delete the row by its id.

DeleteFileRead(r, u) ==
    /\ u \in LiveRows
    /\ Begin(r, "deleteFile",
             [IdleHandler EXCEPT !.op = "deleteFile", !.at = "check", !.row = u,
                !.list = {uploads[u].key}, !.todo = {uploads[u].key}])
    /\ UNCHANGED <<page, uploads, envelopes, events, objects>>

\* Mutant: the object is left for later, the event recorded at once.
DeleteFileCheckThenLog(r) ==
    /\ At(r, "deleteFile", "check")
    /\ Goto(r, IF page = "gone" THEN "failed" ELSE "log")
    /\ UNCHANGED <<page, uploads, envelopes, events, objects>>

DeleteFileCheck(r) ==
    /\ At(r, "deleteFile", "check")
    /\ Goto(r, IF page = "gone" THEN "failed" ELSE "object")
    /\ UNCHANGED <<page, uploads, envelopes, events, objects>>

DeleteFileRow(r) ==
    LET u == req[r].row IN
    /\ At(r, "deleteFile", "row")
    /\ IF u \in LiveRows
       THEN /\ uploads' = [uploads EXCEPT ![u] = NoRow]
            /\ events' = Unlink({u})
            /\ Goto(r, "ok")
       ELSE /\ UNCHANGED <<uploads, events>>
            /\ Goto(r, "failed")
    /\ UNCHANGED <<page, envelopes, objects>>

-----------------------------------------------------------------------------
\* DELETE /submissions/{id}: rows and envelope in one transaction, then the
\* objects one by one, then the event.

DeleteSubmissionRead(r, sub) ==
    /\ page # "gone"
    /\ Begin(r, "deleteSubmission",
             [IdleHandler EXCEPT !.op = "deleteSubmission", !.at = "tx",
                                 !.sub = sub])
    /\ UNCHANGED <<page, uploads, envelopes, events, objects>>

\* Mutant: only the envelope is deleted; the rows stay, their link set NULL.
WithoutEnvelopeOnly(rows) ==
    [u \in RowIds |-> IF u \in rows THEN [uploads[u] EXCEPT !.env = 0]
                                   ELSE uploads[u]]

WithoutRows(rows) == [u \in RowIds |-> IF u \in rows THEN NoRow ELSE uploads[u]]

DeleteSubmissionTx(r) ==
    LET found == {v \in LiveEnvelopes : envelopes[v].sub = req[r].sub}
        rows == {u \in LiveRows : uploads[u].env \in found} IN
    /\ At(r, "deleteSubmission", "tx")
    /\ IF found = {}
       THEN /\ Goto(r, "refused")
            /\ UNCHANGED <<uploads, envelopes, events>>
       ELSE /\ uploads' = WithoutRows(rows)
            /\ envelopes' = [v \in EnvIds |->
                                IF v \in found THEN NoEnvelope ELSE envelopes[v]]
            /\ events' = Unlink(rows)
            /\ Visit(r, KeysOf(rows), "object", "log")
    /\ UNCHANGED <<page, objects>>

-----------------------------------------------------------------------------
\* DELETE /pages/{id}, with files=1 the objects first: list them, delete them,
\* check the seal again, drop the row with all that hangs on it.

DeletePageRead(r, files) ==
    /\ page = "open"
    /\ Begin(r, "deletePage",
             [IdleHandler EXCEPT !.op = "deletePage",
                                 !.at = IF files THEN "list" ELSE "recheck"])
    /\ UNCHANGED <<page, uploads, envelopes, events, objects>>

DeletePageList(r) ==
    /\ At(r, "deletePage", "list")
    /\ Visit(r, Referenced, "object", "recheck")
    /\ UNCHANGED <<page, uploads, envelopes, events, objects>>

DeletePageRecheck(r) ==
    /\ At(r, "deletePage", "recheck")
    /\ Goto(r, IF page = "open" THEN "drop" ELSE "refused")
    /\ UNCHANGED <<page, uploads, envelopes, events, objects>>

DeletePageDrop(r) ==
    /\ At(r, "deletePage", "drop")
    /\ Goto(r, IF page = "gone" THEN "refused" ELSE "ok")
    /\ page' = "gone"
    /\ uploads' = [u \in RowIds |-> NoRow]
    /\ envelopes' = [v \in EnvIds |-> NoEnvelope]
    /\ events' = {}
    /\ UNCHANGED objects

-----------------------------------------------------------------------------
\* What the three deletes share: blobs.Delete of one object, no error if it is
\* not there, and the event that follows the last.

\* Mutant: the loop ends after its first object.
DeleteFirstObject(r) ==
    /\ req[r].at = "object"
    /\ \E k \in req[r].todo : objects' = objects \ {k}
    /\ Goto(r, IF req[r].op = "deletePage" THEN "recheck" ELSE "log")
    /\ UNCHANGED <<page, uploads, envelopes, events>>

DeleteObject(r) ==
    /\ req[r].at = "object"
    /\ \E k \in req[r].todo :
          /\ objects' = objects \ {k}
          /\ Visited(r, k, "object",
                     IF req[r].op = "deletePage" THEN "recheck" ELSE "log")
    /\ UNCHANGED <<page, uploads, envelopes, events>>

\* The foreign keys refuse an event of a page, or of an upload, that is gone.
RecordDeletion(r) ==
    LET u == req[r].row IN
    /\ At(r, "deleteFile", "log") \/ At(r, "deleteSubmission", "log")
    /\ IF page # "gone" /\ (u = 0 \/ u \in LiveRows)
       THEN IF req[r].op = "deleteFile"
            THEN Log(r, "file.deleted", u, req[r].list) /\ Goto(r, "row")
            ELSE Log(r, "submission.deleted", 0, req[r].list) /\ Goto(r, "ok")
       ELSE UNCHANGED events /\ Goto(r, "failed")
    /\ UNCHANGED <<page, uploads, envelopes, objects>>

-----------------------------------------------------------------------------
\* GET /files/{id} and GET /zip.  A missing object is an error before the
\* first byte, an aborted connection after it.  Failing to record the event is
\* only logged.

DownloadRead(r, u) ==
    /\ u \in LiveRows
    /\ Begin(r, "download",
             [IdleHandler EXCEPT !.op = "download", !.at = "stream", !.row = u,
                !.list = {uploads[u].key}, !.todo = {uploads[u].key}])
    /\ UNCHANGED <<page, uploads, envelopes, events, objects>>

ZipList(r) ==
    /\ page # "gone"
    /\ Begin(r, "zip",
             [IdleHandler EXCEPT !.op = "zip", !.list = Referenced,
                !.todo = Referenced,
                !.at = IF Referenced = {} THEN "log" ELSE "verify"])
    /\ UNCHANGED <<page, uploads, envelopes, events, objects>>

ZipVerify(r) ==
    /\ At(r, "zip", "verify")
    /\ \E k \in req[r].todo :
          IF k \notin objects THEN Goto(r, "failed")
          ELSE IF req[r].todo = {k} THEN Visit(r, req[r].list, "write", "log")
          ELSE Visited(r, k, "verify", "verify")
    /\ UNCHANGED <<page, uploads, envelopes, events, objects>>

Streamed(r, k) ==
    req' = [req EXCEPT ![r].sent = @ \cup {k}, ![r].todo = @ \ {k},
                       ![r].at = IF req[r].todo = {k} THEN "log" ELSE @]

\* Mutant: an object that has gone missing under way is left out.
StreamWhatIsThere(r) ==
    /\ At(r, "download", "stream") \/ At(r, "zip", "write")
    /\ \E k \in req[r].todo :
          IF k \in objects THEN Streamed(r, k) ELSE Visited(r, k, req[r].at, "log")
    /\ UNCHANGED <<page, uploads, envelopes, events, objects>>

\* One object goes out to the client.
Stream(r) ==
    /\ At(r, "download", "stream") \/ At(r, "zip", "write")
    /\ \E k \in req[r].todo :
          IF k \in objects THEN Streamed(r, k) ELSE Goto(r, "failed")
    /\ UNCHANGED <<page, uploads, envelopes, events, objects>>

RecordExport(r) ==
    LET u == req[r].row IN
    /\ At(r, "download", "log") \/ At(r, "zip", "log")
    /\ IF page # "gone" /\ (u = 0 \/ u \in LiveRows)
       THEN Log(r, IF u = 0 THEN "page.exported" ELSE "file.downloaded", u,
                req[r].list)
       ELSE UNCHANGED events
    /\ Goto(r, "ok")
    /\ UNCHANGED <<page, uploads, envelopes, objects>>

-----------------------------------------------------------------------------
\* GET /manifest: the event, then the uploads, then the events.

\* Mutant: the events before the uploads.
AfterManifestSwapped(step) ==
    CASE step = "log"    -> "events"
      [] step = "events" -> "files"
      [] step = "files"  -> "ok"

AfterManifest(step) ==
    CASE step = "log"    -> "files"
      [] step = "files"  -> "events"
      [] step = "events" -> "ok"

ManifestRead(r) ==
    /\ page # "gone"
    /\ Begin(r, "manifest",
             [IdleHandler EXCEPT !.op = "manifest", !.at = "log"])
    /\ UNCHANGED <<page, uploads, envelopes, events, objects>>

ManifestLog(r) ==
    /\ At(r, "manifest", "log")
    /\ IF page = "gone"
       THEN UNCHANGED events /\ Goto(r, "failed")
       ELSE Log(r, "page.exported", 0, {}) /\ Goto(r, AfterManifest("log"))
    /\ UNCHANGED <<page, uploads, envelopes, objects>>

ManifestFiles(r) ==
    /\ At(r, "manifest", "files")
    /\ req' = [req EXCEPT ![r].list = Referenced,
                       ![r].at = AfterManifest("files")]
    /\ UNCHANGED <<page, uploads, envelopes, events, objects>>

\* Of the handling log the manifest prints, todo keeps which uploads it shows
\* as accepted.
AcceptedUploads ==
    UNION {e.about : e \in {x \in events : x.type = "upload.accepted" /\ x.upload # 0}}

ManifestEvents(r) ==
    /\ At(r, "manifest", "events")
    /\ req' = [req EXCEPT ![r].todo = AcceptedUploads,
                       ![r].at = AfterManifest("events")]
    /\ UNCHANGED <<page, uploads, envelopes, events, objects>>

-----------------------------------------------------------------------------
\* SealPage (see PageLifecycle).
Seal ==
    /\ page = "open"
    /\ page' = "sealed"
    /\ UNCHANGED <<uploads, envelopes, events, objects, req>>

\* A failing call ends the handler; so does a crash of the process, after
\* which not even the cleanup of an upload runs.
Abort(r) ==
    /\ r \in Abortable
    /\ req[r].at \notin {"idle"} \cup Outcomes
    /\ Goto(r, "failed")
    /\ UNCHANGED <<page, uploads, envelopes, events, objects>>

Arrival(r) ==
    \/ \E sub \in Submissions : UploadAdmit(r, sub) \/ DeleteSubmissionRead(r, sub)
    \/ \E u \in RowIds : DeleteFileRead(r, u) \/ DownloadRead(r, u)
    \/ \E files \in BOOLEAN : DeletePageRead(r, files)
    \/ ZipList(r)
    \/ ManifestRead(r)

HandlerStep(r) ==
    \/ UploadStore(r) \/ UploadCommit(r) \/ UploadCommitFails(r)
    \/ UploadCleanup(r)
    \/ DeleteFileCheck(r) \/ DeleteFileRow(r)
    \/ DeleteSubmissionTx(r)
    \/ DeletePageList(r) \/ DeletePageRecheck(r) \/ DeletePageDrop(r)
    \/ DeleteObject(r) \/ RecordDeletion(r)
    \/ ZipVerify(r) \/ Stream(r) \/ RecordExport(r)
    \/ ManifestLog(r) \/ ManifestFiles(r) \/ ManifestEvents(r)

Next == Seal \/ \E r \in Requests : Arrival(r) \/ HandlerStep(r) \/ Abort(r)

Spec == Init /\ [][Next]_vars

\* Nothing in a handler waits for another, so one that is not cut goes on.
FairSpec == Spec /\ \A r \in Requests : WF_vars(HandlerStep(r))

-----------------------------------------------------------------------------
TypeOK ==
    /\ page \in {"open", "sealed", "gone"}
    /\ uploads \in [RowIds -> Row \cup {NoRow}]
    /\ envelopes \in [EnvIds -> Envelope \cup {NoEnvelope}]
    /\ events \subseteq Event
    /\ objects \subseteq Requests
    /\ req \in [Requests -> Handler]

-----------------------------------------------------------------------------
\* What holds.

\* Every upload row has exactly one upload.accepted event linked to it, the
\* one of the request that wrote its object: row ids are used again, and the
\* events of an earlier upload of the id must have let go of it.
AcceptedExactlyOnce ==
    \A u \in LiveRows :
        \E e \in events :
            /\ e.type = "upload.accepted" /\ e.upload = u
            /\ e.by = uploads[u].key
            /\ \A f \in events :
                  f.type = "upload.accepted" /\ f.upload = u => f = e

\* The receipt an upload was answered with covers that upload for as long as
\* its row exists, whichever submissions were deleted and begun again under
\* the same id, and whichever envelope ids were used again.
ReceiptCoversUpload ==
    \A u \in LiveRows :
        LET v == uploads[u].env
            sender == req[uploads[u].key] IN
        /\ v \in LiveEnvelopes
        /\ envelopes[v].token = sender.token
        /\ envelopes[v].sub = sender.sub

\* A deletion event tells the truth: what it says was deleted is gone from the
\* object store, and never comes back.
DeletionEventsTruthful ==
    \A e \in events :
        e.type \in {"file.deleted", "submission.deleted"}
        => e.about \cap objects = {}

\* The cleanup after a failed upload takes no object that a row refers to, and
\* none that another request wrote.
CleanupSparesRecorded ==
    [][\A r \in Requests :
          UploadCleanup(r) => objects \ objects' \subseteq {r} \ Referenced]_vars

\* A row without its object is the work of a delete of that file or of the
\* whole page that got as far as the object: nothing else leaves an upload that
\* is listed and cannot be downloaded.
MissingObjectWasDeleted ==
    \A u \in LiveRows :
        uploads[u].key \in objects
        \/ \E r \in Requests :
              /\ req[r].op \in {"deleteFile", "deletePage"}
              /\ uploads[u].key \in req[r].list \ req[r].todo

\* An archive that was finished, and is recorded as exported, holds every file
\* the page had when it was listed, whatever was deleted between the listing,
\* the check and the entries; one that lost an object under way is broken off.
\* The same goes for a single download.
FinishedArchiveIsComplete ==
    \A r \in Requests :
        req[r].op \in {"zip", "download"} /\ req[r].at \in {"log", "ok"}
        => req[r].sent = req[r].list

\* Every file a manifest lists and the page still has is in the manifest's own
\* handling log as accepted: the uploads are read before the events.
ManifestLogCoversFiles ==
    \A r \in Requests :
        req[r].op = "manifest" /\ req[r].at = "ok"
        => req[r].list \cap Referenced \subseteq req[r].todo

\* Some upload row id was given out twice.
RowIdReused ==
    \E r, s \in Requests :
        /\ r # s
        /\ req[r].op = "upload" /\ req[s].op = "upload"
        /\ req[r].row # 0 /\ req[r].row = req[s].row

\* When no request is cut, an object that no row refers to is in the hands of a
\* handler that will record or remove it, with the two exceptions below.
StrandedIsOwed ==
    \A k \in objects \ Referenced :
        \/ page = "gone" \/ RowIdReused
        \/ req[k].at \in {"commit", "cleanup"}
        \/ \E r \in Requests :
              At(r, "deleteSubmission", "object") /\ k \in req[r].todo

\* When no request is cut, no object is left behind that no row refers to: an
\* upload that was not recorded is removed, and so is every object of a
\* deleted submission or file.  (Two exceptions, both in the code: a page deleted
\* under an upload, and a delete that hits a later upload of its row id.)
NoObjectStranded ==
    \A k \in Requests :
        k \in objects \ Referenced
        ~> \/ k \notin objects \/ k \in Referenced
           \/ page = "gone" \/ RowIdReused

-----------------------------------------------------------------------------
\* The ledger of files that this module implements: a file is listed once and
\* for good, a submission is removed as a whole and takes its receipt with it,
\* whatever requests race over ids that are used again.

PlaceOf(k) ==
    IF k \in Referenced THEN IF k \in objects THEN "listed" ELSE "hollow"
    ELSE IF k \in objects
         THEN IF req[k].at \in {"commit", "cleanup"} THEN "held" ELSE "orphan"
         ELSE IF req[k].op # "upload" \/ req[k].at = "store" THEN "absent" ELSE "gone"

OpenedBy(sub) ==
    IF \E v \in LiveEnvelopes : envelopes[v].sub = sub
    THEN envelopes[CHOOSE v \in LiveEnvelopes : envelopes[v].sub = sub].token
    ELSE NoToken

SenderOf(k) == IF req[k].op = "upload" THEN req[k].sub ELSE NoSub

ReceiptOf(k) == IF req[k].op = "upload" THEN req[k].token ELSE NoToken

Ledger == INSTANCE FileLedger WITH
    Uploads <- Requests,
    place <- [k \in Requests |-> PlaceOf(k)],
    sender <- [k \in Requests |-> SenderOf(k)],
    opened <- [s \in Submissions |-> OpenedBy(s)],
    receipt <- [k \in Requests |-> ReceiptOf(k)]

ImplementsLedger == Ledger!Spec

=============================================================================
