----------------------------- MODULE SqliteWal -----------------------------
(***************************************************************************)
(* How the transactions of internal/store/store.go run on SQLite in WAL    *)
(* mode, statement by statement, for the tables of one submission id.      *)
(*                                                                         *)
(* database/sql gives every transaction a connection of its own and begins *)
(* it deferred.  Its first statement fixes what it sees; a first statement *)
(* that writes waits for the one write lock, up to busy_timeout.  A        *)
(* transaction that has read and then writes is not given that wait: it    *)
(* fails at once when another one holds the lock, or has committed since.  *)
(***************************************************************************)
EXTENDS Naturals

CONSTANTS Tx,        \* transactions; each names the key and envelope it writes
          Earlier,   \* keys written before
          None       \* no row, no holder

Key == Tx \cup Earlier

ASSUME NoneIsNoKey == None \notin Key

VARIABLES db,        \* the committed tables
          version,   \* the commits that changed them
          writer,    \* the transaction that holds the write lock
          tx         \* tx[t]: operation, next statement, snapshot and keys read

vars == <<db, version, writer, tx>>

Tables == [envelope: Key \cup {None}, uploads: SUBSET Key,
           report: Key \cup {None}, status: Key \cup {None}]

NoSubmission == [envelope |-> None, uploads |-> {}, report |-> None, status |-> None]

ReadFirst == {"deleteSubmission", "putReport", "deleteReport"}
WriteFirst == {"createUpload", "setStatus"}
Op == ReadFirst \cup WriteFirst

\* Statements at which a transaction first writes: after a read, or at once.
Upgrades == {"deleteUploads", "upsertReport", "deleteReportRow"}
Openings == {"insertEnvelope", "updateStatus"}
Locked == {"insertUpload", "deleteEnvelope", "commit"}
Running == {"readEnvelope", "readKeys", "readReport"} \cup Upgrades \cup Openings \cup Locked
Ended == {"committed", "notFound", "busy", "timedOut", "rolledBack"}

Transaction == [op: Op, at: {"idle"} \cup Running \cup Ended, snap: Nat,
                view: Tables, keys: SUBSET Key]

\* Every field has its type.  (SQLite connection, store.go Open.)
TypeOK == /\ db \in Tables
          /\ version \in Nat
          /\ writer \in Tx \cup {None}
          /\ tx \in [Tx -> Transaction]

Idle == [op |-> "setStatus", at |-> "idle", snap |-> 0,
         view |-> NoSubmission, keys |-> {}]

Init == /\ db \in Tables
        /\ db.envelope = None => db = NoSubmission
        /\ ({db.envelope, db.report} \cup db.uploads) \cap Tx = {}
        /\ db.report \notin db.uploads
        /\ db.status = None
        /\ version = 0
        /\ writer = None
        /\ tx = [t \in Tx |-> Idle]

At(t, step) == tx[t].at = step

\* The transaction is over and hands its caller these keys.
End(t, how, keys) ==
    tx' = [tx EXCEPT ![t] = [Idle EXCEPT !.op = tx[t].op, !.at = how, !.keys = keys]]

-----------------------------------------------------------------------------
\* BeginTx: nothing is read and no lock taken yet.
Begin(t, op) ==
    /\ At(t, "idle")
    /\ tx' = [tx EXCEPT ![t].op = op,
                        ![t].at = IF op \in ReadFirst THEN "readEnvelope"
                                  ELSE IF op = "createUpload" THEN "insertEnvelope"
                                  ELSE "updateStatus"]
    /\ UNCHANGED <<db, version, writer>>

\* getSubmissionEnvelope as a first statement: the snapshot is taken here.
ReadEnvelope(t) ==
    /\ At(t, "readEnvelope")
    /\ IF db.envelope = None
       THEN End(t, "notFound", {})
       ELSE tx' = [tx EXCEPT ![t].view = db, ![t].snap = version,
                             ![t].at = IF tx[t].op = "deleteSubmission"
                                       THEN "readKeys" ELSE "readReport"]
    /\ UNCHANGED <<db, version, writer>>

\* The keys of the submission's uploads.
ReadKeys(t) ==
    /\ At(t, "readKeys")
    /\ tx' = [tx EXCEPT ![t].keys = tx[t].view.uploads, ![t].at = "readReport"]
    /\ UNCHANGED <<db, version, writer>>

AfterReads(op) == CASE op = "deleteSubmission" -> "deleteUploads"
                    [] op = "putReport" -> "upsertReport"
                    [] OTHER -> "deleteReportRow"

\* The key of its report, if there is one.
ReadReport(t) ==
    /\ At(t, "readReport")
    /\ IF tx[t].op = "deleteReport" /\ tx[t].view.report = None
       THEN End(t, "notFound", {})
       ELSE tx' = [tx EXCEPT ![t].keys = @ \cup ({tx[t].view.report} \ {None}),
                             ![t].at = AfterReads(tx[t].op)]
    /\ UNCHANGED <<db, version, writer>>

-----------------------------------------------------------------------------
\* SQLite.  A first statement that writes gets the lock and sees the tables as
\* they are then; while the lock is held it is tried again (busy handler).
Open(t, s, next) ==
    /\ writer = None
    /\ writer' = t
    /\ tx' = [tx EXCEPT ![t].view = s, ![t].snap = version, ![t].at = next]
    /\ UNCHANGED <<db, version>>

\* A transaction that has read gets it if nothing was committed since.
Upgrade(t, s, next) ==
    /\ writer = None
    /\ tx[t].snap = version
    /\ writer' = t
    /\ tx' = [tx EXCEPT ![t].view = s, ![t].at = next]
    /\ UNCHANGED <<db, version>>

\* dsn gives every connection a busy_timeout, and SQLite uses it only for a
\* transaction that has not read anything yet.
Waits(t) == tx[t].at \in Openings

Obstructed(t) == writer # None \/ (tx[t].at \in Upgrades /\ tx[t].snap # version)

\* Without the wait it fails at once: SQLITE_BUSY or SQLITE_BUSY_SNAPSHOT.
Refused(t) ==
    /\ tx[t].at \in Openings \cup Upgrades
    /\ Obstructed(t) /\ ~Waits(t)
    /\ End(t, "busy", {})
    /\ UNCHANGED <<db, version, writer>>

\* The busy handler gives up after 5 s.
Timeout(t) ==
    /\ tx[t].at \in Openings
    /\ Obstructed(t) /\ Waits(t)
    /\ End(t, "timedOut", {})
    /\ UNCHANGED <<db, version, writer>>

-----------------------------------------------------------------------------
\* Mutant: the envelope is made through the pool and stays when the rest fails.
InsertEnvelopeMutated(t) ==
    /\ At(t, "insertEnvelope")
    /\ writer = None
    /\ writer' = t
    /\ db' = IF db.envelope = None THEN [db EXCEPT !.envelope = t] ELSE db
    /\ tx' = [tx EXCEPT ![t].view = db', ![t].snap = version, ![t].at = "insertUpload"]
    /\ UNCHANGED version

InsertEnvelope(t) ==
    /\ At(t, "insertEnvelope")
    /\ Open(t, IF db.envelope = None THEN [db EXCEPT !.envelope = t] ELSE db, "insertUpload")

InsertUpload(t) ==
    /\ At(t, "insertUpload")
    /\ tx' = [tx EXCEPT ![t].view.uploads = @ \cup {t}, ![t].at = "commit"]
    /\ UNCHANGED <<db, version, writer>>

UpdateStatus(t) ==
    /\ At(t, "updateStatus")
    /\ Open(t, IF db.envelope = None THEN db ELSE [db EXCEPT !.status = t], "commit")

\* Mutant: the keys were read outside the transaction, which begins here.
DeleteUploadsMutated(t) ==
    /\ At(t, "deleteUploads")
    /\ Open(t, [db EXCEPT !.uploads = {}], "deleteEnvelope")

DeleteUploads(t) ==
    /\ At(t, "deleteUploads")
    /\ Upgrade(t, [tx[t].view EXCEPT !.uploads = {}], "deleteEnvelope")

\* The report's row goes with the envelope (ON DELETE CASCADE).
DeleteEnvelope(t) ==
    /\ At(t, "deleteEnvelope")
    /\ tx' = [tx EXCEPT ![t].view = [NoSubmission EXCEPT !.uploads = tx[t].view.uploads],
                        ![t].at = "commit"]
    /\ UNCHANGED <<db, version, writer>>

UpsertReport(t) ==
    /\ At(t, "upsertReport")
    /\ Upgrade(t, [tx[t].view EXCEPT !.report = t], "commit")

DeleteReportRow(t) ==
    /\ At(t, "deleteReportRow")
    /\ Upgrade(t, [tx[t].view EXCEPT !.report = None], "commit")

\* Commits that changed nothing leave the snapshots of others current.
Commit(t) ==
    /\ At(t, "commit")
    /\ db' = tx[t].view
    /\ version' = IF tx[t].view = db THEN version ELSE version + 1
    /\ writer' = None
    /\ End(t, "committed", tx[t].keys)

\* Mutant: an error path without tx.Rollback: the connection keeps the lock.
RollbackMutated(t) ==
    /\ tx[t].at \in Running
    /\ End(t, "rolledBack", {})
    /\ UNCHANGED <<db, version, writer>>

\* A statement fails, or the request's context is cancelled: Rollback.
Rollback(t) ==
    /\ tx[t].at \in Running
    /\ writer' = IF writer = t THEN None ELSE writer
    /\ End(t, "rolledBack", {})
    /\ UNCHANGED <<db, version>>

-----------------------------------------------------------------------------
Step(t) == \/ ReadEnvelope(t)
           \/ ReadKeys(t)
           \/ ReadReport(t)
           \/ InsertEnvelope(t)
           \/ InsertUpload(t)
           \/ UpdateStatus(t)
           \/ DeleteUploads(t)
           \/ DeleteEnvelope(t)
           \/ UpsertReport(t)
           \/ DeleteReportRow(t)
           \/ Commit(t)
           \/ Refused(t)

Next == \E t \in Tx : \/ \E op \in Op : Begin(t, op)
                      \/ Step(t)
                      \/ Timeout(t)
                      \/ Rollback(t)

Spec == Init /\ [][Next]_vars

\* A goroutine runs its transaction on; a waiting statement is tried again.
\* Nobody has to begin, to fail or to give up.
FairSpec == Spec /\ \A t \in Tx : WF_vars(Step(t))

-----------------------------------------------------------------------------
Committed(t) == tx[t].at = "committed"
TurnedAway(t) == tx[t].at \in {"busy", "timedOut"}

\* A transaction is turned away only on account of another one: one that holds
\* the lock and is still at work, or, where it has read before it writes, one
\* that has committed since.  Nobody is shut out by a lock whose holder has
\* ended, by its own failure included, and no two shut each other out.  (The
\* Rollback in every error path of store.go; busy_timeout, dsn.)
NobodyFailsAlone ==
    [][\A t \in Tx : TurnedAway(t)' /\ ~TurnedAway(t) =>
          \E s \in Tx \ {t} :
             \/ writer = s /\ tx[s].at \in Running
             \/ tx[t].op \in ReadFirst /\ tx[t].snap < version /\ Committed(s)]_vars

\* Each object that was recorded is referred to by a row, or its key was handed
\* to exactly one caller to delete, however uploads, reports and deletes overlap:
\* none is forgotten and none is deleted under a row.  (CreateUpload, PutReport;
\* DeleteSubmission, PutReport, DeleteReport hand keys back.)
ObjectsAccountedFor ==
    \A k \in Tx : Committed(k) /\ tx[k].op \in {"createUpload", "putReport"} =>
        LET takers == {t \in Tx : Committed(t) /\ k \in tx[t].keys} IN
        IF k \in db.uploads \cup {db.report} THEN takers = {} ELSE \E t \in Tx : takers = {t}

\* What a transaction has read and would write is of one moment, and keys are
\* not handed out while rows refer to them: the transactions take effect one
\* after the other, each at once or never, as Intake and ReportChannel assume,
\* and hand back the keys of the objects they unlinked, all and only those.
Store == INSTANCE SerialStore
    WITH taken <- {t \in Tx : Committed(t)},
         handed <- [t \in Tx |-> IF Committed(t) THEN tx[t].keys ELSE {}]

ImplementsSerialStore == Store!Spec

\* No transaction waits for ever, although the lock has no queue and a holder
\* may fail at any statement: every one ends without the busy timeout.
EveryTransactionEnds ==
    \A t \in Tx : tx[t].at \in Running ~> tx[t].at \in Ended
=============================================================================
