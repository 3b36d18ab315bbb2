-------------------------- MODULE SqliteWalProofs --------------------------
(***************************************************************************)
(* Theorems about SqliteWal, for any number of transactions and whatever   *)
(* was recorded before: its transactions are serial, keys are handed back  *)
(* once, and nobody is turned away but on account of another.              *)
(***************************************************************************)
EXTENDS SqliteWal, TLAPS

\* What a transaction hands back if it takes effect on the tables s.
Unlinks(op, s) == IF op = "deleteSubmission" THEN Store!Referenced(s)
                  ELSE IF op \in {"putReport", "deleteReport"} THEN {s.report} \ {None}
                  ELSE {}

\* What it makes of them.
Effect(op, t, s) ==
    CASE op = "createUpload" -> [s EXCEPT !.uploads = @ \cup {t},
                                          !.envelope = IF @ = None THEN t ELSE @]
      [] op = "deleteSubmission" -> NoSubmission
      [] op = "putReport" -> [s EXCEPT !.report = t]
      [] op = "deleteReport" -> [s EXCEPT !.report = None]
      [] op = "setStatus" -> IF s.envelope = None THEN s ELSE [s EXCEPT !.status = t]

\* The tables without an envelope are empty, and no key is used twice.
Coherent == /\ db.envelope = None => db = NoSubmission
            /\ db.report \notin db.uploads

\* A transaction that has not committed has left nothing.
Invisible(t) == tx[t].at # "committed" => t \notin db.uploads \cup {db.report}

\* The lock is held by a transaction that is writing, and by nobody else.
LockIsHeld(t) == tx[t].at \in Locked <=> writer = t

\* The operation a statement belongs to.
OpAt(t) ==
    /\ tx[t].at \in {"insertEnvelope", "insertUpload"} => tx[t].op = "createUpload"
    /\ tx[t].at = "updateStatus" => tx[t].op = "setStatus"
    /\ tx[t].at \in {"readKeys", "deleteUploads", "deleteEnvelope"} => tx[t].op = "deleteSubmission"
    /\ tx[t].at \in {"readEnvelope", "readReport"} => tx[t].op \in ReadFirst
    /\ tx[t].at = "upsertReport" => tx[t].op = "putReport"
    /\ tx[t].at = "deleteReportRow" => tx[t].op = "deleteReport"

\* A snapshot is of the present tables unless a commit came between.
SnapshotAges(t) ==
    tx[t].at \in {"readKeys", "readReport"} \cup Upgrades =>
        /\ tx[t].snap <= version
        /\ tx[t].snap = version => tx[t].view = db
        /\ tx[t].view.envelope # None

\* The keys in hand are those its snapshot refers to.
KeysOfSnapshot(t) ==
    /\ tx[t].at \in {"idle", "readEnvelope", "readKeys"} \cup Openings => tx[t].keys = {}
    /\ tx[t].at = "readReport" =>
          tx[t].keys = IF tx[t].op = "deleteSubmission" THEN tx[t].view.uploads ELSE {}
    /\ tx[t].at \in Upgrades => tx[t].keys = Unlinks(tx[t].op, tx[t].view)
    /\ tx[t].at = "deleteReportRow" => tx[t].view.report # None

\* What a transaction with the lock would commit, of the tables as they are.
WorkInHand(t) ==
    /\ tx[t].at = "insertUpload" =>
          /\ tx[t].keys = {}
          /\ tx[t].view = IF db.envelope = None THEN [db EXCEPT !.envelope = t] ELSE db
    /\ tx[t].at = "deleteEnvelope" =>
          /\ db.envelope # None
          /\ tx[t].view = [db EXCEPT !.uploads = {}]
          /\ tx[t].keys = Unlinks("deleteSubmission", db)
    /\ tx[t].at = "commit" =>
          /\ tx[t].view = Effect(tx[t].op, t, db)
          /\ tx[t].keys = Unlinks(tx[t].op, db)
          /\ tx[t].op \in {"deleteSubmission", "putReport"} => db.envelope # None
          /\ tx[t].op = "deleteReport" => db.report # None

Sound(t) == /\ Invisible(t)
            /\ LockIsHeld(t)
            /\ OpAt(t)
            /\ SnapshotAges(t)
            /\ KeysOfSnapshot(t)
            /\ WorkInHand(t)

IInv == TypeOK /\ Coherent /\ \A t \in Tx : Sound(t)

-----------------------------------------------------------------------------
LEMMA InitInv == Init => IInv
<1> SUFFICES ASSUME Init PROVE IInv OBVIOUS
<1> USE NoneIsNoKey DEF Init, Idle
<1>1. TypeOK BY DEF TypeOK, Transaction, Tables, NoSubmission, Op, WriteFirst, Key
<1>2. Coherent BY DEF Coherent
<1>3. ASSUME NEW t \in Tx PROVE Sound(t)
  BY DEF Sound, Invisible, LockIsHeld, Locked, Key, OpAt, SnapshotAges,
         KeysOfSnapshot, WorkInHand, Upgrades, Openings
<1> QED BY <1>1, <1>2, <1>3 DEF IInv

-----------------------------------------------------------------------------
\* A transaction that a step leaves alone stays sound, if the tables do not
\* change and neither the lock comes to it nor leaves it.
LEMMA OthersStaySound ==
    ASSUME NEW u \in Tx, Sound(u), tx'[u] = tx[u], db' = db, version' = version,
           writer' = u <=> writer = u
    PROVE  Sound(u)'
BY DEF Sound, Invisible, LockIsHeld, OpAt, SnapshotAges, KeysOfSnapshot, WorkInHand

\* So a step of t that leaves the tables alone has only t to answer for.
LEMMA OneStep ==
    ASSUME IInv, NEW t \in Tx, NEW r \in Transaction,
           tx' = [tx EXCEPT ![t] = r], db' = db, version' = version,
           writer' \in Tx \cup {None},
           \A u \in Tx \ {t} : writer' = u <=> writer = u,
           Sound(t)'
    PROVE  IInv'
<1>1. TypeOK' BY DEF IInv, TypeOK
<1>2. Coherent' BY DEF IInv, Coherent
<1>3. ASSUME NEW u \in Tx \ {t} PROVE Sound(u)'
  <2>1. tx'[u] = tx[u] BY DEF IInv, TypeOK
  <2> QED BY <2>1, OthersStaySound DEF IInv
<1> QED BY <1>1, <1>2, <1>3 DEF IInv

\* A transaction that ends without a commit is sound if it gave up the lock.
LEMMA Ending ==
    ASSUME IInv, NEW t \in Tx, tx[t].at \in Running,
           NEW how \in Ended \ {"committed"}, End(t, how, {}),
           db' = db, version' = version,
           writer' = IF writer = t THEN None ELSE writer
    PROVE  IInv'
<1> DEFINE r == [Idle EXCEPT !.op = tx[t].op, !.at = how, !.keys = {}]
<1>1. r \in Transaction
  BY NoneIsNoKey DEF IInv, TypeOK, Transaction, Idle, Tables, NoSubmission, Key
<1>2. tx' = [tx EXCEPT ![t] = r] BY DEF End
<1>3. tx'[t].at = how BY <1>1, <1>2 DEF IInv, TypeOK, Idle
<1>4. Sound(t)'
  BY <1>3, NoneIsNoKey DEF IInv, TypeOK, Sound, Invisible, LockIsHeld, Locked, OpAt, SnapshotAges,
     KeysOfSnapshot, WorkInHand, Upgrades, Openings, Ended, Running, Key
<1>5. writer' \in Tx \cup {None} BY DEF IInv, TypeOK
<1>6. \A u \in Tx \ {t} : writer' = u <=> writer = u BY NoneIsNoKey DEF Key
<1> HIDE DEF r
<1> QED BY <1>1, <1>2, <1>4, <1>5, <1>6, OneStep

-----------------------------------------------------------------------------
\* One lemma per kind of statement: what t becomes is well typed and sound.
LEMMA BeginInv == ASSUME IInv, NEW t \in Tx, NEW op \in Op, Begin(t, op) PROVE IInv'
<1> DEFINE r == [tx[t] EXCEPT !.op = op,
                              !.at = IF op \in ReadFirst THEN "readEnvelope"
                                     ELSE IF op = "createUpload" THEN "insertEnvelope"
                                     ELSE "updateStatus"]
<1>1. tx' = [tx EXCEPT ![t] = r] BY DEF Begin
<1>2. r \in Transaction BY DEF IInv, TypeOK, Transaction, Running, Openings
<1>a. /\ tx[t].at = "idle" /\ Sound(t)
      /\ tx'[t].op = op /\ tx'[t].keys = tx[t].keys
      /\ tx'[t].at = IF op \in ReadFirst THEN "readEnvelope"
                     ELSE IF op = "createUpload" THEN "insertEnvelope" ELSE "updateStatus"
      /\ db' = db /\ writer' = writer
  BY <1>1 DEF IInv, TypeOK, Transaction, Begin, At
<1> HIDE DEF r
<1>3. Sound(t)'
  BY <1>a DEF Sound, Invisible, LockIsHeld, Locked, OpAt, Op, ReadFirst, WriteFirst,
     SnapshotAges, KeysOfSnapshot, WorkInHand, Upgrades, Openings
<1> QED BY <1>1, <1>2, <1>3, OneStep DEF Begin, IInv, TypeOK

LEMMA ReadEnvelopeInv == ASSUME IInv, NEW t \in Tx, ReadEnvelope(t) PROVE IInv'
<1>1. CASE db.envelope = None
  <2>1. writer # t BY DEF ReadEnvelope, At, IInv, Sound, LockIsHeld, Locked
  <2> QED BY <1>1, <2>1, Ending DEF ReadEnvelope, At, Running, Ended
<1>2. CASE db.envelope # None
  <2> DEFINE r == [tx[t] EXCEPT !.view = db, !.snap = version,
                                !.at = IF tx[t].op = "deleteSubmission"
                                       THEN "readKeys" ELSE "readReport"]
  <2>1. tx' = [tx EXCEPT ![t] = r] BY <1>2 DEF ReadEnvelope
  <2>2. r \in Transaction BY DEF IInv, TypeOK, Transaction, Running
  <2>3. Sound(t)'
    BY <1>2, <2>1 DEF IInv, TypeOK, Transaction, ReadEnvelope, At, Sound, Invisible, LockIsHeld,
       Locked, OpAt, SnapshotAges, KeysOfSnapshot, WorkInHand, Upgrades, Openings, ReadFirst
  <2> HIDE DEF r
  <2> QED BY <2>1, <2>2, <2>3, OneStep DEF ReadEnvelope, IInv, TypeOK
<1> QED BY <1>1, <1>2

LEMMA ReadKeysInv == ASSUME IInv, NEW t \in Tx, ReadKeys(t) PROVE IInv'
<1> DEFINE r == [tx[t] EXCEPT !.keys = tx[t].view.uploads, !.at = "readReport"]
<1>1. tx' = [tx EXCEPT ![t] = r] BY DEF ReadKeys
<1>2. r \in Transaction BY DEF IInv, TypeOK, Transaction, Tables, Running
<1>3. Sound(t)'
  BY <1>1 DEF IInv, TypeOK, Transaction, ReadKeys, At, Sound, Invisible, LockIsHeld, Locked, OpAt,
     SnapshotAges, KeysOfSnapshot, WorkInHand, Upgrades, Openings, ReadFirst
<1> HIDE DEF r
<1> QED BY <1>1, <1>2, <1>3, OneStep DEF ReadKeys, IInv, TypeOK

LEMMA ReadReportInv == ASSUME IInv, NEW t \in Tx, ReadReport(t) PROVE IInv'
<1> DEFINE none == tx[t].op = "deleteReport" /\ tx[t].view.report = None
<1>1. CASE none
  <2>1. writer # t BY DEF ReadReport, At, IInv, Sound, LockIsHeld, Locked
  <2> QED BY <1>1, <2>1, Ending DEF ReadReport, At, Running, Ended
<1>2. CASE ~none
  <2> DEFINE r == [tx[t] EXCEPT !.keys = @ \cup ({tx[t].view.report} \ {None}),
                                !.at = AfterReads(tx[t].op)]
  <2>1. tx' = [tx EXCEPT ![t] = r] BY <1>2 DEF ReadReport
  <2>2. r \in Transaction BY DEF IInv, TypeOK, Transaction, Tables, Running, Upgrades, AfterReads
  <2>3. tx[t].op \in ReadFirst BY DEF ReadReport, At, IInv, Sound, OpAt
  <2>4. /\ tx[t].at = "readReport" /\ Sound(t)
        /\ tx'[t].op = tx[t].op /\ tx'[t].view = tx[t].view /\ tx'[t].snap = tx[t].snap
        /\ tx'[t].keys = tx[t].keys \cup ({tx[t].view.report} \ {None})
        /\ tx'[t].at = AfterReads(tx[t].op)
        /\ db' = db /\ version' = version /\ writer' = writer
    BY <1>2, <2>1 DEF IInv, TypeOK, Transaction, ReadReport, At
  <2> HIDE DEF r
  <2>5. tx'[t].at \in Upgrades BY <2>4 DEF AfterReads, Upgrades
  <2>6. tx'[t].keys = Unlinks(tx[t].op, tx[t].view)
    BY <2>3, <2>4 DEF Sound, KeysOfSnapshot, Unlinks, Store!Referenced, ReadFirst
  <2>7. Invisible(t)' /\ LockIsHeld(t)' /\ OpAt(t)'
    BY <2>3, <2>4 DEF Sound, Invisible, LockIsHeld, OpAt, Locked, AfterReads, ReadFirst
  <2>8. SnapshotAges(t)' /\ WorkInHand(t)'
    BY <2>4, <2>5 DEF Sound, SnapshotAges, WorkInHand, Upgrades
  <2>9. KeysOfSnapshot(t)'
    BY <1>2, <2>3, <2>4, <2>5, <2>6 DEF KeysOfSnapshot, AfterReads, Upgrades, Openings, ReadFirst
  <2>10. Sound(t)' BY <2>7, <2>8, <2>9 DEF Sound
  <2> HIDE DEF r
  <2> QED BY <2>1, <2>2, <2>10, OneStep DEF ReadReport, IInv, TypeOK
<1> QED BY <1>1, <1>2

-----------------------------------------------------------------------------
\* The lock comes to t, which has s in hand and is sound if its work is.
LEMMA Locking ==
    ASSUME IInv, NEW t \in Tx, NEW s \in Tables, NEW next \in Locked,
           NEW r \in Transaction, tx' = [tx EXCEPT ![t] = r], r.at = next, r.view = s,
           writer = None, writer' = t, db' = db, version' = version,
           tx[t].at \in Openings \cup Upgrades, OpAt(t)', WorkInHand(t)'
    PROVE  IInv'
<1>1. tx'[t] = r BY DEF IInv, TypeOK
<1>2. Sound(t)'
  BY <1>1 DEF IInv, Sound, Invisible, LockIsHeld, Locked, SnapshotAges, KeysOfSnapshot,
     Upgrades, Openings
<1>3. \A u \in Tx \ {t} : writer' = u <=> writer = u BY NoneIsNoKey DEF Key
<1> QED BY <1>2, <1>3, OneStep

LEMMA InsertEnvelopeInv == ASSUME IInv, NEW t \in Tx, InsertEnvelope(t) PROVE IInv'
<1> DEFINE s == IF db.envelope = None THEN [db EXCEPT !.envelope = t] ELSE db
           r == [tx[t] EXCEPT !.view = s, !.snap = version, !.at = "insertUpload"]
<1>1. s \in Tables BY DEF IInv, TypeOK, Tables, Key
<1>2. r \in Transaction /\ r.at = "insertUpload" /\ r.view = s /\ r.op = tx[t].op /\ r.keys = tx[t].keys
  BY <1>1 DEF IInv, TypeOK, Transaction, Running, Locked
<1>3. tx' = [tx EXCEPT ![t] = r] BY DEF InsertEnvelope, Open
<1>4. tx'[t] = r BY <1>3 DEF IInv, TypeOK
<1>5. OpAt(t)' BY <1>2, <1>4 DEF IInv, Sound, OpAt, InsertEnvelope, At
<1>6. WorkInHand(t)'
  BY <1>2, <1>4 DEF IInv, Sound, KeysOfSnapshot, Openings, WorkInHand, InsertEnvelope, At, Open
<1> HIDE DEF s, r
<1> QED BY <1>1, <1>2, <1>3, <1>5, <1>6, Locking DEF InsertEnvelope, Open, At, Locked, Openings

LEMMA UpdateStatusInv == ASSUME IInv, NEW t \in Tx, UpdateStatus(t) PROVE IInv'
<1> DEFINE s == IF db.envelope = None THEN db ELSE [db EXCEPT !.status = t]
           r == [tx[t] EXCEPT !.view = s, !.snap = version, !.at = "commit"]
<1>1. s \in Tables BY DEF IInv, TypeOK, Tables, Key
<1>2. r \in Transaction /\ r.at = "commit" /\ r.view = s /\ r.op = tx[t].op /\ r.keys = tx[t].keys
  BY <1>1 DEF IInv, TypeOK, Transaction, Running, Locked
<1>3. tx' = [tx EXCEPT ![t] = r] BY DEF UpdateStatus, Open
<1>4. tx'[t] = r BY <1>3 DEF IInv, TypeOK
<1>5. tx[t].op = "setStatus" BY DEF IInv, Sound, OpAt, UpdateStatus, At
<1>6. OpAt(t)' BY <1>2, <1>4 DEF OpAt
<1>7. WorkInHand(t)'
  BY <1>2, <1>4, <1>5 DEF IInv, Sound, KeysOfSnapshot, Openings, WorkInHand, UpdateStatus, At, Open,
     Effect, Unlinks
<1> HIDE DEF s, r
<1> QED BY <1>1, <1>2, <1>3, <1>6, <1>7, Locking DEF UpdateStatus, Open, At, Locked, Openings

LEMMA InsertUploadInv == ASSUME IInv, NEW t \in Tx, InsertUpload(t) PROVE IInv'
<1> DEFINE r == [tx[t] EXCEPT !.view.uploads = @ \cup {t}, !.at = "commit"]
<1>1. r \in Transaction /\ r.at = "commit" /\ r.op = tx[t].op /\ r.keys = tx[t].keys
      /\ r.view = [tx[t].view EXCEPT !.uploads = @ \cup {t}]
  BY DEF IInv, TypeOK, Transaction, Running, Locked, Tables, Key
<1>2. tx' = [tx EXCEPT ![t] = r] BY DEF InsertUpload
<1>3. tx'[t] = r BY <1>2 DEF IInv, TypeOK
<1>4. tx[t].op = "createUpload" /\ tx[t].keys = {} /\ writer = t
      /\ tx[t].view = IF db.envelope = None THEN [db EXCEPT !.envelope = t] ELSE db
  BY DEF IInv, Sound, OpAt, WorkInHand, LockIsHeld, Locked, InsertUpload, At
<1>5. [tx[t].view EXCEPT !.uploads = @ \cup {t}] = Effect("createUpload", t, db)
  BY <1>4 DEF IInv, TypeOK, Tables, Effect
<1>6. WorkInHand(t)'
  BY <1>1, <1>3, <1>4, <1>5 DEF InsertUpload, WorkInHand, Unlinks
<1>7. Sound(t)'
  BY <1>1, <1>3, <1>4, <1>6 DEF IInv, Sound, Invisible, LockIsHeld, Locked, OpAt, SnapshotAges,
     KeysOfSnapshot, Upgrades, Openings, InsertUpload, At
<1> HIDE DEF r
<1> QED BY <1>1, <1>2, <1>7, OneStep DEF InsertUpload, IInv, TypeOK

-----------------------------------------------------------------------------
\* A transaction that is given the lock after it has read sees the tables as
\* they are, and holds the keys they refer to.
LEMMA Upgrading ==
    ASSUME IInv, NEW t \in Tx, tx[t].at \in Upgrades, tx[t].snap = version
    PROVE  /\ tx[t].view = db
           /\ db.envelope # None
           /\ tx[t].keys = Unlinks(tx[t].op, db)
BY DEF IInv, Sound, SnapshotAges, KeysOfSnapshot

LEMMA DeleteUploadsInv == ASSUME IInv, NEW t \in Tx, DeleteUploads(t) PROVE IInv'
<1> DEFINE s == [tx[t].view EXCEPT !.uploads = {}]
           r == [tx[t] EXCEPT !.view = s, !.at = "deleteEnvelope"]
<1>1. s \in Tables BY DEF IInv, TypeOK, Transaction, Tables
<1>2. r \in Transaction /\ r.at = "deleteEnvelope" /\ r.view = s /\ r.op = tx[t].op /\ r.keys = tx[t].keys
  BY <1>1 DEF IInv, TypeOK, Transaction, Running, Locked
<1>3. tx' = [tx EXCEPT ![t] = r] BY DEF DeleteUploads, Upgrade
<1>4. tx'[t] = r BY <1>3 DEF IInv, TypeOK
<1>5. tx[t].op = "deleteSubmission" BY DEF IInv, Sound, OpAt, DeleteUploads, At
<1>6. OpAt(t)' BY <1>2, <1>4, <1>5 DEF OpAt
<1>7. WorkInHand(t)'
  BY <1>2, <1>4, <1>5, Upgrading DEF WorkInHand, DeleteUploads, At, Upgrade, Upgrades
<1> HIDE DEF s, r
<1> QED BY <1>1, <1>2, <1>3, <1>6, <1>7, Locking DEF DeleteUploads, Upgrade, At, Locked, Upgrades

LEMMA UpsertReportInv == ASSUME IInv, NEW t \in Tx, UpsertReport(t) PROVE IInv'
<1> DEFINE s == [tx[t].view EXCEPT !.report = t]
           r == [tx[t] EXCEPT !.view = s, !.at = "commit"]
<1>1. s \in Tables BY DEF IInv, TypeOK, Transaction, Tables, Key
<1>2. r \in Transaction /\ r.at = "commit" /\ r.view = s /\ r.op = tx[t].op /\ r.keys = tx[t].keys
  BY <1>1 DEF IInv, TypeOK, Transaction, Running, Locked
<1>3. tx' = [tx EXCEPT ![t] = r] BY DEF UpsertReport, Upgrade
<1>4. tx'[t] = r BY <1>3 DEF IInv, TypeOK
<1>5. tx[t].op = "putReport" BY DEF IInv, Sound, OpAt, UpsertReport, At
<1>6. OpAt(t)' BY <1>2, <1>4, <1>5 DEF OpAt
<1>7. WorkInHand(t)'
  BY <1>2, <1>4, <1>5, Upgrading DEF WorkInHand, UpsertReport, At, Upgrade, Upgrades, Effect
<1> HIDE DEF s, r
<1> QED BY <1>1, <1>2, <1>3, <1>6, <1>7, Locking DEF UpsertReport, Upgrade, At, Locked, Upgrades

LEMMA DeleteReportRowInv == ASSUME IInv, NEW t \in Tx, DeleteReportRow(t) PROVE IInv'
<1> DEFINE s == [tx[t].view EXCEPT !.report = None]
           r == [tx[t] EXCEPT !.view = s, !.at = "commit"]
<1>1. s \in Tables BY DEF IInv, TypeOK, Transaction, Tables, Key
<1>2. r \in Transaction /\ r.at = "commit" /\ r.view = s /\ r.op = tx[t].op /\ r.keys = tx[t].keys
  BY <1>1 DEF IInv, TypeOK, Transaction, Running, Locked
<1>3. tx' = [tx EXCEPT ![t] = r] BY DEF DeleteReportRow, Upgrade
<1>4. tx'[t] = r BY <1>3 DEF IInv, TypeOK
<1>5. tx[t].op = "deleteReport" /\ tx[t].view.report # None
  BY DEF IInv, Sound, OpAt, KeysOfSnapshot, DeleteReportRow, At
<1>6. OpAt(t)' BY <1>2, <1>4, <1>5 DEF OpAt
<1>a. tx[t].view = db /\ tx[t].keys = Unlinks("deleteReport", db)
  BY <1>5, Upgrading DEF DeleteReportRow, At, Upgrade, Upgrades
<1>b. Effect("deleteReport", t, db) = [db EXCEPT !.report = None] BY DEF Effect
<1>c. db' = db /\ tx'[t].op = "deleteReport" /\ tx'[t].at = "commit" /\ tx'[t].view = s
      /\ tx'[t].keys = Unlinks("deleteReport", db) /\ db.report # None
  BY <1>2, <1>4, <1>5, <1>a DEF DeleteReportRow, Upgrade
<1>d. s = Effect("deleteReport", t, db) BY <1>a, <1>b
<1> HIDE DEF s, r
<1>7. WorkInHand(t)' BY <1>c, <1>d DEF WorkInHand
<1> HIDE DEF s, r
<1> QED BY <1>1, <1>2, <1>3, <1>6, <1>7, Locking DEF DeleteReportRow, Upgrade, At, Locked, Upgrades

LEMMA DeleteEnvelopeInv == ASSUME IInv, NEW t \in Tx, DeleteEnvelope(t) PROVE IInv'
<1> DEFINE s == [NoSubmission EXCEPT !.uploads = tx[t].view.uploads]
           r == [tx[t] EXCEPT !.view = s, !.at = "commit"]
<1>1. /\ tx[t].op = "deleteSubmission" /\ db.envelope # None /\ writer = t
      /\ tx[t].view.uploads = {} /\ tx[t].keys = Unlinks("deleteSubmission", db)
  BY DEF IInv, TypeOK, Tables, Sound, OpAt, WorkInHand, LockIsHeld, Locked, DeleteEnvelope, At
<1>2. s = NoSubmission /\ s \in Tables BY <1>1 DEF NoSubmission, Tables
<1>3. r \in Transaction /\ r.at = "commit" /\ r.view = NoSubmission /\ r.op = tx[t].op
      /\ r.keys = tx[t].keys
  BY <1>2 DEF IInv, TypeOK, Transaction, Running, Locked
<1>4. tx' = [tx EXCEPT ![t] = r] BY DEF DeleteEnvelope
<1>5. tx'[t] = r BY <1>4 DEF IInv, TypeOK
<1>6. WorkInHand(t)' BY <1>1, <1>3, <1>5 DEF DeleteEnvelope, WorkInHand, Effect
<1>7. Sound(t)'
  BY <1>1, <1>3, <1>5, <1>6 DEF IInv, Sound, Invisible, LockIsHeld, Locked, OpAt, SnapshotAges,
     KeysOfSnapshot, Upgrades, Openings, DeleteEnvelope, At
<1> HIDE DEF s, r
<1> QED BY <1>3, <1>4, <1>7, OneStep DEF DeleteEnvelope, IInv, TypeOK

LEMMA FailureInv ==
    ASSUME IInv, NEW t \in Tx, Refused(t) \/ Timeout(t) \/ Rollback(t) PROVE IInv'
<1>1. CASE Refused(t) \/ Timeout(t)
  <2>1. tx[t].at \in Running /\ tx[t].at \notin Locked
    BY <1>1 DEF Refused, Timeout, Running, Openings, Upgrades, Locked
  <2>2. writer # t BY <2>1 DEF IInv, Sound, LockIsHeld
  <2> QED BY <1>1, <2>1, <2>2, Ending DEF Refused, Timeout, Ended
<1>2. CASE Rollback(t) BY <1>2, Ending DEF Rollback, Ended
<1> QED BY <1>1, <1>2

-----------------------------------------------------------------------------
\* A commit: what t leaves in the tables and what it hands back.
LEMMA CommitTakesEffect ==
    ASSUME IInv, NEW t \in Tx, Commit(t)
    PROVE  /\ db' = Effect(tx[t].op, t, db) /\ db' \in Tables
           /\ tx[t].keys = Unlinks(tx[t].op, db)
           /\ tx[t].op \in {"deleteSubmission", "putReport"} => db.envelope # None
           /\ tx[t].op = "deleteReport" => db.report # None
           /\ writer = t /\ writer' = None
           /\ version' \in Nat /\ version <= version' /\ (version' = version => db' = db)
           /\ tx' = [tx EXCEPT ![t] = [Idle EXCEPT !.op = tx[t].op, !.at = "committed",
                                                   !.keys = tx[t].keys]]
<1>1. writer = t /\ WorkInHand(t)
  BY DEF Commit, At, IInv, Sound, LockIsHeld, Locked
<1>2. version' \in Nat /\ version <= version' /\ (version' = version => db' = db)
  BY DEF Commit, IInv, TypeOK
<1>3. db' \in Tables BY DEF Commit, IInv, TypeOK, Transaction
<1> QED BY <1>1, <1>2, <1>3 DEF Commit, At, WorkInHand, End

\* It changes no other transaction, and keeps what t was and holds.
LEMMA CommittedRecord ==
    ASSUME IInv, NEW t \in Tx, Commit(t)
    PROVE  /\ \A u \in Tx \ {t} : tx'[u] = tx[u]
           /\ tx'[t].at = "committed" /\ tx'[t].op = tx[t].op /\ tx'[t].keys = tx[t].keys
           /\ tx[t].at = "commit" /\ tx[t].op \in Op /\ t \notin db.uploads \cup {db.report}
<1> DEFINE r == [Idle EXCEPT !.op = tx[t].op, !.at = "committed", !.keys = tx[t].keys]
<1>1. tx' = [tx EXCEPT ![t] = r] BY CommitTakesEffect
<1>2. r.at = "committed" /\ r.op = tx[t].op /\ r.keys = tx[t].keys BY DEF Idle
<1> HIDE DEF r
<1>3. tx'[t] = r /\ \A u \in Tx \ {t} : tx'[u] = tx[u] BY <1>1 DEF IInv, TypeOK
<1>4. tx[t].at = "commit" /\ tx[t].op \in Op /\ t \notin db.uploads \cup {db.report}
  BY DEF IInv, TypeOK, Transaction, Commit, At, Sound, Invisible
<1> QED BY <1>2, <1>3, <1>4

\* The tables stay coherent, and what t unlinks is what they no longer refer to.
LEMMA EffectIsCoherent ==
    ASSUME IInv, NEW t \in Tx, NEW op \in Op, t \notin db.uploads \cup {db.report},
           op \in {"deleteSubmission", "putReport"} => db.envelope # None,
           op = "deleteReport" => db.report # None,
           NEW s \in Tables, s = Effect(op, t, db)
    PROVE  /\ s.envelope = None => s = NoSubmission
           /\ s.report \notin s.uploads
           /\ Store!Referenced(s) \subseteq Store!Referenced(db) \cup {t}
           /\ op \in {"createUpload", "putReport"} => t \in Store!Referenced(s)
           /\ Unlinks(op, db) = Store!Referenced(db) \ Store!Referenced(s)
<1> USE NoneIsNoKey DEF IInv, TypeOK, Coherent, Tables, Key, Effect, Unlinks, Store!Referenced
<1>1. CASE op = "createUpload"
  <2>1. s = [db EXCEPT !.uploads = @ \cup {t}, !.envelope = IF @ = None THEN t ELSE @] BY <1>1
  <2>2. s.uploads = db.uploads \cup {t} /\ s.report = db.report /\ s.envelope # None
    BY <2>1
  <2> QED BY <1>1, <2>2
<1>2. CASE op = "deleteSubmission"
  <2>1. s = NoSubmission BY <1>2
  <2> QED BY <1>2, <2>1 DEF NoSubmission
<1>3. CASE op = "putReport"
  <2>1. s = [db EXCEPT !.report = t] BY <1>3
  <2> QED BY <1>3, <2>1
<1>4. CASE op = "deleteReport"
  <2>1. s = [db EXCEPT !.report = None] BY <1>4
  <2> QED BY <1>4, <2>1 DEF NoSubmission
<1>5. CASE op = "setStatus"
  <2>1. s = IF db.envelope = None THEN db ELSE [db EXCEPT !.status = t] BY <1>5
  <2> QED BY <1>5, <2>1
<1> QED BY <1>1, <1>2, <1>3, <1>4, <1>5 DEF Op, ReadFirst, WriteFirst

LEMMA CommitInv == ASSUME IInv, NEW t \in Tx, Commit(t) PROVE IInv'
<1>1. tx[t].at = "commit" /\ tx[t] \in Transaction /\ Sound(t)
  BY DEF Commit, At, IInv, TypeOK
<1>2. t \notin db.uploads \cup {db.report} /\ tx[t].op \in Op
  BY <1>1 DEF Sound, Invisible, Transaction
<1> DEFINE r == [Idle EXCEPT !.op = tx[t].op, !.at = "committed", !.keys = tx[t].keys]
<1>3. r \in Transaction /\ r.at = "committed"
  BY <1>1, NoneIsNoKey DEF Transaction, Idle, Tables, NoSubmission, Ended
<1>4. TypeOK'
  BY <1>3, CommitTakesEffect DEF IInv, TypeOK
<1>5. /\ Coherent'
      /\ db'.uploads \cup ({db'.report} \ {None}) \subseteq db.uploads \cup {db.report} \cup {t}
  <2>1. /\ db' = Effect(tx[t].op, t, db) /\ db' \in Tables
        /\ tx[t].op \in {"deleteSubmission", "putReport"} => db.envelope # None
        /\ tx[t].op = "deleteReport" => db.report # None
    BY CommitTakesEffect
  <2> DEFINE s == db'
  <2>2. s \in Tables /\ s = Effect(tx[t].op, t, db) BY <2>1
  <2> HIDE DEF s
  <2>3. /\ s.envelope = None => s = NoSubmission
        /\ s.report \notin s.uploads
        /\ Store!Referenced(s) \subseteq Store!Referenced(db) \cup {t}
    BY <1>2, <2>1, <2>2, EffectIsCoherent
  <2> USE DEF s
  <2> QED BY <2>3 DEF Coherent, Store!Referenced
<1>6. Sound(t)'
  <2>1. tx'[t] = r BY CommitTakesEffect DEF IInv, TypeOK
  <2> QED BY <1>3, <2>1, CommitTakesEffect, NoneIsNoKey DEF Sound, Invisible, LockIsHeld, Locked,
     OpAt, SnapshotAges, KeysOfSnapshot, WorkInHand, Upgrades, Openings, Key
<1>7. ASSUME NEW u \in Tx \ {t} PROVE Sound(u)'
  <2>1. tx'[u] = tx[u] /\ tx[u] \in Transaction /\ Sound(u)
    BY CommitTakesEffect DEF IInv, TypeOK
  <2>2. writer # u /\ writer' # u BY CommitTakesEffect, NoneIsNoKey DEF Key
  <2>3. tx[u].at \notin Locked BY <2>1, <2>2 DEF Sound, LockIsHeld
  <2>4. Invisible(u)' BY <1>5, <2>1, NoneIsNoKey DEF Sound, Invisible, Key
  <2>5. LockIsHeld(u)' /\ WorkInHand(u)'
    BY <2>1, <2>2, <2>3 DEF LockIsHeld, WorkInHand, Locked
  <2>6. OpAt(u)' /\ KeysOfSnapshot(u)' BY <2>1 DEF Sound, OpAt, KeysOfSnapshot
  <2>7. version' \in Nat /\ version \in Nat /\ version <= version' /\ (version' = version => db' = db)
    BY CommitTakesEffect DEF IInv, TypeOK
  <2>8. SnapshotAges(u)' BY <2>1, <2>7 DEF Sound, SnapshotAges, Transaction
  <2> QED BY <2>4, <2>5, <2>6, <2>8 DEF Sound
<1> QED BY <1>4, <1>5, <1>6, <1>7 DEF IInv

-----------------------------------------------------------------------------
LEMMA NextInv == IInv /\ [Next]_vars => IInv'
<1> SUFFICES ASSUME IInv, [Next]_vars PROVE IInv' OBVIOUS
<1>1. CASE UNCHANGED vars
  <2>1. TypeOK'
    BY <1>1 DEF vars, IInv, TypeOK
  <2>2. Coherent'
    BY <1>1 DEF vars, IInv, Coherent
  <2>3. ASSUME NEW t \in Tx PROVE Sound(t)'
    <3>1. Sound(t)
      BY DEF IInv
    <3> QED BY <1>1, <3>1 DEF vars, Sound, Invisible, LockIsHeld, OpAt, SnapshotAges,
               KeysOfSnapshot, WorkInHand
  <2> QED BY <2>1, <2>2, <2>3 DEF IInv
<1>2. ASSUME NEW t \in Tx, NEW op \in Op, Begin(t, op) PROVE IInv' BY <1>2, BeginInv
<1>3. ASSUME NEW t \in Tx, Step(t) PROVE IInv'
  BY <1>3, ReadEnvelopeInv, ReadKeysInv, ReadReportInv, InsertEnvelopeInv, InsertUploadInv,
     UpdateStatusInv, DeleteUploadsInv, DeleteEnvelopeInv, UpsertReportInv,
     DeleteReportRowInv, CommitInv, FailureInv DEF Step
<1>4. ASSUME NEW t \in Tx, Timeout(t) \/ Rollback(t) PROVE IInv' BY <1>4, FailureInv
<1> QED BY <1>1, <1>2, <1>3, <1>4 DEF Next

LEMMA Invariant == Spec => []IInv
<1>1. Init => IInv BY InitInv
<1>2. IInv /\ [Next]_vars => IInv' BY NextInv
<1> QED BY <1>1, <1>2, PTL DEF Spec

\* Every reachable state is well typed.
THEOREM TypeCorrect == Spec => []TypeOK
<1>1. IInv => TypeOK BY DEF IInv
<1> QED BY <1>1, Invariant, PTL

-----------------------------------------------------------------------------
\* A step of t that is no commit leaves the tables and whatever has committed
\* alone, and turns t away only where something is in its way.
LEMMA QuietStep ==
    ASSUME IInv, NEW t \in Tx,
           (\E op \in Op : Begin(t, op)) \/ (Step(t) /\ ~Commit(t)) \/ Timeout(t) \/ Rollback(t)
    PROVE  /\ db' = db /\ version' = version
           /\ \A u \in Tx \ {t} : tx'[u] = tx[u]
           /\ ~Committed(t) /\ ~Committed(t)'
           /\ TurnedAway(t)' => tx[t].at \in Openings \cup Upgrades /\ Obstructed(t)
<1> USE DEF IInv, TypeOK, Transaction, Idle, At, End, Committed, TurnedAway
<1>1. CASE \E op \in Op : Begin(t, op)
  <2> PICK op \in Op : Begin(t, op) BY <1>1
  <2> DEFINE at == IF op \in ReadFirst THEN "readEnvelope"
                   ELSE IF op = "createUpload" THEN "insertEnvelope" ELSE "updateStatus"
  <2>1. at \notin {"busy", "timedOut", "committed"} OBVIOUS
  <2> DEFINE r == [tx[t] EXCEPT !.op = op, !.at = at]
  <2>2. tx' = [tx EXCEPT ![t] = r] BY DEF Begin
  <2> HIDE DEF at
  <2>3. r.at = at BY DEF r
  <2> HIDE DEF r
  <2> QED BY <2>1, <2>2, <2>3 DEF Begin
<1>2. CASE ReadEnvelope(t)
  <2>1. CASE db.envelope = None BY <1>2, <2>1 DEF ReadEnvelope
  <2>2. CASE db.envelope # None
    <3> DEFINE at == IF tx[t].op = "deleteSubmission" THEN "readKeys" ELSE "readReport"
    <3>1. tx' = [tx EXCEPT ![t].view = db, ![t].snap = version, ![t].at = at]
      BY <1>2, <2>2 DEF ReadEnvelope
    <3>2. at \notin {"busy", "timedOut", "committed"} OBVIOUS
    <3> HIDE DEF at
    <3>3. tx'[t].at = at BY <3>1
    <3> QED BY <1>2, <3>1, <3>2, <3>3 DEF ReadEnvelope
  <2> QED BY <2>1, <2>2
<1>3. CASE ReadKeys(t) BY <1>3 DEF ReadKeys
<1>4. CASE ReadReport(t)
  <2>1. AfterReads(tx[t].op) \notin {"busy", "timedOut", "committed"} BY DEF AfterReads
  <2>2. CASE tx[t].op = "deleteReport" /\ tx[t].view.report = None
    BY <1>4, <2>2 DEF ReadReport
  <2>3. CASE ~(tx[t].op = "deleteReport" /\ tx[t].view.report = None)
    <3>1. tx'[t].at = AfterReads(tx[t].op) BY <1>4, <2>3 DEF ReadReport
    <3> QED BY <1>4, <2>1, <2>3, <3>1 DEF ReadReport
  <2> QED BY <2>2, <2>3
<1>5. CASE InsertEnvelope(t) BY <1>5 DEF InsertEnvelope, Open
<1>6. CASE InsertUpload(t) BY <1>6 DEF InsertUpload
<1>7. CASE UpdateStatus(t) BY <1>7 DEF UpdateStatus, Open
<1>8. CASE DeleteUploads(t) BY <1>8 DEF DeleteUploads, Upgrade
<1>9. CASE DeleteEnvelope(t) BY <1>9 DEF DeleteEnvelope
<1>10. CASE UpsertReport(t) BY <1>10 DEF UpsertReport, Upgrade
<1>11. CASE DeleteReportRow(t) BY <1>11 DEF DeleteReportRow, Upgrade
<1>12. CASE Refused(t) BY <1>12 DEF Refused, Waits, Openings, Upgrades
<1>13. CASE Timeout(t) BY <1>13 DEF Timeout, Openings
<1>14. CASE Rollback(t) BY <1>14 DEF Rollback, Running, Openings, Upgrades, Locked
<1> QED BY <1>1, <1>2, <1>3, <1>4, <1>5, <1>6, <1>7, <1>8, <1>9, <1>10, <1>11, <1>12, <1>13,
         <1>14 DEF Step

\* Tables that have changed were changed by a commit.
CommitsCount == version # 0 => \E s \in Tx : Committed(s)

LEMMA CommitsAreCounted == Spec => []CommitsCount
<1>1. Init => CommitsCount BY DEF Init, CommitsCount
<1>2. IInv /\ CommitsCount /\ [Next]_vars => CommitsCount'
  <2> SUFFICES ASSUME IInv, CommitsCount, [Next]_vars PROVE CommitsCount' OBVIOUS
  <2>1. CASE UNCHANGED vars BY <2>1 DEF vars, CommitsCount, Committed
  <2>2. ASSUME NEW t \in Tx, Commit(t) PROVE CommitsCount'
    BY <2>2, CommittedRecord DEF CommitsCount, Committed
  <2>3. ASSUME NEW t \in Tx,
               (\E op \in Op : Begin(t, op)) \/ (Step(t) /\ ~Commit(t)) \/ Timeout(t) \/ Rollback(t)
        PROVE  CommitsCount'
    <3>1. /\ version' = version /\ ~Committed(t)
          /\ \A u \in Tx \ {t} : tx'[u] = tx[u]
      BY <2>3, QuietStep
    <3> QED BY <3>1 DEF CommitsCount, Committed
  <2> QED BY <2>1, <2>2, <2>3 DEF Next, Step
<1> QED BY <1>1, <1>2, Invariant, PTL DEF Spec

\* What is in the way of a transaction is another one.
LEMMA InTheWay ==
    ASSUME IInv, CommitsCount, NEW t \in Tx, tx[t].at \in Openings \cup Upgrades,
           Obstructed(t)
    PROVE  \E s \in Tx \ {t} :
              \/ writer = s /\ tx[s].at \in Running
              \/ tx[t].op \in ReadFirst /\ tx[t].snap < version /\ Committed(s)
<1>1. CASE writer # None
  <2>1. writer \in Tx /\ tx[writer].at \in Locked
    BY <1>1 DEF IInv, TypeOK, Sound, LockIsHeld
  <2>2. writer # t BY <2>1 DEF Locked, Openings, Upgrades
  <2> QED BY <2>1, <2>2 DEF Running
<1>2. CASE writer = None
  <2>1. tx[t].at \in Upgrades /\ tx[t].snap # version BY <1>2 DEF Obstructed
  <2>2. tx[t].op \in ReadFirst BY <2>1 DEF IInv, Sound, OpAt, Upgrades, ReadFirst
  <2>3. tx[t].snap \in Nat /\ version \in Nat /\ tx[t].snap <= version
    BY <2>1 DEF IInv, TypeOK, Transaction, Sound, SnapshotAges
  <2>4. tx[t].snap < version /\ version # 0 BY <2>1, <2>3
  <2>5. PICK s \in Tx : Committed(s) BY <2>4 DEF CommitsCount
  <2>6. s # t BY <2>1, <2>5 DEF Committed, Upgrades
  <2> QED BY <2>2, <2>4, <2>5, <2>6
<1> QED BY <1>1, <1>2

\* Whoever is turned away is turned away on account of another transaction, one
\* with the lock that is still at work, or one that committed since it read.
THEOREM TurnedAwayByAnother == Spec => NobodyFailsAlone
<1> DEFINE InWay(t) ==
       \E s \in Tx \ {t} :
          \/ writer = s /\ tx[s].at \in Running
          \/ tx[t].op \in ReadFirst /\ tx[t].snap < version /\ Committed(s)
<1>1. IInv /\ CommitsCount /\ [Next]_vars =>
         [\A t \in Tx : TurnedAway(t)' /\ ~TurnedAway(t) => InWay(t)]_vars
  <2> SUFFICES ASSUME IInv, CommitsCount, [Next]_vars, vars' # vars,
                      NEW u \in Tx, TurnedAway(u)', ~TurnedAway(u)
               PROVE  InWay(u)
    OBVIOUS
  <2>1. tx'[u] # tx[u] BY DEF TurnedAway
  <2>2. ASSUME NEW t \in Tx, Commit(t) PROVE FALSE
    BY <2>1, <2>2, CommittedRecord DEF TurnedAway
  <2>3. ASSUME NEW t \in Tx,
               (\E op \in Op : Begin(t, op)) \/ (Step(t) /\ ~Commit(t)) \/ Timeout(t) \/ Rollback(t)
        PROVE  InWay(u)
    <3>1. u = t BY <2>1, <2>3, QuietStep
    <3>2. tx[u].at \in Openings \cup Upgrades /\ Obstructed(u) BY <2>3, <3>1, QuietStep
    <3> QED BY <3>2, InTheWay
  <2> QED BY <2>2, <2>3 DEF Next, Step
<1> QED BY <1>1, Invariant, CommitsAreCounted, PTL DEF Spec, NobodyFailsAlone

-----------------------------------------------------------------------------
\* A key handed back was recorded by a transaction that had committed.
HandedWereRecorded ==
    \A t, k \in Tx : Committed(t) /\ k \in tx[t].keys => Committed(k)

\* A commit accounts for the objects it recorded or unlinked.
LEMMA CommitAccounts ==
    ASSUME IInv, HandedWereRecorded, ObjectsAccountedFor, NEW t \in Tx, Commit(t)
    PROVE  HandedWereRecorded' /\ ObjectsAccountedFor'
<1> DEFINE Refs == db.uploads \cup {db.report}
           Unlinked == tx[t].keys
<1>1. /\ \A u \in Tx \ {t} : tx'[u] = tx[u]
      /\ Committed(t)' /\ tx'[t].op = tx[t].op /\ tx'[t].keys = Unlinked
      /\ ~Committed(t) /\ t \notin Refs
  BY CommittedRecord DEF Committed
<1>2. \A k \in Tx : ~Committed(k) => k \notin Refs BY DEF IInv, Sound, Invisible, Committed
<1>3. /\ db'.uploads \cup ({db'.report} \ {None}) \subseteq Refs \cup {t}
      /\ tx[t].op \in {"createUpload", "putReport"} => t \in db'.uploads \cup {db'.report}
      /\ Unlinked = (db.uploads \cup ({db.report} \ {None})) \ (db'.uploads \cup ({db'.report} \ {None}))
  <2>1. /\ db' = Effect(tx[t].op, t, db) /\ db' \in Tables /\ Unlinked = Unlinks(tx[t].op, db)
        /\ tx[t].op \in {"deleteSubmission", "putReport"} => db.envelope # None
        /\ tx[t].op = "deleteReport" => db.report # None
        /\ tx[t].op \in Op /\ t \notin db.uploads \cup {db.report}
    BY CommitTakesEffect, CommittedRecord
  <2> DEFINE s == db'
  <2>2. s \in Tables /\ s = Effect(tx[t].op, t, db) BY <2>1
  <2> HIDE DEF s
  <2>3. /\ Store!Referenced(s) \subseteq Store!Referenced(db) \cup {t}
        /\ tx[t].op \in {"createUpload", "putReport"} => t \in Store!Referenced(s)
        /\ Unlinks(tx[t].op, db) = Store!Referenced(db) \ Store!Referenced(s)
    BY <2>1, <2>2, EffectIsCoherent
  <2> USE DEF s
  <2> QED BY <2>1, <2>3 DEF Store!Referenced
<1>4. \A k \in Tx : k # None BY NoneIsNoKey DEF Key
<1> HIDE DEF Refs, Unlinked
<1>5. HandedWereRecorded'
  <2> SUFFICES ASSUME NEW u \in Tx, NEW k \in Tx, Committed(u)', k \in tx'[u].keys
               PROVE  Committed(k)'
    BY DEF HandedWereRecorded
  <2>1. CASE u = t
    <3>1. k \in Refs BY <1>1, <1>3, <2>1 DEF Refs
    <3> QED BY <1>1, <1>2, <3>1 DEF Committed
  <2>2. CASE u # t
    <3>1. Committed(k) BY <1>1, <2>2 DEF HandedWereRecorded, Committed
    <3> QED BY <1>1, <3>1 DEF Committed
  <2> QED BY <2>1, <2>2
<1>6. ObjectsAccountedFor'
  <2> SUFFICES ASSUME NEW k \in Tx, Committed(k)', tx'[k].op \in {"createUpload", "putReport"}
               PROVE  LET takers == {u \in Tx : Committed(u)' /\ k \in tx'[u].keys} IN
                      IF k \in db'.uploads \cup {db'.report} THEN takers = {}
                      ELSE \E u \in Tx : takers = {u}
    BY DEF ObjectsAccountedFor
  <2> DEFINE before == {u \in Tx : Committed(u) /\ k \in tx[u].keys}
             after == {u \in Tx : Committed(u)' /\ k \in tx'[u].keys}
  <2>1. after = IF k \in Unlinked THEN before \cup {t} ELSE before
    BY <1>1 DEF Committed
  <2>2. CASE k = t
    <3>1. k \notin Unlinked BY <1>1, <1>3, <1>4, <2>2 DEF Refs
    <3>2. before = {} BY <1>1, <2>2 DEF HandedWereRecorded
    <3>3. k \in db'.uploads \cup {db'.report} BY <1>1, <1>3, <2>2
    <3> QED BY <2>1, <3>1, <3>2, <3>3
  <2>3. CASE k # t
    <3>1. Committed(k) /\ tx[k].op \in {"createUpload", "putReport"} BY <1>1, <2>3 DEF Committed
    <3>2. IF k \in Refs THEN before = {} ELSE \E u \in Tx : before = {u}
      BY <3>1 DEF ObjectsAccountedFor, Refs
    <3>3. k \in Refs /\ k \notin db'.uploads \cup {db'.report} <=> k \in Unlinked
      BY <1>3, <1>4 DEF Refs
    <3>4. k \notin Refs => k \notin db'.uploads \cup {db'.report}
      BY <1>3, <1>4, <2>3
    <3> HIDE DEF before, after
    <3> QED BY <2>1, <3>2, <3>3, <3>4 DEF after
  <2> QED BY <2>2, <2>3
<1> QED BY <1>5, <1>6

\* Each object that was recorded has its row, or was handed to exactly one
\* caller to delete.
THEOREM EveryObjectAccountedFor == Spec => []ObjectsAccountedFor
<1>1. Init => HandedWereRecorded /\ ObjectsAccountedFor
  BY DEF Init, Idle, HandedWereRecorded, ObjectsAccountedFor, Committed
<1>2. IInv /\ HandedWereRecorded /\ ObjectsAccountedFor /\ [Next]_vars
      => HandedWereRecorded' /\ ObjectsAccountedFor'
  <2> SUFFICES ASSUME IInv, HandedWereRecorded, ObjectsAccountedFor, [Next]_vars
               PROVE  HandedWereRecorded' /\ ObjectsAccountedFor'
    OBVIOUS
  <2>1. ASSUME db' = db, \A u \in Tx : (Committed(u) \/ Committed(u)') => tx'[u] = tx[u]
        PROVE  HandedWereRecorded' /\ ObjectsAccountedFor'
    <3>1. \A u \in Tx : /\ Committed(u)' <=> Committed(u)
                        /\ Committed(u) => tx'[u] = tx[u]
      BY <2>1 DEF Committed
    <3>2. HandedWereRecorded' BY <3>1 DEF HandedWereRecorded
    <3>3. \A k \in Tx : {t \in Tx : Committed(t)' /\ k \in tx'[t].keys}
                        = {t \in Tx : Committed(t) /\ k \in tx[t].keys}
      BY <3>1
    <3>4. ObjectsAccountedFor' BY <2>1, <3>1, <3>3 DEF ObjectsAccountedFor
    <3> QED BY <3>2, <3>4
  <2>2. CASE UNCHANGED vars BY <2>1, <2>2 DEF vars
  <2>3. ASSUME NEW t \in Tx, Commit(t) PROVE HandedWereRecorded' /\ ObjectsAccountedFor'
    BY <2>3, CommitAccounts
  <2>4. ASSUME NEW t \in Tx,
               (\E op \in Op : Begin(t, op)) \/ (Step(t) /\ ~Commit(t)) \/ Timeout(t) \/ Rollback(t)
        PROVE  HandedWereRecorded' /\ ObjectsAccountedFor'
    <3>1. db' = db /\ (\A u \in Tx \ {t} : tx'[u] = tx[u]) /\ ~Committed(t) /\ ~Committed(t)'
      BY <2>4, QuietStep
    <3> QED BY <2>1, <3>1
  <2> QED BY <2>2, <2>3, <2>4 DEF Next, Step
<1> QED BY <1>1, <1>2, Invariant, PTL DEF Spec

-----------------------------------------------------------------------------
\* A commit takes effect on the store as it is.
LEMMA CommitRefines == ASSUME IInv, NEW t \in Tx, Commit(t) PROVE Store!Next
<1> DEFINE taken == {u \in Tx : Committed(u)}
           handed == [u \in Tx |-> IF Committed(u) THEN tx[u].keys ELSE {}]
<1>1. /\ \A u \in Tx \ {t} : tx'[u] = tx[u]
      /\ Committed(t)' /\ tx'[t].keys = tx[t].keys /\ ~Committed(t)
      /\ tx[t].op \in Op /\ t \notin db.uploads \cup {db.report}
  BY CommittedRecord DEF Committed
<1>2. /\ db' = Effect(tx[t].op, t, db) /\ db' \in Tables /\ tx[t].keys = Unlinks(tx[t].op, db)
      /\ tx[t].op \in {"deleteSubmission", "putReport"} => db.envelope # None
      /\ tx[t].op = "deleteReport" => db.report # None
  BY CommitTakesEffect
<1>3. t \notin taken /\ taken' = taken \cup {t} BY <1>1 DEF Committed
<1>4. tx[t].keys = Store!Referenced(db) \ Store!Referenced(db')
  <2> DEFINE s == db'
  <2>1. s \in Tables /\ s = Effect(tx[t].op, t, db) BY <1>2
  <2> HIDE DEF s
  <2>2. tx[t].keys = Store!Referenced(db) \ Store!Referenced(s)
    BY <1>1, <1>2, <2>1, EffectIsCoherent
  <2> QED BY <2>2 DEF s
<1>5. handed' = [handed EXCEPT ![t] = tx[t].keys] BY <1>1 DEF Committed
<1>6. CASE tx[t].op = "createUpload"
  <2>1. db' = [db EXCEPT !.uploads = @ \cup {t}, !.envelope = IF @ = None THEN t ELSE @] BY <1>2, <1>6 DEF Effect
  <2>2. Store!Take(t, [db EXCEPT !.uploads = @ \cup {t}, !.envelope = IF @ = None THEN t ELSE @]) BY <1>3, <1>4, <1>5, <2>1 DEF Store!Take
  <2> QED BY <1>2, <1>6, <2>2 DEF Store!Next, Store!CreateUpload
<1>7. CASE tx[t].op = "deleteSubmission"
  <2>1. db' = Store!NoSubmission BY <1>2, <1>7 DEF Effect, NoSubmission, Store!NoSubmission
  <2>2. Store!Take(t, Store!NoSubmission) BY <1>3, <1>4, <1>5, <2>1 DEF Store!Take
  <2> QED BY <1>2, <1>7, <2>2 DEF Store!Next, Store!DeleteSubmission
<1>8. CASE tx[t].op = "putReport"
  <2>1. db' = [db EXCEPT !.report = t] BY <1>2, <1>8 DEF Effect
  <2>2. Store!Take(t, [db EXCEPT !.report = t]) BY <1>3, <1>4, <1>5, <2>1 DEF Store!Take
  <2> QED BY <1>2, <1>8, <2>2 DEF Store!Next, Store!PutReport
<1>9. CASE tx[t].op = "deleteReport"
  <2>1. db' = [db EXCEPT !.report = None] BY <1>2, <1>9 DEF Effect
  <2>2. Store!Take(t, [db EXCEPT !.report = None]) BY <1>3, <1>4, <1>5, <2>1 DEF Store!Take
  <2> QED BY <1>2, <1>9, <2>2 DEF Store!Next, Store!DeleteReport
<1>10. CASE tx[t].op = "setStatus"
  <2>1. db' = IF db.envelope = None THEN db ELSE [db EXCEPT !.status = t] BY <1>2, <1>10 DEF Effect
  <2>2. Store!Take(t, IF db.envelope = None THEN db ELSE [db EXCEPT !.status = t]) BY <1>3, <1>4, <1>5, <2>1 DEF Store!Take
  <2> QED BY <1>2, <1>10, <2>2 DEF Store!Next, Store!SetStatus
<1> QED BY <1>1, <1>6, <1>7, <1>8, <1>9, <1>10 DEF Op, ReadFirst, WriteFirst

\* The transactions of store.go are serial: each takes effect at its commit or
\* never, and hands back what it unlinked.
THEOREM Serializable == Spec => ImplementsSerialStore
<1>1. Init => Store!Init
  BY DEF Init, Idle, Store!Init, Committed, Tables, Store!Tables, NoSubmission, Store!NoSubmission
<1>2. IInv /\ [Next]_vars => [Store!Next]_(Store!vars)
  <2> SUFFICES ASSUME IInv, [Next]_vars PROVE [Store!Next]_(Store!vars) OBVIOUS
  <2>1. CASE UNCHANGED vars BY <2>1 DEF vars, Store!vars, Committed
  <2>2. ASSUME NEW t \in Tx, Commit(t) PROVE [Store!Next]_(Store!vars) BY <2>2, CommitRefines
  <2>3. ASSUME NEW t \in Tx,
               (\E op \in Op : Begin(t, op)) \/ (Step(t) /\ ~Commit(t)) \/ Timeout(t) \/ Rollback(t)
        PROVE  UNCHANGED Store!vars
    <3>1. db' = db /\ (\A u \in Tx \ {t} : tx'[u] = tx[u]) /\ ~Committed(t) /\ ~Committed(t)'
      BY <2>3, QuietStep
    <3>2. \A u \in Tx : (Committed(u)' <=> Committed(u)) /\ (Committed(u) => tx'[u].keys = tx[u].keys)
      BY <3>1 DEF Committed
    <3> QED BY <3>1, <3>2 DEF Store!vars
  <2> QED BY <2>1, <2>2, <2>3 DEF Next, Step
<1> QED BY <1>1, <1>2, Invariant, PTL DEF Spec, ImplementsSerialStore, Store!Spec
=============================================================================
