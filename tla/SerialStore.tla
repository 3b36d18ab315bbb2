---------------------------- MODULE SerialStore ----------------------------
(***************************************************************************)
(* What Intake and ReportChannel take a transaction of store.go for: it    *)
(* takes effect at once, on the tables as they are at that moment, or not  *)
(* at all, and a caller is handed the keys of exactly those objects that   *)
(* it has left without a row, for the caller to delete.                    *)
(***************************************************************************)
CONSTANTS Tx,    \* transactions, which also name the keys of the objects
                 \* they record and the envelope they make
          Key,   \* keys of objects, Tx and those recorded earlier
          None   \* no row

VARIABLES db,      \* the tables of one submission id
          taken,   \* the transactions that took effect
          handed   \* handed[t]: the keys t handed to its caller

vars == <<db, taken, handed>>

Tables == [envelope: Key \cup {None}, uploads: SUBSET Key,
           report: Key \cup {None}, status: Key \cup {None}]

NoSubmission == [envelope |-> None, uploads |-> {}, report |-> None, status |-> None]

\* The objects that rows refer to.
Referenced(s) == s.uploads \cup ({s.report} \ {None})

Init == /\ db \in Tables
        /\ db.envelope = None => db = NoSubmission
        /\ taken = {}
        /\ handed = [t \in Tx |-> {}]

Take(t, s) ==
    /\ t \notin taken
    /\ db' = s
    /\ taken' = taken \cup {t}
    /\ handed' = [handed EXCEPT ![t] = Referenced(db) \ Referenced(s)]

\* An upload is recorded in the envelope there is, or in a new one.
CreateUpload(t) ==
    Take(t, [db EXCEPT !.uploads = @ \cup {t},
                       !.envelope = IF @ = None THEN t ELSE @])

DeleteSubmission(t) == db.envelope # None /\ Take(t, NoSubmission)

PutReport(t) == db.envelope # None /\ Take(t, [db EXCEPT !.report = t])

DeleteReport(t) == db.report # None /\ Take(t, [db EXCEPT !.report = None])

SetStatus(t) ==
    Take(t, IF db.envelope = None THEN db ELSE [db EXCEPT !.status = t])

Next == \E t \in Tx : \/ CreateUpload(t)
                      \/ DeleteSubmission(t)
                      \/ PutReport(t)
                      \/ DeleteReport(t)
                      \/ SetStatus(t)

Spec == Init /\ [][Next]_vars
=============================================================================
