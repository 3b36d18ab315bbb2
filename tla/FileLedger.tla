----------------------------- MODULE FileLedger -----------------------------
(***************************************************************************)
(* What the server promises about the files of a page, with no row, no     *)
(* event, no handler and no order of SQL and store calls.  A file is       *)
(* absent until it is held in the store; then it is listed, once, or given *)
(* up; a listed file may lose its object before its row (hollow) or its    *)
(* row before its object (orphan); gone is gone.                           *)
(*                                                                         *)
(* Uploaders group their files into submissions.  The first file of a      *)
(* submission opens it and gives its receipt to all that follow, until the *)
(* submission is removed, with all its files at once.  The next file under *)
(* the same id opens it anew.                                              *)
(***************************************************************************)
CONSTANTS
    Uploads,      \* the files
    Submissions,  \* the ids uploaders choose
    NoSub,        \* the submission of a file nobody has begun to send
    NoToken       \* no receipt

VARIABLES
    page,     \* "open", "sealed" or "gone"
    place,    \* where each file is
    sender,   \* the submission each file was sent under
    opened,   \* the file that opened a submission, while it lasts
    receipt   \* the receipt each listed file was answered with

ledgerVars == <<page, place, sender, opened, receipt>>

Init ==
    /\ page = "open"
    /\ place = [k \in Uploads |-> "absent"]
    /\ sender = [k \in Uploads |-> NoSub]
    /\ opened = [s \in Submissions |-> NoToken]
    /\ receipt = [k \in Uploads |-> NoToken]

Move(k, from, to) ==
    /\ place[k] \in from
    /\ place' = [place EXCEPT ![k] = to]

\* A file is let in while the page is open, and under one submission.
Admit(k, s) ==
    /\ page = "open"
    /\ sender[k] = NoSub
    /\ sender' = [sender EXCEPT ![k] = s]
    /\ UNCHANGED <<page, place, opened, receipt>>

Store(k) ==
    /\ sender[k] # NoSub
    /\ Move(k, {"absent"}, "held")
    /\ UNCHANGED <<page, sender, opened, receipt>>

\* A file is listed with its object, and not on a page that is gone.
Record(k) ==
    LET s == sender[k] IN
    /\ page # "gone"
    /\ Move(k, {"held"}, "listed")
    /\ opened' = [opened EXCEPT ![s] = IF @ = NoToken THEN k ELSE @]
    /\ receipt' = [receipt EXCEPT ![k] = opened'[s]]
    /\ UNCHANGED <<page, sender>>

\* An upload fails, before or after the store has the object; a cut leaves it.
GiveUp(k) ==
    /\ \/ sender[k] # NoSub /\ Move(k, {"absent", "held"}, "gone")
       \/ Move(k, {"held"}, "orphan")
    /\ UNCHANGED <<page, sender, opened, receipt>>

\* Only what was listed loses its object to a delete.
Discard(k) ==
    /\ Move(k, {"listed"}, "hollow") \/ Move(k, {"orphan"}, "gone")
    /\ UNCHANGED <<page, sender, opened, receipt>>

\* The row goes.
Unlisted(p) ==
    IF p = "listed" THEN "orphan" ELSE IF p = "hollow" THEN "gone" ELSE p

RemoveFile(k) ==
    /\ Move(k, {"listed", "hollow"}, Unlisted(place[k]))
    /\ UNCHANGED <<page, sender, opened, receipt>>

RemoveSubmission(s) ==
    /\ opened[s] # NoToken
    /\ opened' = [opened EXCEPT ![s] = NoToken]
    /\ place' = [k \in Uploads |->
                    IF sender[k] = s THEN Unlisted(place[k]) ELSE place[k]]
    /\ UNCHANGED <<page, sender, receipt>>

Seal ==
    /\ page = "open"
    /\ page' = "sealed"
    /\ UNCHANGED <<place, sender, opened, receipt>>

RemovePage ==
    /\ page # "gone"
    /\ page' = "gone"
    /\ place' = [k \in Uploads |-> Unlisted(place[k])]
    /\ opened' = [s \in Submissions |-> NoToken]
    /\ UNCHANGED <<sender, receipt>>

Next ==
    \/ \E k \in Uploads :
          \/ \E s \in Submissions : Admit(k, s)
          \/ Store(k) \/ Record(k) \/ GiveUp(k) \/ Discard(k) \/ RemoveFile(k)
    \/ \E s \in Submissions : RemoveSubmission(s)
    \/ Seal
    \/ RemovePage

Spec == Init /\ [][Next]_ledgerVars
=============================================================================
