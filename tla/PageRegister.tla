---------------------------- MODULE PageRegister ----------------------------
(***************************************************************************)
(* What the server promises about an intake page, seen from outside and    *)
(* with no row id, no handler and no SQL.  A page is known by its slug,    *)
(* the 24-character capability that is generated once.  It is published,   *)
(* it may be sealed, it may be retired (deleted); it never goes back.      *)
(* Guests are let in to upload only while the page is open.                *)
(*                                                                         *)
(* The documents also say that a sealed page is never retired.  The code   *)
(* does not keep that under concurrency (see MCSealedDelete), so this      *)
(* register allows it: the register is what PageLifecycle implements.      *)
(***************************************************************************)
CONSTANTS
    Slugs,   \* the capabilities the generator can produce
    Guests   \* the HTTP requests that may be let in to upload

VARIABLES
    status,   \* the life of each slug
    admitted  \* the guests each slug has let in so far

registerVars == <<status, admitted>>

Status == {"unborn", "open", "sealed", "retired"}

Init ==
    /\ status = [s \in Slugs |-> "unborn"]
    /\ admitted = [s \in Slugs |-> {}]

Move(s, from, to) ==
    /\ status[s] \in from
    /\ status' = [status EXCEPT ![s] = to]
    /\ UNCHANGED admitted

Publish(s) == Move(s, {"unborn"}, "open")

Seal(s) == Move(s, {"open"}, "sealed")

Retire(s) == Move(s, {"open", "sealed"}, "retired")

LetIn(s, g) ==
    /\ status[s] = "open"
    /\ admitted' = [admitted EXCEPT ![s] = @ \cup {g}]
    /\ UNCHANGED status

Next ==
    \E s \in Slugs :
        \/ Publish(s)
        \/ Seal(s)
        \/ Retire(s)
        \/ \E g \in Guests : LetIn(s, g)

Spec == Init /\ [][Next]_registerVars
=============================================================================
