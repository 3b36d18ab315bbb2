------------------------------ MODULE BlobStore ------------------------------
(***************************************************************************)
(* What the handlers expect of blob.Store, whichever backend is behind it: *)
(* an object appears whole or not at all, stays until it is deleted, and   *)
(* does not come back.  Keys carry a fresh UUID, so each is written once.  *)
(***************************************************************************)
CONSTANTS
    Keys,     \* the object keys
    Readers   \* the downloads

VARIABLES
    life,   \* key -> "absent", "held" or "deleted"
    given   \* the downloads that were given an object

blobVars == <<life, given>>

Init ==
    /\ life = [k \in Keys |-> "absent"]
    /\ given = {}

Put(k) ==
    /\ life[k] = "absent"
    /\ life' = [life EXCEPT ![k] = "held"]
    /\ UNCHANGED given

Delete(k) ==
    /\ life[k] = "held"
    /\ life' = [life EXCEPT ![k] = "deleted"]
    /\ UNCHANGED given

Give(r, k) ==
    /\ life[k] = "held"
    /\ given' = given \cup {r}
    /\ UNCHANGED life

Next ==
    \/ \E k \in Keys : Put(k) \/ Delete(k)
    \/ \E r \in Readers, k \in Keys : Give(r, k)

Spec == Init /\ [][Next]_blobVars
=============================================================================
