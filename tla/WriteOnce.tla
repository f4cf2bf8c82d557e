----------------------------- MODULE WriteOnce -----------------------------
(***************************************************************************)
(* What ContextStore (change/store.py) promises: "store a new immutable    *)
(* context or verify an identical retry".  A context ID gets one payload   *)
(* for good, and whoever is told that a put succeeded put that payload.    *)
(***************************************************************************)
CONSTANTS Packs,   \* the Context Packs; pack.id is the context ID
          Absent   \* no row

VARIABLES table,     \* the stored pack of each ID
          confirmed  \* the packs whose put has returned
vars == <<table, confirmed>>

Init ==
    /\ table = [id \in {p.id : p \in Packs} |-> Absent]
    /\ confirmed = {}

(* The first pack stored under an ID; its owner may never hear of it.      *)
Store(p) ==
    /\ table[p.id] = Absent
    /\ table' = [table EXCEPT ![p.id] = p]
    /\ UNCHANGED confirmed

Verify(p) ==
    /\ table[p.id] = p
    /\ confirmed' = confirmed \cup {p}
    /\ UNCHANGED table

Next == \E p \in Packs : Store(p) \/ Verify(p)

Spec == Init /\ [][Next]_vars
=============================================================================
