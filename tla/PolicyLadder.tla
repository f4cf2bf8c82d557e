---------------------------- MODULE PolicyLadder ----------------------------
(***************************************************************************)
(* The life of a policy as PolicyLifecycle (policy/lifecycle.py) tells it: *)
(* promoted one stage at a time, rolled back, never forgotten.  A policy   *)
(* enters it in draft or in shadow.                                        *)
(***************************************************************************)
EXTENDS Naturals

CONSTANT Policies

VARIABLE stage  \* the mode of each policy, or "unregistered"

Mode == {"draft", "shadow", "warning", "blocking"}
Rank == [draft |-> 0, shadow |-> 1, warning |-> 2, blocking |-> 3]

Init == stage \in [Policies -> {"unregistered", "draft", "shadow"}]

Register(p) == stage[p] = "unregistered" /\ stage'[p] \in {"draft", "shadow"}

Promote(p) ==
    /\ stage[p] \in Mode \ {"blocking"}
    /\ stage'[p] \in Mode /\ Rank[stage'[p]] = Rank[stage[p]] + 1

(* rollback takes one step; a change of the registry may take several.     *)
Rollback(p) ==
    /\ stage[p] \in Mode \ {"draft"}
    /\ stage'[p] \in Mode /\ Rank[stage'[p]] < Rank[stage[p]]

Next ==
    /\ DOMAIN stage' = Policies
    /\ \A p \in Policies :
          Register(p) \/ Promote(p) \/ Rollback(p) \/ stage'[p] = stage[p]

Spec == Init /\ [][Next]_stage
=============================================================================
