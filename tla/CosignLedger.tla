---------------------------- MODULE CosignLedger ----------------------------
(***************************************************************************)
(* What the approval workflow promises: per request a ballot that is       *)
(* opened once with a quorum, collects signatures that are never taken     *)
(* back, and is granted by the very signature that completes the quorum,   *)
(* unless it was refused first.  Granted and refused are final.            *)
(* ApprovalService is shown to implement it.                               *)
(***************************************************************************)
EXTENDS Naturals, FiniteSets

CONSTANT Keys  \* the requests; k.approvers are the slots of the ballot of k

VARIABLES
    phase,   \* "absent", "open", "granted" or "refused"
    signed,  \* the slots that are signed
    quorum   \* how many have to be (0 while the ballot is absent)

vars == <<phase, signed, quorum>>

Init ==
    /\ phase = [k \in Keys |-> "absent"]
    /\ signed = [k \in Keys |-> {}]
    /\ quorum = [k \in Keys |-> 0]

Open(k, q) ==
    /\ phase[k] = "absent"
    /\ phase' = [phase EXCEPT ![k] = "open"]
    /\ quorum' = [quorum EXCEPT ![k] = q]
    /\ UNCHANGED signed

(* A signature short of the quorum; a refused ballot still collects them.  *)
Sign(k, slot) ==
    /\ phase[k] \in {"open", "refused"}
    /\ Cardinality(signed[k] \cup {slot}) < quorum[k]
    /\ signed' = [signed EXCEPT ![k] = @ \cup {slot}]
    /\ UNCHANGED <<phase, quorum>>

(* The signature that completes the quorum.                                *)
Grant(k, slot) ==
    /\ phase[k] = "open"
    /\ Cardinality(signed[k]) < quorum[k]
    /\ Cardinality(signed[k] \cup {slot}) >= quorum[k]
    /\ signed' = [signed EXCEPT ![k] = @ \cup {slot}]
    /\ phase' = [phase EXCEPT ![k] = "granted"]
    /\ UNCHANGED quorum

Refuse(k) ==
    /\ phase[k] = "open"
    /\ phase' = [phase EXCEPT ![k] = "refused"]
    /\ UNCHANGED <<signed, quorum>>

Next ==
    \E k \in Keys :
        \/ \E q \in 1..Cardinality(k.approvers) : Open(k, q)
        \/ \E slot \in k.approvers : Sign(k, slot) \/ Grant(k, slot)
        \/ Refuse(k)

Spec == Init /\ [][Next]_vars
=============================================================================
