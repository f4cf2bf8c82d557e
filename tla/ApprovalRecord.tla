--------------------------- MODULE ApprovalRecord ---------------------------
(***************************************************************************)
(* The approval record of workflow/approval.py and the transition table of *)
(* workflow/state_machine.py: what one record holds, when an operation is  *)
(* accepted (Can...) and what it makes of the record.  Pure definitions;   *)
(* ApprovalService and ApprovalDesk decide when an operation runs and      *)
(* where its result is kept.                                               *)
(***************************************************************************)
EXTENDS Naturals, Sequences, FiniteSets

CONSTANTS
    Approvers,  \* the identities approval requests name as approvers
    Outsiders   \* identities that can sign only when somebody delegates to them

ASSUME PeopleAssumption ==
    /\ IsFiniteSet(Approvers)
    /\ Approvers \cap Outsiders = {}

People == Approvers \cup Outsiders

ApprovalState ==
    {"pending", "evidence_requested", "approved", "rejected", "expired", "escalated"}

(* _TRANSITIONS: the states a record may move to; none from a final state. *)
Transitions ==
    [s \in ApprovalState |->
        CASE s = "pending" -> ApprovalState
          [] s = "evidence_requested" ->
                {"pending", "rejected", "expired", "escalated"}
          [] s = "escalated" -> {"approved", "rejected", "expired"}
          [] OTHER -> {}]

(* transition(current, target) raises unless the table allows the move.    *)
CanMove(r, target) == target \in Transitions[r.state]

(* One entry of the delegates dict: who delegated, and to whom.            *)
Delegation == [approver : Approvers, delegate : People]

(* ApprovalRequest.  The delegates dict keeps the order of first insertion,*)
(* which approve reads, so it is a sequence; evidence_refs is a count, and *)
(* of the waiver only its presence matters to the operations.              *)
Record ==
    [approvers : SUBSET Approvers, required : Nat, state : ApprovalState,
     approvals : SUBSET Approvers, delegates : Seq(Delegation),
     evidence : Nat, waived : BOOLEAN]

(* valid_cosign_contract: some approver, and a threshold they can reach.   *)
ValidContract(approvers, required) ==
    /\ approvers # {}
    /\ required \in 1..Cardinality(approvers)

NewRecord(approvers, required, evidence) ==
    [approvers |-> approvers, required |-> required, state |-> "pending",
     approvals |-> {}, delegates |-> <<>>, evidence |-> evidence,
     waived |-> FALSE]

Moved(r, target) == [r EXCEPT !.state = target]

-----------------------------------------------------------------------------
(* delegate: configured approvers only.  An approver that has delegated    *)
(* before keeps its place in the dict.                                     *)
CanDelegate(r, approver) == approver \in r.approvers

Delegated(r, approver, delegate) ==
    LET entry == [approver |-> approver, delegate |-> delegate]
        at == {i \in DOMAIN r.delegates : r.delegates[i].approver = approver}
    IN  IF at = {}
        THEN [r EXCEPT !.delegates = Append(@, entry)]
        ELSE [r EXCEPT !.delegates =
                 [i \in DOMAIN @ |-> IF i \in at THEN entry ELSE @[i]]]

(* add_evidence, request_evidence *)
CanAddEvidence(r) == CanMove(r, "pending")
WithEvidence(r) == [Moved(r, "pending") EXCEPT !.evidence = @ + 1]
CanRequestEvidence(r) == CanMove(r, "evidence_requested")

(* The people approve and reject listen to.                                *)
Eligible(r) ==
    r.approvers \cup {r.delegates[i].delegate : i \in DOMAIN r.delegates}

(* A faulty version: a delegate signs in their own name.                   *)
SlotOfActor(r, actor) == actor

(* approval_slot: the first approver that delegated to the actor, or the   *)
(* actor's own slot when nobody did.                                       *)
ApprovalSlot(r, actor) ==
    LET held == {i \in DOMAIN r.delegates : r.delegates[i].delegate = actor}
    IN  IF held = {}
        THEN actor
        ELSE r.delegates[CHOOSE i \in held : \A j \in held : i <= j].approver

Signed(r, actor) == [r EXCEPT !.approvals = @ \cup {ApprovalSlot(r, actor)}]
ThresholdMet(r) == Cardinality(r.approvals) >= r.required

(* A faulty version: approve without transition().                         *)
CanApproveUnchecked(r, actor) == actor \in Eligible(r)

(* approve signs whatever the state; only the signature that meets the     *)
(* threshold must also be allowed to move the record to approved.          *)
CanApprove(r, actor) ==
    /\ actor \in Eligible(r)
    /\ ThresholdMet(Signed(r, actor)) => CanMove(r, "approved")

(* A faulty version: the threshold is looked at before the signature.      *)
ApprovedTooLate(r, actor) ==
    IF ThresholdMet(r) THEN Moved(Signed(r, actor), "approved") ELSE Signed(r, actor)

Approved(r, actor) ==
    LET signed == Signed(r, actor)
    IN  IF ThresholdMet(signed) THEN Moved(signed, "approved") ELSE signed

(* A faulty version: the call that grants logs the grant only.             *)
GrantOnlyEvents(r, actor) ==
    IF ThresholdMet(Signed(r, actor))
    THEN {"approval_granted"}
    ELSE {"approval_recorded"}

ApprovalEvents(r, actor) ==
    IF ThresholdMet(Signed(r, actor))
    THEN {"approval_recorded", "approval_granted"}
    ELSE {"approval_recorded"}

(* reject, grant_waiver *)
CanReject(r, actor) == actor \in Eligible(r) /\ CanMove(r, "rejected")
Waived(r) == [r EXCEPT !.waived = TRUE]

(* expire_or_escalate acts on an open request that is past its deadline.   *)
Escalates(r, due) == due /\ r.state \in {"pending", "evidence_requested"}
=============================================================================
