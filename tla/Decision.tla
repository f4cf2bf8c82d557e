------------------------------ MODULE Decision ------------------------------
(***************************************************************************)
(* decide (decision/v2.py) with the risk score of risk/engine.py: the      *)
(* aggregate decision on one change.  Pure definitions, used by            *)
(* DecisionTable and ApprovalDesk.                                         *)
(*                                                                         *)
(* An input is a record with                                               *)
(*   findings   the findings: severity, confidence (percent), policy mode, *)
(*              violated, unknown, public, and approvers, the at most one  *)
(*              required_approver as a set                                 *)
(*   owners     the owners the evaluator collected                         *)
(*   tests      whether any test is required                               *)
(*   passed     whether tests_passed is True                               *)
(*   known      version_known                                              *)
(*   satisfied  approval_satisfied                                         *)
(***************************************************************************)
EXTENDS Naturals, FiniteSets

Mode == {"draft", "shadow", "warning", "blocking"}

(* _WEIGHTS, and approval_threshold's default, in percent.                 *)
Weight == [low |-> 15, medium |-> 35, high |-> 65, critical |-> 100]
Threshold == 70

Finding(owners) ==
    [severity : DOMAIN Weight, confidence : 0..100, mode : Mode,
     violated : BOOLEAN, unknown : BOOLEAN, public : BOOLEAN,
     approvers : SUBSET owners]

(* From the most to the least restrictive.                                 *)
Rank == [BLOCK |-> 3, REQUIRE_APPROVAL |-> 2, ALLOW_WITH_TESTS |-> 1, ALLOW |-> 0]
DecisionState == DOMAIN Rank

(* A faulty version: only drafts are left out.                             *)
ActiveWithShadow(findings) == {f \in findings : f.mode # "draft"}

(* Findings of draft and shadow policies are observed, not acted on.       *)
Active(findings) == {f \in findings : f.mode \notin {"draft", "shadow"}}

Critical(findings) ==
    {f \in Active(findings) :
        f.violated /\ f.severity = "critical" /\ f.mode = "blocking"}

(* A faulty version: unknown only if every finding is (all for any).       *)
UnknownIfAll(findings) ==
    {f \in Active(findings) : \A g \in Active(findings) : g.unknown}

Unknown(findings) == {f \in Active(findings) : f.unknown}
Warned(findings) == {f \in Active(findings) : f.violated /\ f.mode = "warning"}
Public(findings) == {f \in Active(findings) : f.public}

(* A faulty version: every active finding counts, passed checks too.       *)
RiskOfAnyFinding(findings) ==
    \E f \in Active(findings) : Weight[f.severity] * f.confidence >= 100 * Threshold

(* risk_score >= approval_threshold.  The score is the greatest weighted   *)
(* confidence of a material finding, so it is reached if one reaches it.   *)
RiskReached(findings) ==
    \E f \in Active(findings) :
        /\ f.violated \/ f.unknown \/ f.public
        /\ Weight[f.severity] * f.confidence >= 100 * Threshold

(* The reasons decide looks at before, and after, the required tests.      *)
UnknownBoundary(in) == Unknown(in.findings) # {} \/ ~in.known
SharedConcern(in) ==
    \/ Warned(in.findings) # {}
    \/ Public(in.findings) # {}
    \/ Cardinality(in.owners) > 1

(* A faulty version: a satisfied approval is looked at first.              *)
DecideApprovalFirst(in) ==
    IF in.satisfied
    THEN IF in.tests /\ ~in.passed THEN "ALLOW_WITH_TESTS" ELSE "ALLOW"
    ELSE IF Critical(in.findings) # {} THEN "BLOCK"
    ELSE IF UnknownBoundary(in) THEN "REQUIRE_APPROVAL"
    ELSE IF in.tests /\ ~in.passed THEN "ALLOW_WITH_TESTS"
    ELSE IF SharedConcern(in) \/ RiskReached(in.findings) THEN "REQUIRE_APPROVAL"
    ELSE "ALLOW"

(* The order of the conditions is the specification: hard conditions       *)
(* first, the risk score last.                                             *)
Decide(in) ==
    IF Critical(in.findings) # {} THEN "BLOCK"
    ELSE IF UnknownBoundary(in) /\ ~in.satisfied THEN "REQUIRE_APPROVAL"
    ELSE IF in.tests /\ ~in.passed THEN "ALLOW_WITH_TESTS"
    ELSE IF /\ SharedConcern(in) \/ RiskReached(in.findings)
            /\ ~in.satisfied
         THEN "REQUIRE_APPROVAL"
    ELSE "ALLOW"

(* _approvers: who has to approve, when an approval is what is asked for.  *)
RequiredApprovers(in) ==
    IF Decide(in) = "REQUIRE_APPROVAL"
    THEN in.owners \cup UNION {f.approvers : f \in Active(in.findings)}
    ELSE {}
=============================================================================
