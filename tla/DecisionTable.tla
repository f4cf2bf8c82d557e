--------------------------- MODULE DecisionTable ---------------------------
(***************************************************************************)
(* How the input of decide grows while ChangeEvaluator._evaluate and its   *)
(* callers work on one change: a validator reports a finding with its      *)
(* owner and tests, the prepared context adds an owner or a test, CI       *)
(* attests the tests, an approval is found in the store.                   *)
(***************************************************************************)
EXTENDS Decision

CONSTANTS
    Owners,      \* identities that own policies and boundaries
    Findings,    \* the findings validators may report
    MaxFindings  \* bound on the findings of one change

ASSUME FindingsAssumption ==
    /\ IsFiniteSet(Owners)
    /\ Findings \subseteq Finding(Owners)
    /\ MaxFindings \in Nat

VARIABLE input  \* the DecisionInput
tableVars == <<input>>

TableInit ==
    input = [findings |-> {}, owners |-> {}, tests |-> FALSE, passed |-> FALSE,
             known |-> TRUE, satisfied |-> FALSE]

(* A faulty version: the owners of the active findings are appended as one *)
(* list, not added one by one.                                             *)
ReportNested(f, brings) ==
    /\ f \notin input.findings
    /\ Cardinality(input.findings) < MaxFindings
    /\ brings => Active({f}) # {}
    /\ input' = [input EXCEPT
          !.findings = @ \cup {f},
          !.owners = @ \cup {g.approvers : g \in Active({f})},
          !.tests = @ \/ brings]

(* One validated file: an active finding brings its owner and its policy's *)
(* required tests with it, one in shadow nothing.                          *)
Report(f, brings) ==
    /\ f \notin input.findings
    /\ Cardinality(input.findings) < MaxFindings
    /\ brings => Active({f}) # {}
    /\ input' = [input EXCEPT
          !.findings = @ \cup {f},
          !.owners = @ \cup UNION {g.approvers : g \in Active({f})},
          !.tests = @ \/ brings]

(* prepared_required_tests and prepared_required_approvers only add.       *)
Expand(owners, tests) ==
    input' = [input EXCEPT !.owners = @ \cup owners, !.tests = @ \/ tests]

(* decide_diff: a diff the legacy pipeline cannot judge.                   *)
LoseVersion == input.known /\ input' = [input EXCEPT !.known = FALSE]

(* _tests_passed: the evidence is all there, or some of it failed.         *)
Attest(result) == input.tests /\ input' = [input EXCEPT !.passed = result]

(* _approval: the second decide of an evaluation, or of a later one, finds *)
(* an approval, or finds it no longer valid.                               *)
Approval(found) == input' = [input EXCEPT !.satisfied = found]

TableNext ==
    \/ \E f \in Findings, brings \in BOOLEAN : Report(f, brings)
    \/ \E o \in Owners, tests \in BOOLEAN : Expand({o}, tests)
    \/ LoseVersion
    \/ \E result \in BOOLEAN : Attest(result) \/ Approval(result)

TableSpec == TableInit /\ [][TableNext]_tableVars

-----------------------------------------------------------------------------
(* Types: the owners are identities, one by one, whoever brought them.     *)
TypeOK ==
    input \in [findings : SUBSET Findings, owners : SUBSET Owners,
               tests : BOOLEAN, passed : BOOLEAN, known : BOOLEAN,
               satisfied : BOOLEAN]

(* One more finding never relaxes the decision, whatever the findings that *)
(* are there already: no finding masks another.  A finding that also       *)
(* brings the first required test is left out: decide asks for the tests   *)
(* before it asks for most approvals.                                      *)
FindingsNeverRelax ==
    [][(input.findings \subseteq input'.findings /\ input'.tests = input.tests
        /\ input'.passed = input.passed /\ input'.satisfied = input.satisfied)
       => Rank[Decide(input')] >= Rank[Decide(input)]]_tableVars

(* Shadow validation only observes: a finding of a draft or shadow policy  *)
(* changes neither the decision nor whom it asks (PRODUCTION.md, stage 2). *)
ShadowOnlyObserves ==
    [][(\E f \in Findings : /\ f.mode \in {"draft", "shadow"}
                            /\ input' = [input EXCEPT !.findings = @ \cup {f}])
       => /\ Decide(input') = Decide(input)
          /\ RequiredApprovers(input') = RequiredApprovers(input)]_tableVars

(* The risk score never decides: with the default threshold, whatever      *)
(* reaches it was already blocked or sent for approval by a hard condition.*)
RiskNeverDecides ==
    RiskReached(input.findings) =>
        \/ Critical(input.findings) # {}
        \/ UnknownBoundary(input)
        \/ SharedConcern(input)

(* An approval answers a request for approval and nothing else: it does    *)
(* not lift a block and does not stand in for the tests.                   *)
ApprovalOnlyAnswers ==
    LET pending == [input EXCEPT !.satisfied = FALSE]
        approved == [input EXCEPT !.satisfied = TRUE]
    IN  Decide(approved) # Decide(pending) =>
            /\ Decide(pending) = "REQUIRE_APPROVAL"
            /\ Decide(approved) =
                  IF input.tests /\ ~input.passed THEN "ALLOW_WITH_TESTS" ELSE "ALLOW"
=============================================================================
