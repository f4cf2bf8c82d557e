-------------------------- MODULE MCDecisionTable --------------------------
(* Findings as the validators and the impact analysis produce them: policy *)
(* checks that failed or passed in each mode, unknown boundaries, public   *)
(* contracts.                                                              *)
EXTENDS DecisionTable

CONSTANTS a, b

Policy(mode, severity, violated, public) ==
    [severity |-> severity, confidence |-> 100, mode |-> mode, violated |-> violated,
     unknown |-> FALSE, public |-> public, approvers |-> {a}]
Boundary(confidence) ==
    [severity |-> "high", confidence |-> confidence, mode |-> "blocking",
     violated |-> FALSE, unknown |-> TRUE, public |-> FALSE, approvers |-> {b}]

MCFindings ==
    {Policy(mode, severity, violated, FALSE) :
        mode \in Mode, severity \in {"medium", "critical"}, violated \in BOOLEAN}
    \cup {Policy(mode, "high", FALSE, TRUE) : mode \in Mode}
    \cup {Boundary(100), [Boundary(95) EXCEPT !.mode = "shadow"]}
=============================================================================
