------------------------- MODULE MCPolicyGovernance -------------------------
(* Two owners, one of whose definitions is precise; a sample of each kind, *)
(* one of them labelled twice.  The numbers of the gates are scaled down.  *)
EXTENDS PolicyGovernance

TwoOwners ==
    {[owner |-> "ann", precision |-> "high", rule |-> "r"],
     [owner |-> "ben", precision |-> "high", rule |-> "r"],
     [owner |-> "ann", precision |-> "low", rule |-> "r"]}

Labelled ==
    {[id |-> 1, expected |-> "violation", triggered |-> TRUE],
     [id |-> 2, expected |-> "none", triggered |-> FALSE],
     [id |-> 2, expected |-> "none", triggered |-> TRUE]}

ScaledGates ==
    [samples |-> 2, positives |-> 1, negatives |-> 1, fp |-> 20, fn |-> 10, unknown |-> 20]
=============================================================================
