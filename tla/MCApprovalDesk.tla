--------------------------- MODULE MCApprovalDesk ---------------------------
(* Changes under review: one that ends at an unknown boundary of a's and   *)
(* needs tests, one of two owners, one of a public contract whose prepared *)
(* context has gone stale.                                                 *)
EXTENDS ApprovalDesk

CONSTANTS a, b

Boundary ==
    [severity |-> "high", confidence |-> 100, mode |-> "blocking", violated |-> FALSE,
     unknown |-> TRUE, public |-> FALSE, approvers |-> {a}]
Contract == [Boundary EXCEPT !.unknown = FALSE, !.public = TRUE]

Dynamic == [id |-> "dynamic", findings |-> {Boundary}, owners |-> {a},
            tests |-> TRUE, stale |-> FALSE]
Shared == [id |-> "shared", findings |-> {Boundary}, owners |-> {a, b},
           tests |-> FALSE, stale |-> FALSE]
Drifted == [id |-> "drifted", findings |-> {Contract}, owners |-> {a},
            tests |-> FALSE, stale |-> TRUE]

OneAndTwoOwners == {Dynamic, Shared}
DriftedAndShared == {Drifted, Shared}

NothingMore == [approvers |-> {}, tests |-> FALSE]
AlsoB == [approvers |-> {b}, tests |-> FALSE]
=============================================================================
