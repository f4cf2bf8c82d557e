\* One policy of changing owners, bundles filed under their own policy.
SPECIFICATION Spec
CONSTANTS
    Policies = {"p"}
    Definitions <- TwoOwners
    Samples <- Labelled
    Gates <- ScaledGates
    MaxTime = 1
    MaxRecords = 5
    Misfiled = FALSE
INVARIANT TypeOK
INVARIANT EnforcedIsApproved
INVARIANT BlockingIsPrecise
INVARIANT RollbackAlwaysOpen
PROPERTY KeepsLadder
