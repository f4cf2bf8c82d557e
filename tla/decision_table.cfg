SPECIFICATION TableSpec
CONSTANTS
    a = a
    b = b
    Owners = {a, b}
    Findings <- MCFindings
    MaxFindings = 3
INVARIANT TypeOK
INVARIANT RiskNeverDecides
INVARIANT ApprovalOnlyAnswers
PROPERTY FindingsNeverRelax
PROPERTY ShadowOnlyObserves
