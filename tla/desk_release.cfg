\* Two people, a stale change and one of two owners, of whom a context is
\* prepared that names one, two requests, waivers.
SPECIFICATION Spec
CONSTANTS
    a = a
    b = b
    Approvers = {a, b}
    Outsiders = {}
    Changes <- DriftedAndShared
    Prepared <- AlsoB
    ApproverLists = {{a, b}}
    Waivers = TRUE
    MaxRequests = 2
INVARIANT TypeOK
INVARIANT ReleaseVouched
INVARIANT GateHonoursDesk
PROPERTY ReleaseKept
