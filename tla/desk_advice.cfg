SPECIFICATION Spec
CONSTANTS
    a = a
    b = b
    Approvers = {a, b}
    Outsiders = {}
    Changes <- OneAndTwoOwners
    Prepared <- NothingMore
    ApproverLists = {{a, b}}
    Waivers = FALSE
    MaxRequests = 2
INVARIANT AdviceReleases
