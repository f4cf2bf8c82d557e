\* Two processes, one request, an outsider to delegate to: stale objects,
\* lost answers and restarts.
SPECIFICATION Spec
CONSTANTS
    Approvers = {a, b}
    Outsiders = {x}
    Services = {s1, s2}
    Keys <- OneKey
    MaxEvents = 4
    MaxEvidence = 1
SYMMETRY Interchangeable
INVARIANTS TypeOK QuorumExact AuditMatchesRecords HandlesAreHistory
PROPERTIES ImplementsLedger RecordsOnlyAdvance
