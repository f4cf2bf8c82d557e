\* Two server processes and a gate on one database, of either backend.
SPECIFICATION Spec
CONSTANTS
    Instance = {i1, i2}
    Gate = gate
    Directories <- Releases
    Approvable = {"risky", "other"}
    MaxWrites = 2
    Changes <- ThreeChanges
    Hanging = {"slow"}
INVARIANT SchemaAsShipped
INVARIANT AuditIsRecord
INVARIANT ViewIsCommitted
INVARIANT GateProves
PROPERTY GateEnds
