\* Two processes, two packs of one ID, with SQLite and with PostgreSQL.
SPECIFICATION Spec
CONSTANTS
    s1 = s1
    s2 = s2
    Processes = {s1, s2}
    Packs <- TwoBudgets
    Absent = Absent
INVARIANT TypeOK
INVARIANT PutConfirms
PROPERTY StoreImmutable
PROPERTY KeepsPromise
