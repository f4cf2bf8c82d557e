\* Two callers of a graph or of a knowledge base over two files.
SPECIFICATION FairSpec
CONSTANTS
    c1 = c1
    c2 = c2
    Callers = {c1, c2}
    Files = 2
    Versions = 3
    Reverts = FALSE
INVARIANT TypeOK
INVARIANT CurrentWhenQuiet
PROPERTY LockReleased
