\* The analysis of a change really ends: there is nothing to do after it.
SPECIFICATION FairSpec
CONSTANTS
    Sources <- AllSources
    Catalog <- TheCatalog
    Diffs <- AllDiffs
INVARIANT TypeOK
INVARIANT RoutesAreShortest
INVARIANT PersistedIsBusiness
INVARIANT DeadEndIsAsked
PROPERTY Answers
CHECK_DEADLOCK FALSE
