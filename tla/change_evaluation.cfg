\* Files without repeated lines, whose last line ends on both sides or on none.
SPECIFICATION Spec
CONSTANTS
    NoPath = NoPath
    Unsafe = Unsafe
    Lines = {"id", "f", "g"}
    MaxScript = 3
    Contexts = {1}
    LastLineEnds <- SameEnds
    Repeats = FALSE
    Changes <- AllChanges
    GovernedBy <- Contracts
    Suffix <- FileSuffixes
    Registry <- PolicyRegistry
    Analysed <- AnalysedIn
    Identifying = {"id"}
    Lexemes <- AllLexemes
    MaxEvaluations = 2
INVARIANT RebuiltIsPatch
INVARIANT SideDoesNotMatter
INVARIANT LossIsHeld
