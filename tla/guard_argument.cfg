\* A method that checks another argument before the key.
SPECIFICATION Spec
CONSTANTS
    NoPath = NoPath
    Unsafe = Unsafe
    Lines = {"id", "f", "g"}
    MaxScript = 3
    Contexts = {3}
    LastLineEnds <- SameEnds
    Repeats = FALSE
    Changes <- OtherKeys
    GovernedBy <- Contracts
    Suffix <- FileSuffixes
    Registry <- PolicyRegistry
    Analysed <- AnalysedIn
    Identifying = {"id"}
    Lexemes <- AllLexemes
    MaxEvaluations = 2
INVARIANT KeyCheckedFirst
