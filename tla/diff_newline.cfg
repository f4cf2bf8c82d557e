\* A diff that ends the last line, as editors do on saving.
SPECIFICATION Spec
CONSTANTS
    NoPath = NoPath
    Unsafe = Unsafe
    Lines = {"id", "f", "g"}
    MaxScript = 3
    Contexts = {3}
    LastLineEnds <- NewlineAdded
    Repeats = FALSE
    Changes <- Genuine
    GovernedBy <- Contracts
    Suffix <- FileSuffixes
    Registry <- PolicyRegistry
    Analysed <- AnalysedIn
    Identifying = {"id"}
    Lexemes <- AllLexemes
    MaxEvaluations = 2
INVARIANT SideDoesNotMatter
