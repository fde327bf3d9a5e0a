SPECIFICATION MCSpec
CONSTANTS
    Main = "main"
    Files = {"a", "b"}
    BuiltIns <- MCBuiltIns
    MaxImports = 2
    MaxBuilds = 2
    Kinds = {"lexical", "syntax", "missing", "otherPath"}
INVARIANTS
    CompleteProgram
    ImportsComeFirst
PROPERTIES
    BuildEnds
