\* A library with an error the lexer reports does not reject the program.
SPECIFICATION MCSpec
CONSTANTS
    Main = "main"
    Files = {"a", "b"}
    BuiltIns <- MCNoBuiltIns
    MaxImports = 1
    MaxBuilds = 1
    Kinds = {"lexical"}
INVARIANTS
    ErrorsReject
