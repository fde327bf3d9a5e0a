SPECIFICATION Spec
CONSTANTS
    MaxLibraries = 3
    MaxFrames = 2
    None = None
    Limit = Limit
    Garbage = Garbage
INVARIANTS
    TokensIntact
    RunsWhatWasLoaded
    SelfContained
    MessageMatchesProgram
