CONSTANTS
    MaxFrames = 3
    MaxRegions = 3
    MaxOperands = 1
    MaxLoad = 5
    ArgCounts = {0, 1}
    Uses = {}
SPECIFICATION Spec
INVARIANTS
    StacksMatchCode
    FatalIsFinal
PROPERTIES
    ThrowsReachTheirFrame
    ImplementsTryCatchFinally
