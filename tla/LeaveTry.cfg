CONSTANTS
    MaxFrames = 1
    MaxRegions = 2
    MaxOperands = 0
    MaxLoad = 5
    ArgCounts = {0}
    Uses = {"leaveTry"}
SPECIFICATION Spec
INVARIANTS
    HandlersMatchCode
