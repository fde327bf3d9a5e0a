CONSTANTS
    MaxFrames = 3
    MaxRegions = 2
    MaxOperands = 1
    MaxLoad = 3
    ArgCounts = {0}
    Uses = {"leaveTry", "leaveFinally", "throwAfterCallback", "operands"}
SPECIFICATION Spec
INVARIANTS
    HandlerAssertsHold
    OverflowReachesCaller
PROPERTIES
    UnwindingEnds
