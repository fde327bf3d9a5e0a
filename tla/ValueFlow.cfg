SPECIFICATION Spec
CONSTANTS
    ChunkSize = 2
    ObjectSize = 3
    MaxChunks = 2
    Null = Null
    PoolSize = 1
    MemberMemory = 2
    Const = Const
    NumLocals = 2
    MaxStack = 2
    MaxMemory = 8
    MaxCount = 2
    Uses = {"catch", "fieldOfVariable", "limits"}
INVARIANTS
    CountsAccounted
    ReclaimedOnce
    NothingForgotten
    LimitEnforced
PROPERTY
    KeepsArenaContract
    CascadeEnds
