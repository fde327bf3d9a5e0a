SPECIFICATION Spec
CONSTANTS
    ChunkSize = 3
    ObjectSize = 3
    MaxChunks = 1
    Null = Null
    PoolSize = 1
    MemberMemory = 2
    Const = Const
    NumLocals = 2
    MaxStack = 2
    MaxMemory = 100
    MaxCount = 4
    Uses = {"catch"}
INVARIANT
    RefCountExact
