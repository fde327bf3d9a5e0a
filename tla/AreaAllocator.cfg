SPECIFICATION ArenaSpec
CONSTANTS
    ChunkSize = 3
    ObjectSize = 3
    MaxChunks = 2
    Null = Null
INVARIANTS
    FreeListIsExact
    MemoryIsExact
PROPERTY
    PoolRefinement
