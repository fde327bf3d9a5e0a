CONSTANTS
    Kinds = {"list", "map", "set"}
    Nothing = Nothing
    Copies = 2
    ListContents = {a}
    MapContents = {a, b}
    MapRare = {b}
    MaxLen = 2
    MaxMemory = 3
    ClearedSize = 2
SPECIFICATION Spec
INVARIANTS
    NeverFreedEarly
    
    KeysDiffer
    ChargeIsExact

    
