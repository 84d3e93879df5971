SPECIFICATION Spec
CONSTANTS
    Workers = {w1, w2}
    Datasets = {d1}
    Columns <- MCColumns
    Parts <- MCParts
    Values = {0, 1}
    Deleted = 1
    RemoveDeleted = TRUE
    Kinds <- SafeKinds
    Alone = {}
    MayAbort = TRUE
    MaxRequests = 3
    Absent = Absent
    Nobody = Nobody
CHECK_DEADLOCK FALSE
INVARIANTS TypeOK CacheCoherent
PROPERTIES PatchLeavesOthers ImplementsStore
