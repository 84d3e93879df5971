SPECIFICATION FairSpec
CONSTANTS
    Workers = {w1, w2}
    Datasets = {d1}
    Columns <- MCColumns
    Parts <- MCParts
    Values = {0, 1}
    Deleted = 1
    RemoveDeleted = TRUE
    Kinds <- AllButClear
    Alone <- UnlockedKinds
    MayAbort = FALSE
    MaxRequests = 3
    Absent = Absent
    Nobody = Nobody
INVARIANT IndexInSync
PROPERTY RequestsEnd
CHECK_DEADLOCK FALSE
