SPECIFICATION MCSpec
CONSTANTS
    Processes = {p1, p2}
    Options = {"k1", "k2"}
    Values = {"a", "b"}
    MayReset = FALSE
    MayDie = FALSE
    MaxTime = 4
    Workers = {w1, w2}
    Null = Null
    Keys = {"k1", "k2"}
    Numbers = {1, 2}
    Batches <- Batches1
    PaginateBy = 2
    RowsMax = 1
    DumpLimits = {3}
    MaxRows = 4
    MaxRequests = 3
    Datasets = {d1, d2}
    TagNames = {"x", "y"}
    Vocabularies = {v1}
    Labels = {Label1}
    Free = Free
    MayRename = FALSE
    MaxTags = 2
    RaceNames = {"x"}
    MaxChanged = 2
    Good = Good
    Bad = Bad
    Text = Text
    New = New
    Old = Old
    Taken = Taken
    Empty = Empty
    Missing = Missing
    Default = Default
    Org1 = Org1
    Org2 = Org2
    NotAList = NotAList
    Refused = Refused
    NoRequest = NoRequest
    FirstId = FirstId
    SecondId = SecondId
    NewId = NewId
    p1 = p1
    Tabs = {t1, t2}
    Contents = {"a", "b"}
    Resources = {r1, r2}
    Users = {u1, u2}
    FirstAdmins = {u1}
    RoleNames = {"other"}
    MaxRoles = 5
    MaxEdits = 1
    File = File
    Unset = Unset
    Nothing = Nothing
    Nobody = Nobody
INVARIANTS TypesOK DumpWhole Validated UpToDate
PROPERTIES RecordsLand TagsKept PatchesOne RevisedExactly FormsKept RoleUpdated
CHECK_DEADLOCK FALSE
