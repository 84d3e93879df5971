SPECIFICATION Spec
CONSTANTS
    Text = Text
    New = New
    Taken = Taken
    Empty = Empty
    Null = Null
    Missing = Missing
    Org1 = Org1
    Org2 = Org2
    UnownedAllowed = TRUE
    MaxChanged = 2
INVARIANT PrivateOwned
CHECK_DEADLOCK FALSE
