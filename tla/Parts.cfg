SPECIFICATION MCSpec
CONSTANTS
    Workers = {w1, w2}
    Users = {u1}
    Datasets = {d1}
    Orgs = {o1, o2}
    NoOrg = NoOrg
    AllowUnowned = TRUE
    Kinds <- AllKinds
    ByName = FALSE
    MayStop = FALSE
    MaxRows = 6
    MaxRequests = 6
    FewRows = 4
    MaxVersion = 1
    Resources = {r1, r2, r3}
    Raced = {r1, r2}
    Nobody = Nobody
INVARIANTS TypeOK RowsHaveOrg ResourcesRight
PROPERTIES MembersRight ResourceNotLost
CHECK_DEADLOCK FALSE
