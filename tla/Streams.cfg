SPECIFICATION MCSpec
CONSTANTS
    Workers = {w1, w2}
    Users = {u1, u2}
    Actors = {u1}
    Readers = {u2}
    Datasets = {d1}
    Groups = {g1}
    Insiders = {u1}
    Hidden = {}
    Limit = 5
    Window = 9
    Alone = {"view", "notify"}
    MaxTime = 3
    Absent = Absent
    Pages = {p1, p2}
    Visitors = {v1}
    Cron = Cron
    Recent = 1
    MaxDay = 4
    MaxViews = 2
    BaseLimit = 2
    MaxLimit = 4
    MaxActivities = 8
    None = None
    NotFound = NotFound
    Organizations = {o1}
    Savers = {w1}
    WholeFields = {"title"}
    OptionalFields = {"notes"}
    ExtensionFields = {"e1"}
    PerPage = 2
    Limits = {2}
    RowsMax = 3
    ListMax = 7
    AllFieldsMax = 2
    MaxItems = 8
    Samples = 2
    Dates = {1, 2}
    RequestsPage = 2
    CountPage = 999
    MaxRequests = 5
    LastDate = 4
INVARIANTS TypesOK SummaryTellsAll ViewsCounted PagesTurned
PROPERTIES MailedOnce NothingSkipped PagesWhole FollowersAgree
CHECK_DEADLOCK FALSE
