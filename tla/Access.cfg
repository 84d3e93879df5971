SPECIFICATION MCSpec
CONSTANTS
    Workers = {w1, w2}
    Accounts = {a1, a2}
    Emails = {e1}
    Alone = {"perform"}
    MaxKeys = 3
    Absent = Absent
    u1 = u1
    u2 = u2
    o1 = o1
    o2 = o2
    o3 = o3
    o4 = o4
    d1 = d1
    NoOrg = NoOrg
    Sysadmin = Sysadmin
    Anon = Anon
    Org1 = Org1
    Group1 = Group1
SYMMETRY Symmetry
INVARIANTS TypesOK HierarchyAgrees ReadersAgree NoIntrusion
PROPERTIES AccountsKept GivesHisOwn
CHECK_DEADLOCK FALSE
