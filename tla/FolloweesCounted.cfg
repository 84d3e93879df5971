SPECIFICATION Spec
CONSTANTS
    Workers = {w1}
    Users = {u1, u2}
    Datasets = {d1}
    Groups = {g1}
    Organizations = {o1}
    None = None
INVARIANT FolloweesCounted
CHECK_DEADLOCK FALSE
