SPECIFICATION Spec
CONSTANTS
    Workers = {w1}
    Accounts = {a1, a2}
    Emails = {e1}
    Alone = {}
    MaxKeys = 3
    Absent = Absent
INVARIANT LinksSaved
CHECK_DEADLOCK FALSE
