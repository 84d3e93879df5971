SPECIFICATION Spec
CONSTANTS
    Workers = {w1, w2}
    MaxEdits = 1
    MaxJobs = 2
    MaxManual = 0
    MayFail = FALSE
    MayStop = FALSE
    MayAge = FALSE
    NoFile = NoFile
    Nobody = Nobody
CHECK_DEADLOCK FALSE
INVARIANT SkipsOnlyPending
