SPECIFICATION MCSpec
CONSTANTS
    Workers = {w1, w2}
    MaxEdits = 3
    MaxJobs = 5
    FewJobs = 2
    MaxManual = 1
    MayFail = TRUE
    MayStop = FALSE
    MayAge = FALSE
    NoFile = NoFile
    Nobody = Nobody
INVARIANTS TypeOK HookFindsTask TableIsCurrent
PROPERTY TaskEnds
CHECK_DEADLOCK FALSE
