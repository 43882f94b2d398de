SPECIFICATION FairSpec
CONSTANTS
    t1 = t1
    t2 = t2
    r1 = r1
    r2 = r2
    single = single
    Task = {t1, t2}
    Runner = {r1, r2, single}
    Polling = {r1, r2}
    Committing = {}
    BatchSize = 2
    Keyed = {}
    MaxCrashes = 1

PROPERTY PreparedIsClaimed
CHECK_DEADLOCK FALSE
