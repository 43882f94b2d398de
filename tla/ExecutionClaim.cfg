SPECIFICATION FairSpec
CONSTANTS
    t1 = t1
    t2 = t2
    r1 = r1
    r2 = r2
    single = single
    Task = {t1, t2}
    Runner = {r1, r2, single}
    Polling = {r1, r2}
    Committing = {r1, r2, single}
    BatchSize = 2
    Keyed = {r1, r2}
    MaxCrashes = 1
INVARIANTS ClaimsAreDisjoint
PROPERTIES ImplementsClaimQueue PreparedIsClaimed
CHECK_DEADLOCK FALSE
