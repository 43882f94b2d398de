SPECIFICATION Spec
CONSTANTS
    m1 = m1
    m2 = m2
    m3 = m3
    NoId = NoId
    Message = {m1, m2, m3}
    CacheSize = 2
    MaxEvents = 4
    MaxConnections = 2
    FileCount = 3
    Tracked = {1, 3}
    InScope = {1, 2}
    CutInScope = {3}
    MaxCommits = 2
    MaxEdits = 4
    c1 = c1
    c2 = c2
    r1 = r1
    r2 = r2
    NoCommit = NoCommit
    Commit = {c1, c2}
    Runner = {r1, r2}
    MaxPulls = 1
    MaxCalls = 3
    MaxFailures = 1
    MaxAttempts = 7
    MaxAge = 4
INVARIANTS NothingTwice TerminalIsOfThisStream ReadOnlyViolationIsFound PassedChangesAreInScope SuccessIsInBranch  StartedStaleIsFound RetriesAreMeasured
SYMMETRY Symmetry
CHECK_DEADLOCK FALSE
