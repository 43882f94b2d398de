SPECIFICATION FairSpec
CONSTANTS
    c1 = c1
    c2 = c2
    c3 = c3
    key = key
    NoKey = NoKey
    Client = {c1, c2, c3}
    Requirement = {c1, c3}
    Key <- SharedKey
    MaxFaults = 2
INVARIANTS OneTaskPerKey RequirementsHaveTasks ConflictMeansDone AcceptedIsStored
PROPERTY RequestIsStored
CHECK_DEADLOCK FALSE
