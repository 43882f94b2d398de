SPECIFICATION Spec
CONSTANTS
    t1 = t1
    t2 = t2
    w1 = w1
    w2 = w2
    Task = {t1, t2}
    Type <- Types
    WriteSetting <- Settings
    Branch <- NoBranches
    NoBranch = NoBranch
    Worker = {w1, w2}
    NoWorker = NoWorker
    MaxBatchSize = 2
    MaxAttempts = 1
    AttemptCap = 1
    ErrorText = {"recoverable", "non_recoverable"}
    SlowPreparation = FALSE
    SlowCycle = TRUE
SYMMETRY Symmetric
INVARIANT TwoWorkersNeverClaimTheSameTask
