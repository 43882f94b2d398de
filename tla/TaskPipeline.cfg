SPECIFICATION PipelineSpec
CONSTANTS
    t1 = t1
    t2 = t2
    w1 = w1
    w2 = w2
    w3 = w3
    r1 = r1
    r2 = r2
    NoWorker = NoWorker
    Task = {t1}
    Type <- Types
    WriteSetting <- NoSettings
    Branch <- NoBranches
    NoBranch = NoBranch
    Worker = {w1, w2, w3}
    MaxBatchSize = 2
    MaxAttempts = 2
    AttemptCap = 2
    ErrorText = {"recoverable", "non_recoverable"}
    SlowPreparation = FALSE
    SlowCycle = FALSE
    Runner = {r1, r2}
    Polling = {r1}
    Committing = {r1, r2}
    BatchSize = 1
    Keyed = {r1, r2}
    MaxCrashes = 1
SYMMETRY Symmetric
INVARIANTS OneActiveExecution FailedIsExplained
CHECK_DEADLOCK FALSE
