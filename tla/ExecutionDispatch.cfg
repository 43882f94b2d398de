SPECIFICATION FairSpec
CONSTANTS
    e1 = e1
    e2 = e2
    Execution = {e1, e2}
    MaxAttempts = 2
    MaxCrashes = 1
INVARIANTS OutcomeIsTrue AttemptsAreBounded
PROPERTIES SentWhileQueued OutcomeIsKept QueuedIsDispatched
CHECK_DEADLOCK FALSE
