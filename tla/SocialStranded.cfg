SPECIFICATION Spec
CONSTANTS
    w1 = w1
    w2 = w2
    c1 = c1
    c2 = c2
    r1 = r1
    Workers <- OneWorker
    Crons <- OneCron
    Requests <- OneRequest
    Kinds = {FALSE}
    QueueErrors = FALSE
    MaxAttempts = 1
    MaxTries = 1
    MaxRetries = 1
    MaxCrashes = 0
INVARIANTS
    FreshlyQueuedHasJob
CHECK_DEADLOCK FALSE
