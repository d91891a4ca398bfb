SPECIFICATION Spec
CONSTANTS
    w1 = w1
    w2 = w2
    c1 = c1
    c2 = c2
    r1 = r1
    Workers <- TwoWorkers
    Crons <- OneCron
    Requests <- OneRequest
    Kinds = {FALSE}
    QueueErrors = TRUE
    MaxAttempts = 2
    MaxTries = 2
    MaxRetries = 1
    MaxCrashes = 1
SYMMETRY Slots
INVARIANTS
    TypeOK
    OneUploader
    AutomaticNeverDuplicates
PROPERTIES
    OutcomesStand
CHECK_DEADLOCK FALSE
