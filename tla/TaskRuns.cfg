SPECIFICATION Spec
CONSTANTS
    w1 = w1
    w2 = w2
    r1 = r1
    r2 = r2
    Nobody = Nobody
    Workers <- TwoWorkers
    Requests <- OneRequest
    Plan = 1
    MaxJobs = 2
    MaxTries = 2
SYMMETRY Slots
INVARIANTS
    TypeOK
    OneOwner
    OneMail
PROPERTIES
    CompletedIsFinal
    KeepsContract
CHECK_DEADLOCK FALSE
