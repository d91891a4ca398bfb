SPECIFICATION FairSpec
CONSTANTS
    w1 = w1
    w2 = w2
    r1 = r1
    r2 = r2
    Nobody = Nobody
    Workers <- OneWorker
    Requests <- OneRequest
    Plan = 1
    MaxJobs = 2
    MaxTries = 1
PROPERTIES
    Settles
    GuardIsReleased
CHECK_DEADLOCK FALSE
