SPECIFICATION Spec
CONSTANTS
    w1 = w1
    w2 = w2
    r1 = r1
    r2 = r2
    Nobody = Nobody
    Workers <- OneWorker
    Requests <- TwoRequests
    Plan = 2
    MaxJobs = 2
    MaxTries = 1
SYMMETRY Slots
INVARIANTS
    PaidWork
    OneClipPerPosition
    FailureReleasesMinutesOrRetry
PROPERTIES
    RetryIsOwnedAndPaid
CHECK_DEADLOCK FALSE
