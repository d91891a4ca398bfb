SPECIFICATION Spec
CONSTANTS
    h1 = h1
    h2 = h2
    t1 = t1
    t2 = t2
    k1 = k1
    NoKey = NoKey
    Handlers <- TwoHandlers
    Tasks <- TwoTasks
    Uploads <- OneUpload
    KeyOf <- MCKeyOf
    Legacy <- OldTask
    Cost <- MCCost
    LongestVideo = 2
    Limit = 3
    Terms = {1}
    MaxMonthlyPeriod = 2
    AddMonths <- TwoTickMonths
    MaxTime = 3
INVARIANT MonthWithinLimit
CHECK_DEADLOCK FALSE
