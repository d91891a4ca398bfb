SPECIFICATION ClipsSpec
CONSTANTS
    Ids = {i1, i2, i3}
    MaxEdits = 3
    Tabs = {t1, t2}
    Preps = {p1, p2}
    MaxSaves = 2
    MaxTries = 2
    MaxFaults = 1
    Jobs = {j1, j2}
    MaxVersions = 2
    MaxActive = 1
    Requests = {r1, r2, r3}
    Limit = 1
    Clients = {a1, a2}
    Mirrors = {a2}
    Crons = {c1}
    Nobody = Nobody
    Primary = Primary
    Fallback = Fallback
    MaxRevisions = 2
    MaxCrashes = 1
    Keys = {1, 2}
    Texts = 2
    PlanSize = 2
    MaxRuns = 2
    MaxChanges = 1
    Links = {l1, l2}
    Callbacks = {k1, k2}
    Uses = {u1}
    Closers = {d1}
    MaxGrants = 2
    MaxRefreshes = 1
    Parts = {1, 2}
    Heights = {1, 2}
    MaxBegins = 2
    MaxFailures = 1
    Regions = {us, de}
    Home = us
    Initial = 1
    ByteLimit = 2
    Allowance = 3
    Tasks = {w1, w2}
    MaxTroubles = 2
INVARIANTS
    TypesOK
    ClipsStayTrue
    EditorHolds
    RetriesKeepTheirPlan
    ReplicasAgree
    DisconnectIsFinal
    SourceIsSound
PROPERTIES
    RenderOk
    ClipsOk
    PlanOk
    NothingIsLost
CHECK_DEADLOCK FALSE
