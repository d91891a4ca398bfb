SPECIFICATION Spec
CONSTANTS
    Exports = {e1, e2}
    MaxEdits = 2
    Uploads = {u1, u2}
    Contents = {x, y}
    Keys = {k}
    Nothing = Nothing
    Sessions = {s1, s2}
    Concurrency = 1
    Clients = {a1}
    Mirrors = {}
    Crons = {c1}
    Nobody = Nobody
    Primary = Primary
    Fallback = Fallback
    MaxRevisions = 2
    MaxCrashes = 1
    MaxClips = 2
    MaxRetries = 1
    MaxFailures = 1
INVARIANTS
    TypesOK
    ExportsHold
    UploadsAreIdempotent
PROPERTIES
    SourceKept
    CompletionStands
    
    PageShowsClips
CHECK_DEADLOCK FALSE
