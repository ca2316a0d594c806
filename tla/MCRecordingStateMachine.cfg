CONSTANTS
    None = None
    Id = {r1, r2}
    Code = {c1}
    PermissionTimeout = 2
    StopTimeout = 1
    Instant <- MCInstant
    Duration <- MCDuration
    RetentionAge = 1
    MaxReady = 1
    Now <- MCNow
    Lists <- MCLists
SPECIFICATION Spec
INVARIANTS
    NoStaleSession
    InstantsOrdered
    ElapsedIsExact
    DeletesWhatTheRuleSays
PROPERTY LastEventNeverMovesBack
