CONSTANTS
    None = None
    Id <- MCId
    Code <- MCCode
    PermissionTimeout = 1
    StopTimeout = 1
    RetentionAge = 1
    MaxReady = 1
    MaximumDuration = 1
    MaxClock = 0
    MaxStepBacks = 0
    MaxRestarts = 0
SPECIFICATION Spec
INVARIANT CaptureIsNeverOrphaned
CHECK_DEADLOCK FALSE
