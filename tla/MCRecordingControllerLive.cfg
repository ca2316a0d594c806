CONSTANTS
    None = None
    Id <- MCId
    Code <- MCCode
    PermissionTimeout = 1
    StopTimeout = 1
    RetentionAge = 1
    MaxReady = 1
    MaximumDuration = 1
    MaxClock = 1
    MaxStepBacks = 0
    MaxRestarts = 1
SPECIFICATION FairSpec
PROPERTIES
    StartSettles
    RecordingEnds
    StopSettles
CHECK_DEADLOCK FALSE
