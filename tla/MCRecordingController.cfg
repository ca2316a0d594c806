CONSTANTS
    None = None
    Id <- MCId
    Code <- MCCode
    PermissionTimeout = 1
    StopTimeout = 1
    RetentionAge = 1
    MaxReady = 1
    MaximumDuration = 1
    MaxClock = 1
    MaxStepBacks = 1
    MaxRestarts = 1
VIEW View
CONSTRAINT OneDisturbance
SPECIFICATION Spec
INVARIANTS
    KeptIsDownloadable
    RecordingWillBeStopped
    OnlyTimeoutOrphansCapture
PROPERTY ImplementsService
CHECK_DEADLOCK FALSE
