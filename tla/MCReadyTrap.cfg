CONSTANTS
    None = None
    Recording <- MCRecording
    Shell = {s1}
    RetentionAge = 1
    MaxReady = 1
    MaxClock = 1
    MaxRestarts = 0
SPECIFICATION FairSpec
PROPERTY ReadyIsReleased
CHECK_DEADLOCK FALSE
