CONSTANTS
    None = None
    Recording <- MCRecording
    Shell = {s1, s2}
    RetentionAge = 1
    MaxReady = 1
    MaxClock = 1
    MaxRestarts = 1
SPECIFICATION Spec
INVARIANTS
    NothingLost
    ArtifactsAreWhole
    OneCommandPerRecording
PROPERTY KeepsServiceContract
CHECK_DEADLOCK FALSE
