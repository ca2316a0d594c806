CONSTANTS
    None = None
    Caller = {a, b, c}
    BootstrapOnly = {c}
    Connection = {k1, k2}
    MaxGenerations = 2
SPECIFICATION IntegrationSpec
INVARIANTS
    ServerBelongsToLifecycle
    AnsweredRecordingEnds
PROPERTIES
    CallsReturn
    StartLeavesRunning
    StopLeavesNoServer
CHECK_DEADLOCK FALSE
