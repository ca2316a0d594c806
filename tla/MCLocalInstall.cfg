CONSTANTS
    None = None
    MaxRuns = 2
SPECIFICATION InstallSpec
INVARIANTS
    FailedInstallChangesNothing
    FormerVersionSurvives
    CommittedInstallIsComplete
CHECK_DEADLOCK FALSE
