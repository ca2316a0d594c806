CONSTANTS
    User = User
    Run = {a, b}
    tools = tools
    kit = kit
    config = config
    bootstrap = bootstrap
    package = package
    Dir = {tools, kit}
    File = {config, bootstrap, package}
    Ancestors <- MCAncestors
    Files <- MCFiles
    MaxTouched = 1
    MaxUnremoved = 2
SPECIFICATION Spec
SYMMETRY RunSymmetry
INVARIANTS
    FailedRunCleansUp
    SuccessIsComplete
PROPERTY UserFilesUntouched
CHECK_DEADLOCK FALSE
