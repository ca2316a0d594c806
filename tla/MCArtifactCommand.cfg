CONSTANTS
    None = None
    Udid = {u1, u2}
    Loopback = Loopback
    MaxNumber = 3
    MaxLength = 1
SPECIFICATION FairSpec
INVARIANTS
    SelectedDeviceAnswers
    SocketHasAnOwner
    ExitTellsTheTruth
PROPERTIES
    DestinationIsNeverReplaced
    DeadlinesEndWaiting
