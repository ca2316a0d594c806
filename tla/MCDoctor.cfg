CONSTANTS
    Sources <- MCSources
    Listings <- MCListings
SPECIFICATION Spec
INVARIANTS
    LoadFollowsPrecedence
    HealthyMeansUsable
    ExitFollowsReport
    OneListingAtATime
PROPERTIES
    DoctorEnds
