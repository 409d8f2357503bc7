SPECIFICATION FairSpec
CONSTANTS
    Requests = {r1}
    MaxFrames = 3
    Capacity = 2
    Interpreter = "amd64"
    Platform = "here"
    Manifest <- TrustedHere
    Minimum <- LeastVersion
    Nothing = nothing
INVARIANTS
    StreamIsExact
    ClosedReleasesWaiters
    EndComesLast
PROPERTIES
    ConsumerIsReleased
    FailureReleasesWaiters
    UpdatesArrive
CHECK_DEADLOCK FALSE
