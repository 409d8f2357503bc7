SPECIFICATION FairSpec
CONSTANTS
    Capacity = 2
    MaxMessages = 3
    MaxSteps = 3
    MaxRetries = 1
INVARIANTS
    StreamIsWhole
    AcceptedOnce
PROPERTIES
    TimeoutMeansSilence
    DisconnectReturns
CHECK_DEADLOCK FALSE
