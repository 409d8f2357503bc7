SPECIFICATION Spec
CONSTANTS
    Chats = {c1}
    MaxMsg = 4
    SentAt <- Instants
    Horizons <- TwoHorizons
    BatchSize = 2
    MaxBatches = 2
    CatchUpPages = 2
    MaxQueue = 1
    NoCursor = NoCursor
    Absent = absent
    Malformed = malformed
INVARIANTS
    CursorNamesStored
    RangeIsStored
    NothingOutsideStream
    CompleteReachesHorizon
PROPERTY ImplementsArchive
