SPECIFICATION FairSpec
CONSTANTS
    Chats = {c1}
    MaxMsg = 3
    SentAt <- Instants
    Horizons <- OneHorizon
    BatchSize = 2
    MaxBatches = 1
    CatchUpPages = 2
    MaxQueue = 1
    NoCursor = NoCursor
    Absent = absent
    Malformed = malformed
PROPERTIES
    BackfillCompletes
    UpdatesSettle
