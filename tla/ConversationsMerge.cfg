SPECIFICATION Spec
CONSTANTS
    MaxMsg = 4
    SentAt <- Spread
    Gaps = {1, 2}
    Cap = 4
    ReadLimit = 4
    BatchSize = 2
    Threshold = 2
    MaxRestarts = 1
    NoCursor = nocursor
INVARIANT RebuildGoesThrough
