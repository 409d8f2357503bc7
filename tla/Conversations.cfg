SPECIFICATION Spec
CONSTANTS
    MaxMsg = 4
    SentAt <- Spread
    Gaps = {1, 2}
    Cap = 2
    ReadLimit = 3
    BatchSize = 2
    Threshold = 1
    MaxRestarts = 2
    NoCursor = nocursor
INVARIANT AgreesWithRebuild
PROPERTY IdentityIsKept
