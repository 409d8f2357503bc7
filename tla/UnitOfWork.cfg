SPECIFICATION FairSpec
CONSTANTS
    Units = {u1, u2, u3}
    Writes = 2
    MaxCancels = 2
INVARIANTS
    Isolated
    AllOrNothing
    LockGoesWithTheUnit
PROPERTY EveryUnitEnds
