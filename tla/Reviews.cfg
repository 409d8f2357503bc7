SPECIFICATION Spec
CONSTANTS
    Commands = {c1, c2}
    Chat = chat
    Conversations = {a, b}
    Values = {v, w}
    Drafts = {d}
    Comparable <- OneFact
    Key <- OneFact
    MaxProposals = 2
    MaxCalls = 3
    Categories <- Kinds
    MaxChars = 8
    MaxMemories = 3
    MaxMessages = 3
    MinMessages = 2
    Nothing = nothing
    Malformed = malformed
    NaN = nan
SYMMETRY Symmetry
INVARIANTS
    AcceptedIsRemembered
    OfferedOnce
PROPERTY DecidedOnce
CHECK_DEADLOCK FALSE
