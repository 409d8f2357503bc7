SPECIFICATION FairSpec
CONSTANTS
    Procs = {p, q}
    People = {ann}
    Me = me
    Groups = {}
    Labels = {x, y}
    SyncKinds = {"private"}
    None = none
    MaxEvents = 2
INVARIANT WellFormed
PROPERTIES OperatorDecides NamesSettle
