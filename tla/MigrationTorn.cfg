SPECIFICATION ShellSpec
CONSTANTS
    Procs = {p1, p2}
    Owner = owner
    Others = {other}
    Nobody = nobody
    None = none
    Commands = {"prepare", "login", "logout", "import"}
    MaxCommands = 5
    Shells = {"older", "newer"}
    Newest = 2
    Knows <- Releases
    Parts = 2
    AutoMigrate = TRUE
    MaxRuns = 4
    Terminals = {t1, t2}
    Accounts = {a1, a2}
    Fields = {f1, f2}
    Choices = {v1, v2}
    Default = v1
    Unset = unset
    MaxUses = 5
    TaskNames = {live, other_task}
    MaxRestarts = 2
    Nothing = nothing
    Blank = blank
    Malformed = malformed
INVARIANT FailureRollsBack
CHECK_DEADLOCK FALSE
