SPECIFICATION SupervisorSpec
CONSTANTS
    TaskNames = {live}
    MaxRestarts = 2
    Nothing = nothing
    Blank = blank
    Malformed = malformed
INVARIANT RidesOutFailures
CHECK_DEADLOCK FALSE
