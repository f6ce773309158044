CONSTANTS
    NLaunch = 2
    MaxRev = 2
    Logs = {TRUE, FALSE}
    LateWriters = FALSE
    Eager = FALSE
    Losable = {"supervisor", "wrapper", "dispatch"}
    Ceilings = {0, 2}
    MaxWrites = 2
SPECIFICATION MCSpec
CHECK_DEADLOCK FALSE
INVARIANTS
    
    
    SuccessHasReport
PROPERTIES
    RunningEnds
    SessionEnds
    ActsAsLaunch
