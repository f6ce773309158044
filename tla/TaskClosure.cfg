CONSTANTS
    MaxWork = 2
    MaxTrace = 2
    MaxFlip = 2
    Routes = TRUE
    Rewrites = TRUE
    None = None
    Unfinished = Unfinished
    c1 = c1
    Slots = {"task", "review"}
    ClaimLists <- MCClaimLists
    MaxWorld = 1
    Ids = {i1, i2}
    SpecLists <- MCSpecLists
    TaskLists <- MCTaskLists
    MaxEdits = 2
    LateEdits = FALSE
SYMMETRY Symmetry
SPECIFICATION MCSpec
INVARIANTS
    TypeOK
    RecoveryFindsNoWriter
    ReadersAgree
    
PROPERTIES
    ClosedOnJudgedWork
    CorrectionKeeps
    ClosedAsJudged
