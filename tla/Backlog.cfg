CONSTANTS
    Caller = {c1, c2}
    Note = {n1, n2}
    Artifact = {a1}
    None = None
    MaxId = 3
    MaxAlloc = 3
    Serial = TRUE
    Legacy = FALSE
    ReadFaults = FALSE
    Units = {u1}
    Allowance = 3
    Slots = 2
    MaxPlans = 2
    MaxArchives = 2
    MaxEvents = 5
    MaxFaults = 1
    MaxCrashes = 1
    Session = {s1}
    Project = {q1, q2}
    Proc = {p1, p2}
    BufferMax = 2
    MaxHooks = 4
    MaxRacing = 2
    MaxCommands = 4
    MaxOps = 5
    StopText = {a, b}
    NoSession = NoSession
    NoProject = NoProject
SPECIFICATION MCSpec
\* The bounds (MaxAlloc for the backlog) end an instance.
CHECK_DEADLOCK FALSE
INVARIANTS
    TypeOK
    NothingDropped
    CountsTrue
    PadCounted
    
    OneProjectPerTurn
    SelectHeals
    PairedMeansLast
PROPERTIES
    
    LedgerSpec
