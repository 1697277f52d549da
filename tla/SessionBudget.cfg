SPECIFICATION Spec
CONSTANTS
    CallIds = {c1, c2}
    ForeignIds = {}
    InitLimit <- SmallLimit
    Extensions <- SmallExtensions
    LimitMax = 3
    MsPerSec = 2
    HeartbeatTicks = 0
    SnapshotTicks = 9
    RunTimeout = 2
    MaxOutput = 1
    MaxConcurrent = 1
    Approval = TRUE
    OutputLimited = FALSE
    Faults = FALSE
    MaxNow = 2
    MaxRequests = 3
    MaxStops = 0
    MaxExtends = 1
INVARIANTS
    TypeOK
    CallBudgetRespected
    
    ExhaustionIsReal
    NoDispatchWhenExhausted
    DispatchesAnswered
    ExtensionAppliedOnce
    RowsNumbered
PROPERTIES
    ImplementsGate
SYMMETRY Symmetry
