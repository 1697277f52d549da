SPECIFICATION Spec
CONSTANTS
    CallIds = {c1}
    ForeignIds = {}
    InitLimit <- SmallLimit
    Extensions <- CallsExtension
    LimitMax = 3
    MsPerSec = 2
    HeartbeatTicks = 0
    SnapshotTicks = 9
    RunTimeout = 1
    MaxOutput = 0
    MaxConcurrent = 1
    Approval = FALSE
    OutputLimited = FALSE
    Faults = FALSE
    MaxNow = 1
    MaxRequests = 1
    MaxStops = 1
    MaxExtends = 0
PROPERTY FinalizedNotOverwritten
