SPECIFICATION FairSpec
CONSTANTS
    CallIds = {c1, c2}
    ForeignIds = {c2}
    InitLimit <- OneSecondLimit
    Extensions <- WallExtension
    LimitMax = 3
    MsPerSec = 1
    HeartbeatTicks = 1
    SnapshotTicks = 1
    RunTimeout = 1
    MaxOutput = 0
    MaxConcurrent = 1
    Approval = FALSE
    OutputLimited = TRUE
    Faults = TRUE
    MaxNow = 2
    MaxRequests = 1
    MaxStops = 1
    MaxExtends = 1
INVARIANTS
    OneSessionStop
    ManifestResolves
    AgentReaped

    
