SPECIFICATION Spec
CONSTANTS
    ApiWait = 1
    AcceptWait = 2
    ConnectWait = 2
    Timeouts = {1, 3}
    Grace = 1
    ReadCap = 2
    MinRead = 1
    HaltWait = 1
    Lengths = {0, 1, 2, 4}
    Chunks = {0, 1, 2}
    ChanCap = 2
    Crashes = TRUE
INVARIANTS
    VmGone
    
    CutOnlyWhenSilent
PROPERTIES
    BackendReturns
