SPECIFICATION Spec
CONSTANTS
    Happenings <- MCHappenings
    Options <- MCOptions
    MaxOwn = 3
    MaxOther = 1
    Cpus = 2
    RingSize = 2
    PollErrors = 1
INVARIANTS ReadyToExec ScopePopulated  RecordsFaithful TraceComplete
 
CHECK_DEADLOCK FALSE
