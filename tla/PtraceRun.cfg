SPECIFICATION Spec
CONSTANTS
    Tids = {1, 2}
    Root = 1
    Programs = {{"open", "exec", "clone"}, {"open", "fork"}, {"exec", "fork"}, {"fork", "uring"}}
    MaxCalls = 3
    Faults = {"kill", "deadline"}
INVARIANTS EventsTrue RootCode 
 
CHECK_DEADLOCK FALSE
