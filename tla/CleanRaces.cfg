SPECIFICATION CSpec
CONSTANTS
    Runs = {r1}
    Contents = {c1}
    Outs <- SharedOuts
    Traced = {r1}
    Signed = {r1}
    Faults = TRUE
    TomlFaults = TRUE
    StoreTicks = 2
    MaxNow = 2
    MinAge = 1
    PruneAge = 0
    Prunes = TRUE
    ScanTicks = 1
    MaxCleans = 2
INVARIANTS
    RowHasDir
    RunSettled
PROPERTY PrunedStaysPruned
CHECK_DEADLOCK FALSE
