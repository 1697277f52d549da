SPECIFICATION CSpec
CONSTANTS
    Runs = {r1, r2}
    Contents = {c1}
    Outs <- SharedOuts
    Traced = {r1}
    Signed = {}
    Faults = FALSE
    TomlFaults = FALSE
    StoreTicks = 1
    MaxNow = 3
    MinAge = 3
    PruneAge = 1
    Prunes = FALSE
    ScanTicks = 1
    MaxCleans = 1
INVARIANTS
    ArtifactsKept
CHECK_DEADLOCK FALSE
