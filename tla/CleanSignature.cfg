SPECIFICATION CSpec
CONSTANTS
    Runs = {r1}
    Contents = {c1}
    Outs <- SharedOuts
    Traced = {}
    Signed = {r1}
    Faults = FALSE
    TomlFaults = FALSE
    StoreTicks = 1
    MaxNow = 2
    MinAge = 2
    PruneAge = 1
    Prunes = FALSE
    ScanTicks = 0
    MaxCleans = 1
INVARIANT
    SignatureKept
CHECK_DEADLOCK FALSE
