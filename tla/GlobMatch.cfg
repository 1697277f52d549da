SPECIFICATION Spec
CONSTANTS
    Chars = {a, b}
    Star = star
    MaxPattern = 5
    MaxText = 5
INVARIANTS
    GlobMatchCorrect
    SliceInBounds
CHECK_DEADLOCK FALSE
