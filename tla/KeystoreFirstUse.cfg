SPECIFICATION Spec
CONSTANTS
    Proc = {p1, p2, p3}
    Pass = {a, b}
    NoPass = NoPass
    Args = {a, b, NoPass}
    Ops = {"load"}
    AbortOps = {}
    Serial = FALSE
    UniqueStamps = TRUE
    MaxKeys = 3
    MaxClock = 0
SYMMETRY Symmetry
INVARIANT UsableOnceQuiet
PROPERTY MixedOnlyFromPlaintext
CHECK_DEADLOCK FALSE
