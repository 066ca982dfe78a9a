SPECIFICATION Spec
CONSTANTS
    Proc = {p1}
    Pass = {a, b}
    NoPass = NoPass
    Args = {a, b, NoPass}
    Ops = {"load", "encrypt", "decrypt", "rotate"}
    AbortOps = {"load", "decrypt", "rotate"}
    Serial = TRUE
    UniqueStamps = TRUE
    MaxKeys = 3
    MaxClock = 1
SYMMETRY Symmetry
INVARIANTS TypeOK IssuedKeyKept
CHECK_DEADLOCK FALSE
