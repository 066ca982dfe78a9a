SPECIFICATION Spec
CONSTANTS
    Proc = {p1}
    Pass = {a, b}
    NoPass = NoPass
    Args = {a, b, NoPass}
    Ops = {"load", "encrypt", "decrypt", "rotate"}
    AbortOps = {}
    Serial = TRUE
    UniqueStamps = FALSE
    MaxKeys = 4
    MaxClock = 2
INVARIANT IssuedKeyListed
CHECK_DEADLOCK FALSE
