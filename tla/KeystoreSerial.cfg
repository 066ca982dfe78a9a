SPECIFICATION Spec
CONSTANTS
    Proc = {p1}
    Pass = {a, b}
    NoPass = NoPass
    Args = {a, b, NoPass}
    Ops = {"load", "encrypt", "decrypt", "rotate"}
    AbortOps = {}
    Serial = TRUE
    UniqueStamps = TRUE
    MaxKeys = 4
    MaxClock = 2
INVARIANTS IssuedBundleKept IssuedKeyListed
PROPERTY ImplementsVault
CHECK_DEADLOCK FALSE
