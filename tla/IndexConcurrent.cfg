SPECIFICATION Spec
CONSTANTS
    a = a
    b = b
    Receipt = {a, b}
    Seal = {s1, s2}
    NoSeal = NoSeal
    Spelling <- Spellings
    Path <- Paths
    PathOf <- ByName
    Dirs <- Directories
    Caller = {c1, c2}
    Rebuilder = {r1}
    NoIndex = TRUE
    CanStop = TRUE
SYMMETRY Symmetry
INVARIANT TypeOK
PROPERTIES RebuildReflectsDisk SealShowsInIndex
CHECK_DEADLOCK FALSE
