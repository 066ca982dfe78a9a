SPECIFICATION FairSpec
CONSTANTS
    png = png
    txt = txt
    old = old
    dotPng = dotPng
    Proc = {p1, p2}
    Artifact = {png}
    Name = {png}
    ArtOf <- Denotes
    ReceiptNames = {}
    Embeddable = {png}
    Batches <- OneInput
    Modes <- SharedModes
    Faults = {"tsa", "rekor", "disk", "crash"}
    Serial = FALSE
    MaxSeals = 2
    MaxEdits = 2
INVARIANT RealOrAbort
PROPERTY OfflineBatchEnds
CHECK_DEADLOCK FALSE
