SPECIFICATION Spec
CONSTANTS
    png = png
    txt = txt
    old = old
    dotPng = dotPng
    Proc = {p1}
    Artifact = {png, txt, old}
    Name = {png, txt, old, dotPng}
    ArtOf <- Denotes
    ReceiptNames = {old}
    Embeddable = {png}
    Batches <- AnyInputs
    Modes <- AllModes
    Faults = {"tsa", "rekor", "disk", "index", "crash"}
    Serial = TRUE
    MaxSeals = 3
    MaxEdits = 0
INVARIANTS TypeOK ReportedSealsVerify NothingSkipped
CHECK_DEADLOCK FALSE
