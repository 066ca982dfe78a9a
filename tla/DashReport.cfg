SPECIFICATION FairDashSpec
CONSTANTS
    png = png
    txt = txt
    Proc = {p1}
    Artifact = {png, txt}
    Name = {png, txt}
    ArtOf <- Denotes
    ReceiptNames = {}
    Embeddable = {png}
    Batches <- EachInput
    Modes <- SomeModes
    Faults = {"disk", "crash"}
    Serial = FALSE
    MaxSeals = 2
    MaxEdits = 1
    Sources = {"dir", "here", "away"}
    Absolute = TRUE
    Homonyms = {txt}
INVARIANTS ReportTypeOK ReportReflectsDisk
PROPERTY ReportEnds
CHECK_DEADLOCK FALSE
