SPECIFICATION Spec
CONSTANTS
    png = png
    txt = txt
    old = old
    dotPng = dotPng
    Proc = {p1}
    Artifact = {png, txt}
    Name = {png, txt}
    ArtOf <- Denotes
    ReceiptNames = {}
    Embeddable = {png}
    Batches <- EachOrBoth
    Modes <- EmbedAllMode
    Faults = {"tsa"}
    Serial = TRUE
    MaxSeals = 3
    MaxEdits = 0
INVARIANT AbortWritesNothing
CHECK_DEADLOCK FALSE
