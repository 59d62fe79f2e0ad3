SPECIFICATION FairSpec
CONSTANTS
    a = a
    v = v
    w = w
    Nodes = {a, v, w}
    AppNodes = {a}
    Chunks = 3
    Slack = 1
    Percent = 100
    Lossy = FALSE
    Prompt = TRUE
    LateDelivery = FALSE
    MaxInFlight = 2
INVARIANTS
    RequestsInRange
PROPERTIES
    DownloadCompletes
    AckedIsRecorded
    ReportsAreDownloaded
