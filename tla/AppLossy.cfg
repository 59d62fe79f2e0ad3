SPECIFICATION FairSpec
CONSTANTS
    a = a
    v = v
    w = w
    Nodes = {a, v}
    AppNodes = {a}
    Chunks = 2
    Slack = 0
    Percent = 100
    Lossy = TRUE
    Prompt = FALSE
    LateDelivery = FALSE
    MaxInFlight = 1
INVARIANTS
    TypeOK
    AppNodesArmed
    BusyIsDownloading
PROPERTIES
    NeverAbandoned
    RetriesEnd
    Implements
