SPECIFICATION Spec
CONSTANTS
    a = a
    v = v
    w = w
    Nodes = {a, v, w}
    AppNodes = {a}
    Chunks = 2
    Slack = 1
    Percent = 100
    Lossy = TRUE
    Prompt = FALSE
    LateDelivery = FALSE
    MaxInFlight = 0
SYMMETRY Symmetry
INVARIANTS
    RequestsInRange
