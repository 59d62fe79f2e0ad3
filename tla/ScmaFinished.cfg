SPECIFICATION Spec
CONSTANTS
    r = r
    q = q
    v = v
    w = w
    l = l
    k = k
    Nodes = {r, v, w}
    Leaders = {l}
    Requesters = {r}
    Crossers = {}
    HostTables <- Triple
    Percent = 100
    Garbage = {0}
    Lossy = FALSE
    MaxMoves = 1
    MaxQueue = 2
PROPERTIES
    FinishedIsReported
CHECK_DEADLOCK FALSE
