SPECIFICATION Spec
CONSTANTS
    r = r
    q = q
    v = v
    w = w
    l = l
    k = k
    Nodes = {r, v}
    Leaders = {l}
    Requesters = {r}
    Crossers = {}
    HostTables <- Emptying
    Percent = 100
    Garbage = {0}
    Lossy = TRUE
    MaxMoves = 2
    MaxQueue = 2
INVARIANTS
    NeverFatal
CHECK_DEADLOCK FALSE
