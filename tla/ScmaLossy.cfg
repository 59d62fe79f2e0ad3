SPECIFICATION FairSpec
CONSTANTS
    r = r
    q = q
    v = v
    w = w
    l = l
    k = k
    Nodes = {r, v}
    Leaders = {l}
    Requesters = {r}
    Crossers = {}
    HostTables <- Pair
    Percent = 100
    Garbage = {0, 3}
    Lossy = TRUE
    MaxMoves = 1
    MaxQueue = 2
INVARIANTS
    NeverFatal
PROPERTIES
    AugmentationGoesOn
