SPECIFICATION Spec
CONSTANTS
    r = r
    q = q
    v = v
    w = w
    l = l
    k = k
    Nodes = {r, q}
    Leaders = {l}
    Requesters = {r, q}
    Crossers = {r}
    HostTables <- Contested
    Percent = 100
    Garbage = {0}
    Lossy = FALSE
    MaxMoves = 2
    MaxQueue = 1
INVARIANTS
    TypeOK
    RequestIsTimed
    ReceptionIsTimed
    NeverFatal
    NoDistributionWaits
    DeadBranches
PROPERTIES
    FinishFollowsDistribution
CHECK_DEADLOCK FALSE
