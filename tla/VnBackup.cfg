SPECIFICATION FairSpec
CONSTANTS
    u = u
    w = w
    A = A
    B = B
    C = C
    Vehicles = {u, w}
    Regions = {A, B, C}
    Home <- HomeOf
    HelloRegions = {A, B}
    Roads <- OneWay
    Drivers = {w}
    MaxLosses = 1
INVARIANTS
    TypeOK
    TablesInOrder
    SyncedAreSync
    PendingIsPurged
PROPERTIES
    RegionIsBackedUp
CHECK_DEADLOCK FALSE
