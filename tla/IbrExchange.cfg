SPECIFICATION FairSpec
CONSTANTS
    g = g
    h = h
    WsTable <- Street
    Starters = {3}
    Watchdog = FALSE
    Hosts = {g, h}
    Places = {1}
    NoIp = NoIp
    MaxMoves = 1
    MaxLosses = 1
CHECK_DEADLOCK FALSE
INVARIANTS
    TypeOK
    OneList
    NoHostTwice
PROPERTIES
    ExchangeGoesOn
    TablesConverge
