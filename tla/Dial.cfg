SPECIFICATION Spec
CONSTANTS
    NoTask = NoTask
    Dialler = Dialler
    Addrs <- MCAddrs
    V6 <- MCV6
    MaxMoves = 2
    MaxDrops = 1
    MaxSwitches = 2
INVARIANTS
    TypeOK
    CacheProven
PROPERTIES
    PoisonedTriedAll
    DialReaches
