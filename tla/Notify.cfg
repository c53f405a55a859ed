SPECIFICATION FairSpec
CONSTANTS
    Events = {e1, e2, e3}
    Conns = {c1, c2}
    NoConn = NoConn
    MaxFaults = 3
INVARIANTS NoDeafWait PoolSuffices NoPooledSubscription
PROPERTY EveryRowSeen
