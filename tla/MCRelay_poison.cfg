SPECIFICATION FairSpec
CONSTANTS
    Events = {1, 2, 3}
    Routes = {"topic", "queue"}
    RouteOf <- PoisonRoute
    Groups = {"key"}
    NoGroup = NoGroup
    GroupOf <- PoisonGroup
    Malformed = {}
    Invalid = {3}
    Rejected = {2}
    Expirable = {1}
    BatchTarget = 3
    DLQEnabled = TRUE
    CommitsInIdOrder = TRUE
    Relays = {r1, r2}
    NoRelay = NoRelay
    Owned <- AllOwned
    PubSub = {1, 2}
    Unwritable = {}
    MaxFaults = 1
INVARIANTS DeadLetteredOnce
PROPERTIES OutboxSpec EventuallyRemoved
