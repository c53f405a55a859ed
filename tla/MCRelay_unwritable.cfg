SPECIFICATION FairSpec
CONSTANTS
    Events = {1, 2}
    Routes = {"topic"}
    RouteOf <- KeyedRoute
    Groups = {"key"}
    NoGroup = NoGroup
    GroupOf <- KeyedGroup
    Malformed = {2}
    Invalid = {}
    Rejected = {}
    Expirable = {}
    BatchTarget = 2
    DLQEnabled = TRUE
    CommitsInIdOrder = TRUE
    Relays = {r1, r2}
    NoRelay = NoRelay
    Owned <- AllOwned
    PubSub = {1, 2}
    Unwritable = {2}
    MaxFaults = 0
PROPERTY PoisonRemoved
