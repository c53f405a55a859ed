SPECIFICATION Spec
CONSTANTS
    Events = {1, 2, 3}
    Routes = {"topic"}
    RouteOf <- KeyedRoute
    Groups = {"key"}
    NoGroup = NoGroup
    GroupOf <- KeyedGroup
    Malformed = {}
    Invalid = {}
    Rejected = {}
    Expirable = {}
    BatchTarget = 2
    DLQEnabled = TRUE
    CommitsInIdOrder = FALSE
    Relays = {r1, r2}
    NoRelay = NoRelay
    Owned <- AllOwned
    PubSub = {1, 2}
    Unwritable = {}
    MaxFaults = 0
SYMMETRY RelaySymmetry
PROPERTY FirstDeliveryInOrder
