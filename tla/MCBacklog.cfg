SPECIFICATION Spec
CONSTANTS
    Events = {1, 2, 3, 4, 5}
    Routes = {"a", "b", "other"}
    RouteOf <- ThreeRoutes
    Groups = {}
    NoGroup = NoGroup
    GroupOf <- Ungrouped
    Malformed = {}
    Invalid = {}
    Rejected = {}
    Expirable = {}
    BatchTarget = 3
    OwnRoutes = {"a", "b"}
    CountLimits = {0, 3}
PROPERTIES ProbeExact ExactWhenDrained NeverOverstated
