SPECIFICATION Spec
CONSTANTS
    Inits = {i1, i2}
    Configs <- Provisions
    Databases <- Catalogs
    ShapeOf <- Shapes
    Relays <- MCRelays
    Tables <- MCTables
    TargetNames = {"pubsub", "sqs", "kafka"}
    Null = Null
    Destinations = {"default", "other"}
    MaxRows = 2
INVARIANTS RoundTrip SelectsClassified NoRouteStarves ShardsDisjoint ProvidersReachable
PROPERTIES StartupMeansWritable NonDestructive ApplyEnds
CHECK_DEADLOCK FALSE
