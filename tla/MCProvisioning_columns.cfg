SPECIFICATION Spec
CONSTANTS
    Inits = {i1}
    Configs <- Provisions
    Databases <- Minimal
    ShapeOf <- Shapes
    Relays <- MCRelays
    Tables <- MCTables
    TargetNames = {"pubsub", "sqs", "kafka"}
    Null = Null
    Destinations = {"default", "other"}
    MaxRows = 0
INVARIANTS NoDeferredSurprise
CHECK_DEADLOCK FALSE
