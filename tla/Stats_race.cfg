SPECIFICATION Spec
CONSTANTS
    MaxBatches = 3
    MaxEvents = 2
    MaxTicks = 3
INVARIANT IntervalsPartition
CHECK_DEADLOCK FALSE
