SPECIFICATION FairSpec
CONSTANTS
    Interval = 12
    StaleAfter = 9
    OpMax = 1
    Window = 2
    Readings <- MCReadings
    MaxTime = 5
    MaxCalls = 5
INVARIANTS HealthySurvives HangIsShort KilledWhenUnhealthy UnhealthyHasCause OncePerWindowAllCounted
PROPERTIES CancelEnds
CHECK_DEADLOCK FALSE
