SPECIFICATION RollingSpec
CONSTANTS
    Capacity = 3
    MaxHorizon = 6
    Lead = 1
    Guard = 1
    MaxSpeed = 2
    MaxCount = 3
    UpdateTimeout = 3
    MaxPeriod = 1
    Glitches = {0}
    Patience = 0
    MaxTime = 20
    Scenarios <- MCScenarios
INVARIANT FollowsItsSession
INVARIANT HoldingTellsWhy
PROPERTY LeadIsFixed
PROPERTY SessionsEnd
CHECK_DEADLOCK FALSE
