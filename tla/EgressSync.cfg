SPECIFICATION FairSpec
CONSTANTS
    Gateways = {g1}
    OutBuffer = 2
    UpBuffer = 1
    MaxPushes = 3
    MaxRepeats = 1
    MaxDrops = 1
    MaxFaults = 1
    MaxRestarts = 1
INVARIANTS HubFollowsDesired GatewaysFollow
PROPERTIES PurgeLands
CHECK_DEADLOCK FALSE
