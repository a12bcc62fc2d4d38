SPECIFICATION Spec
CONSTANTS
    Gateways = {g1}
    OutBuffer = 2
    UpBuffer = 1
    MaxPushes = 1
    MaxRepeats = 0
    MaxDrops = 0
    MaxFaults = 0
    MaxRestarts = 0
INVARIANTS PurgedStaysPurged
CHECK_DEADLOCK FALSE
