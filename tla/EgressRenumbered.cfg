SPECIFICATION Spec
CONSTANTS
    Gateways = {g1}
    OutBuffer = 2
    UpBuffer = 1
    MaxPushes = 3
    MaxRepeats = 0
    MaxDrops = 0
    MaxFaults = 1
    MaxRestarts = 0
INVARIANTS AckedIsHeld
CHECK_DEADLOCK FALSE
