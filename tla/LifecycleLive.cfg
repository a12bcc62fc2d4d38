SPECIFICATION FairSpec
CONSTANTS
    RecoveryAttempts = 1
    Faults = {"store"}
    MaxFaults = 1
    MaxCrashes = 1
    MaxLosses = 1
    MaxTokens = 4
    MaxRotated = 1
PROPERTIES LifecycleSettles
