SPECIFICATION Spec
CONSTANTS
    RecoveryAttempts = 1
    Faults = {"store", "driver", "gateway", "mint", "volume", "revoke", "stale", "ambiguous"}
    MaxFaults = 2
    MaxCrashes = 1
    MaxLosses = 1
    MaxTokens = 4
    MaxRotated = 3
INVARIANTS BoundaryFollows IdentityFollows RowsTellDriver
PROPERTIES NoResurrection
