SPECIFICATION Spec
INVARIANTS CredentialsSealed ReadersWhole LimitsHeld RowsWhole
PROPERTIES Implements DoneOnce PassesFair ServicesProgress
CHECK_DEADLOCK FALSE
