SPECIFICATION Spec
CONSTANTS
  Nil = Nil
INVARIANTS
PROPERTIES DriversImplement RecordsTrue BytesWhole DriverCallsEnd
CHECK_DEADLOCK FALSE
