SPECIFICATION Spec
PROPERTIES WritesNothingAfter
CHECK_DEADLOCK FALSE
