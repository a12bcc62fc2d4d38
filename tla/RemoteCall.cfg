SPECIFICATION Spec
CONSTANTS
  Kinds = {"call", "exec", "attach", "logs", "export", "import", "open", "write"}
  Window = 1
  Frames = 2
INVARIANTS CallsTruthful
PROPERTIES CallsEnd
CHECK_DEADLOCK FALSE
