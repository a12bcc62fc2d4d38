SPECIFICATION AllSpec
CONSTANTS
    Window = 5
    MaxFrame = 3
    MaxWrite = 7
    MaxBytes = 8
INVARIANTS WindowKept NoStall EndIsComplete  ServedAsAllowed
PROPERTIES LinksRecover
CHECK_DEADLOCK FALSE
