SPECIFICATION Spec
CONSTANTS
  Nil = Nil
 
PROPERTIES ShellKeepsFiles DeviceIsItsOwners EdgesEnd
CHECK_DEADLOCK FALSE
