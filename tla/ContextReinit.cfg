CONSTANTS
  MaxNodes = 1
  MaxInits = 2
  CanFail <- MCNoThread
SPECIFICATION Spec
INVARIANT OneParticipant
CHECK_DEADLOCK FALSE
