CONSTANTS
  Apps = {x, y}
  NoApp = none
  MaxSessions = 3
SPECIFICATION Spec
INVARIANT OnlyOwnerMaySpeak
CHECK_DEADLOCK FALSE
