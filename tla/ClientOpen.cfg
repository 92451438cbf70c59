CONSTANTS
  Values = {"on"}
  Patience = 1
  MaxSessions = 1
  MaxIds = 2
  Scenes <- OpenScenes
SPECIFICATION Spec
INVARIANT SpeaksWhenOpen
CHECK_DEADLOCK FALSE
