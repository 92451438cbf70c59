CONSTANTS
  Values = {"on"}
  Patience = 2
  MaxSessions = 0
  MaxIds = 0
  Scenes <- ReconnectScenes
SPECIFICATION FairSpec
PROPERTY Reconnects
CHECK_DEADLOCK FALSE
