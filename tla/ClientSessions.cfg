CONSTANTS
  Values = {"on", "off"}
  Patience = 2
  MaxSessions = 2
  MaxIds = 3
  Scenes <- ClientScenes
SPECIFICATION FairSpec
INVARIANTS TypeOK InstalledOnce EarlySettingsArrive SpeaksWhenActive LeavesNoSession
PROPERTIES LateEventsRefused ComesBack DestructorReturns
CHECK_DEADLOCK FALSE
