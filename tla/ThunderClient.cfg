CONSTANTS
  Polls = 2
  Scenes <- ThunderScenes
SPECIFICATION FairSpec
INVARIANTS TypeOK Reconnected EndIsTold
PROPERTIES CallbackReturns
CHECK_DEADLOCK FALSE
