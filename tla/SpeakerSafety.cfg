CONSTANTS
  Clients = {"a", "b"}
  Preemptive = {"b"}
  MaxSpeeches = 2
  MaxBus = 1
  MaxFailures = 1
  Scenes <- SafetyScenes
SPECIFICATION Spec
INVARIANTS TypeOK SpeechAccounted CancelledIsInterrupted ClearCancelsOwnSpeech EmptiedByACall
  EventsReachOwner AnnouncedFirst
PROPERTY ImplementsService
CHECK_DEADLOCK FALSE
