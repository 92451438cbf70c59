CONSTANTS
  Clients = {"a"}
  Preemptive = {}
  MaxSpeeches = 2
  MaxBus = 1
  MaxFailures = 1
  Scenes <- LiveScenes
SPECIFICATION FairSpec
PROPERTIES SpeechEnds PipelineReleased DestructorReturns
CHECK_DEADLOCK FALSE
