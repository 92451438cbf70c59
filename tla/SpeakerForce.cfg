CONSTANTS
  Clients = {"a", "b"}
  Preemptive = {"b"}
  MaxSpeeches = 2
  MaxBus = 1
  MaxFailures = 1
  Scenes <- ForceScenes
SPECIFICATION Spec
INVARIANT ForceSpeakStopsOlder
CHECK_DEADLOCK FALSE
