CONSTANTS
  Apps = {x, y}
  NoApp = none
  MaxSessions = 3
SPECIFICATION Spec
INVARIANTS TypeOK MapsAgree ClaimerIsLive ActiveIsOwner OwnerIsServed LiveIsExclusive PipelineFollowsPlayer OpenToAll
CHECK_DEADLOCK FALSE
