CONSTANTS
  s1 = s1
  s2 = s2
  Sessions = {s1}
  Outcomes = {"spoke", "other"}
  MaxSets = 1
  MaxSpeeches = 1
SPECIFICATION FairSpec
PROPERTY DeferredIsStored
CHECK_DEADLOCK FALSE
