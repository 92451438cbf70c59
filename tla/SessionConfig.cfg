CONSTANTS
  s1 = s1
  s2 = s2
  Sessions = {s1, s2}
  Outcomes = {"spoke", "other"}
  MaxSets = 2
  MaxSpeeches = 2
SPECIFICATION Spec
INVARIANTS TypeOK DefaultReachesAll SpokenWithCurrent
SYMMETRY Symmetry
CHECK_DEADLOCK FALSE
