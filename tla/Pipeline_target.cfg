CONSTANTS
  Pids = {p1}
  NoPid = none
  MaxBirths = 2
  MaxSessions = 2
  MaxBoxes = 1
SPECIFICATION Spec
PROPERTY RunningTargetIsChosen
