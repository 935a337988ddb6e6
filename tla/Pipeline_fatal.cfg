CONSTANTS
  Pids = {p1}
  NoPid = none
  MaxBirths = 1
  MaxSessions = 2
  MaxBoxes = 1
SPECIFICATION Spec
PROPERTY FatalStopsItsOwnPipeline
