CONSTANTS
  Pids = {p1, p2}
  NoPid = none
  MaxBirths = 3
  MaxSessions = 2
  MaxBoxes = 1
SPECIFICATION FairSpec
INVARIANTS IInv
PROPERTIES OwnFatalMeansDead TargetIsTheUsers DeadPipelineStops GoneTargetStops ListCatchesUp
