CONSTANTS
  Capacity = 3
  BatchSize = 2
  Ids = {p1, p2, p3}
  NoId = none
  MaxDelay = 1
  Horizon = 1
  MaxExhausted = 1
SPECIFICATION FairSpec
INVARIANTS IInv PushNeverSpins
PROPERTIES ImplementsService ImplementsPool ReleaseOrder EventuallyReleased StopTerminates
