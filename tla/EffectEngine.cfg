CONSTANTS
  Lengths = {3}
  Second = 1
  Inputs <- AllInputs
  kMaxDelayJitterMs = 1
  kMaxThrottle = 2
  kDefaultBurstDropLength = 2
  kMaxBurstDropLength = 3
  kMaxDuplicateCopies = 1
  MaxPackets = 3
  MaxChanges = 3
  Horizon = 1
SPECIFICATION Spec
INVARIANTS IInv ThrottleHolds BacklogEndsWithRevision BurstsAreExact
