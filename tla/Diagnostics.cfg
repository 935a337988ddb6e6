CONSTANTS
  Threads = {capture, drain, tracking}
  kRingCapacity = 3
  kLogPollBatch = 2
  MaxEntries = 6
SPECIFICATION DiagnosticsSpec
CHECK_DEADLOCK FALSE
SYMMETRY Symmetry
INVARIANTS DiagnosticsInv NothingTwice LostOnlyInRaces
