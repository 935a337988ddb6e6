CONSTANTS
  Pids = {p1, p2, max}
  kNoCachedPid = max
  Writers = {w1, w2}
  Readers = {r1, r2}
  Nobody = nobody
SPECIFICATION Spec
SYMMETRY ThreadSymmetry
INVARIANTS IInv
PROPERTIES Linearizable
