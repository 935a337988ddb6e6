CONSTANTS
  Ports = {a, b}
  Remotes = {r}
  Pids = {p1, p2, system}
  NoisePids = {system}
  NoPid = none
  MaxChanges = 6
SPECIFICATION Spec
CHECK_DEADLOCK FALSE
SYMMETRY Symmetry
INVARIANTS IInv RightUnlessOvertaken
