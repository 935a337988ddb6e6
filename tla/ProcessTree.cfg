CONSTANTS
  Pids = {p1, p2, p3}
  NoPid = none
  NoText = empty
  MaxBirths = 4
SPECIFICATION Spec
SYMMETRY Symmetry
INVARIANTS IInv MissingOnlyByReuse HiddenIfNothingMatches
PROPERTIES TypingReveals SelectionStays
