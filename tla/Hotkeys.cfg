CONSTANTS
  Controls = {"drop", "duplicate", "duplicate_count"}
  MaxValue = 1
  Actions = {"toggle", "inc_drop"}
  Keys = {1}
  Buttons = {}
  Modifiers = {0, 1}
  MaxWaiting = 3
SPECIFICATION HotkeysSpec
INVARIANTS IInv OffOnlyAfterFailure EditsAreKept EffectsAreShown
