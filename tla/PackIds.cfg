SPECIFICATION Spec
CONSTANTS
  Fleets <- FleetsVal
  Options <- OptionsVal
  MaxPacks = 2
INVARIANTS IdsStable
CHECK_DEADLOCK FALSE
