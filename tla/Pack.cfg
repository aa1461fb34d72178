SPECIFICATION Spec
CONSTANTS
  Fleets <- FleetsVal
  Options <- OptionsVal
  MaxPacks = 2
INVARIANTS RefusalKeepsOutputs OutputsAgree PlanPublished SoundIdsStable
CHECK_DEADLOCK FALSE
