\* Every fleet of MCPlanner: all the actions, the guarded promises.
SPECIFICATION Spec
CONSTANTS
  VramTotal = 100
  Reserve = 4
  MarginPct = 20
  MinCtx = 4
  RoundTo = 8
  AutoParallelMax = 3
  SlotPower = 3
  DefaultShed <- MCShed
  Ids <- MCIds
  Catalogue <- MCCatalogue
  Sets <- MCSets
  Rosters <- WideRosters
INVARIANTS
  SoundEntriesFit
  SoundAdmittedFit
  SoundCategoryFloor
  FallbackStands
CHECK_DEADLOCK FALSE
