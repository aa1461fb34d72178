SPECIFICATION Spec
CONSTANTS
  MinCtx = 2
  RoundTo = 4
  ToolsMin = 16
  MinChat = 8
  ColoadMin = 4
  GainMin = 2
  RagCap <- RagCapVal
  Instances <- InstancesVal
INVARIANTS SharedContextServed AdditionsKeepFloor SqueezeNeeded PricesReserved
CHECK_DEADLOCK FALSE
