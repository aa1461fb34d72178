SPECIFICATION Spec
CONSTANTS
  CHAT = "__CHAT_VARS__"
  COLOAD = "__COLOAD_VARS__"
  Name <- NameVal
  Sorted <- SortedVal
  None = None
  Everywhere = Everywhere
  Instances <- InstancesVal
INVARIANTS NoDanglingLeaf FittingSetsWhole NoForcedTwin PinsCommitted PriceCoversOptions
CHECK_DEADLOCK FALSE
