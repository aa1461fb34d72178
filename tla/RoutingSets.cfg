SPECIFICATION Spec
CONSTANTS
  CHAT = "__CHAT_VARS__"
  COLOAD = "__COLOAD_VARS__"
  Name <- NameVal
  Sorted <- SortedVal
  None = None
  Everywhere = Everywhere
  Instances <- InstancesVal
INVARIANT ListsFollowAdmission
CHECK_DEADLOCK FALSE
