SPECIFICATION Spec
CONSTANTS
  MaxVersion = 4
  Kinds = {"cpp", "swap", "bundle"}
  Releases <- ReleasesVal
  Builds <- BuildsVal
  CppKeep = 3
  Keep = 1
INVARIANTS BackupKept SwapServes CppServes HarmlessUnlessLanded
PROPERTIES ImplementsRollout
CHECK_DEADLOCK FALSE
