SPECIFICATION Spec
CONSTANTS
  Engines <- EnginesVal
  Groups <- GroupsVal
  Default = {"cpp", "swap"}
  Spelling <- SpellingVal
  Dirs <- DirsVal
  Parent <- ParentVal
  VersionDirs <- VersionDirsVal
  NoDir = "nowhere"
  Repo = "repo"
  Requests <- RequestsVal
  Installs <- InstallsVal
  MaxRuns = 1
INVARIANTS AmbiguityInstallsNothing ZeroMeansAllDone
PROPERTY NoSecondCopy
CHECK_DEADLOCK FALSE
