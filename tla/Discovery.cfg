SPECIFICATION Spec
CONSTANTS
  r1 = r1
  chat = chat
  deep = deep
  embed = embed
  img = img
  misc = misc
  r2 = r2
  chat2 = chat2
  rev1 = rev1
  rev2 = rev2
  blobs = blobs
  fa = fa
  fa2 = fa2
  fb = fb
  fc = fc
  fd = fd
  fe = fe
  fz = fz
  ft = ft
  fmisc = fmisc
  fblob = fblob
  flink = flink
  h1 = h1
  hp = hp
  hj = hj
  acme = acme
  NoDir = NoDir
  NoFile = NoFile
  NoRepo = NoRepo
  NoRef = NoRef
  Off = Off
  Bad = Bad
  Global = Global
  Unset = Unset
  Null = Null
  Every = Every
  NoEngine = NoEngine
  Absent = Absent
  Dirs <- DirsVal
  Files <- FilesVal
  Spot <- SpotVal
  Parent <- ParentVal
  Vision <- VisionVal
  Roots <- RootsVal
  Listed <- ListedVal
  Children <- ChildrenVal
  DirRoles <- DirRolesVal
  Keys <- KeysVal
  ListKeys <- ListKeysVal
  TaskRoles <- TaskRolesVal
  EngineOrder <- EngineOrderVal
  Serves <- ServesVal
  Id <- IdVal
  Repos = {acme}
  Trees <- TreesVal
  Options <- RunOptions
  MaxRuns = 2
INVARIANTS InnermostDecides OrphansUnclaimed EachFileOnce NothingForgotten RerunStable
CHECK_DEADLOCK FALSE
