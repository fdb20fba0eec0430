SPECIFICATION Spec
CONSTANTS
  medium = medium
  main = main
  other = other
  none = none
  noId = noId
  idMedium = idMedium
  idMain = idMain
  idOther = idOther
  NoDisk = none
  NoId = noId
  Slots = {1, 2}
  Disks = {medium, main}
  StableId <- Ids2
  Sector512 = {medium, main}
  BigEnough = {main}
  Larger = {main}
  Unreliable = {main}
  Layouts <- PairLayouts
  Contents <- PairContents
  Faults = {"render"}
  ModuleCount = 1
  Deadline = 1
  StopTicks = 0
  MaxHotplug = 1
  MaxBoots = 2
INVARIANTS
  DoneMeansDurable
  LooksInstalledOnlyWhenWhole
PROPERTIES
  PromiseKept
CHECK_DEADLOCK FALSE
