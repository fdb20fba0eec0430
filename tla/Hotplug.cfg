SPECIFICATION Spec
CONSTANTS
  medium = medium
  main = main
  other = other
  none = none
  noId = noId
  idMedium = idMedium
  idMain = idMain
  idOther = idOther
  NoDisk = none
  NoId = noId
  Slots = {1, 2, 3}
  Disks = {medium, main, other}
  StableId <- Ids3
  Sector512 = {medium, main, other}
  BigEnough = {medium, main, other}
  Larger = {other}
  Unreliable = {other}
  Layouts <- HotplugLayouts
  Contents <- HotplugContents
  Faults = {}
  ModuleCount = 1
  Deadline = 1
  StopTicks = 0
  MaxHotplug = 2
  MaxBoots = 1
INVARIANTS
  TypeOK
  ConfirmedDiskOnly
  SourceSpared
  StoppedNeverHidesWrites
  EnterAloneIsHarmless
  RivalsOnlyIfMissed
CHECK_DEADLOCK FALSE
