SPECIFICATION FairSpec
CONSTANTS
  medium = medium
  main = main
  other = other
  none = none
  noId = noId
  idMedium = idMedium
  idMain = idMain
  idOther = idOther
  NoDisk = none
  NoId = noId
  Slots = {1, 2}
  Disks = {medium, main}
  StableId <- Ids2
  Sector512 = {medium, main}
  BigEnough = {main}
  Larger = {main}
  Unreliable = {main}
  Layouts <- PairLayouts
  Contents <- TwoMediaContents
  Faults = {"startup", "display", "module", "list", "render", "reboot"}
  ModuleCount = 1
  Deadline = 1
  StopTicks = 2
  MaxHotplug = 1
  MaxBoots = 1
PROPERTIES
  PreparationSettles
  StopPowersOff
  TransactionSettles
CHECK_DEADLOCK FALSE
