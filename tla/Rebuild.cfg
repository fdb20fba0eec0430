SPECIFICATION Spec
CONSTANTS
  Versions = {"a", "b"}
  First = "a"
  Editable = {"packages", "identity", "vendor", "installer"}
  MidBuild = {"identity", "vendor"}
  Callers = {"run_build", "ensure", "require"}
  MaxEdits = 2
  MaxFaults = 1
INVARIANTS
  TypeOK
  EndsHonest
  EntriesHonest
  RebuildsOnlyWhatChanged
PROPERTIES
  Converges
