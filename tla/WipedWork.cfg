SPECIFICATION Spec
CONSTANTS
  Versions = {"a", "b"}
  First = "a"
  Editable = {"packages"}
  MidBuild = {"packages"}
  Callers = {"run_build"}
  MaxEdits = 1
  MaxFaults = 1
INVARIANT ProducersFindTheirInputs
