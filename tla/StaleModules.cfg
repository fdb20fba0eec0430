SPECIFICATION Spec
CONSTANTS
  Versions = {"a", "b"}
  First = "a"
  Editable = {"packages", "mirror"}
  MidBuild = {}
  Callers = {"run_build"}
  MaxEdits = 2
  MaxFaults = 0
INVARIANT KernelAndModulesAgree
