SPECIFICATION Spec
CONSTANTS
  Calls = {c1, c2}
  Kinds = {"lua"}
  Names = {"gain"}
  ValidNames = {"gain"}
  MaxSize = 2
  Sizes = {2}
  Serial = FALSE
  DiskFaults = FALSE
  MaxCrashes = 0
  None = None
CHECK_DEADLOCK FALSE
INVARIANT TargetsComplete
