SPECIFICATION Spec
CONSTANTS
  Calls = {c1, c2, c3}
  Kinds = {"lua"}
  Names = {"gain", "bad name"}
  ValidNames = {"gain"}
  MaxSize = 1
  Sizes = {0, 1}
  Serial = TRUE
  DiskFaults = TRUE
  MaxCrashes = 1
  None = None
SYMMETRY CallSymmetry
CHECK_DEADLOCK FALSE
INVARIANTS
  TypeOK TargetsComplete NoStrayTmp
PROPERTIES
  RefusesToOverwrite ImplementsStore
