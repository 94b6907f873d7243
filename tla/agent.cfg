SPECIFICATION BridgeSpec
CONSTANTS
  Calls = {c1, c2, c3}
  Kinds = {"lua"}
  Names = {"gain", "bad name"}
  ValidNames = {"gain"}
  MaxSize = 1
  Sizes = {1}
  Serial = FALSE
  DiskFaults = FALSE
  MaxCrashes = 1
  MaxTimeouts = 1
  None = None
SYMMETRY CallSymmetry
CHECK_DEADLOCK FALSE
INVARIANTS OverlapNeedsTimeout WholeUntilTimeout AcknowledgedIsVisible
