SPECIFICATION Spec
CONSTANTS
  Calls = {c1, c2, c3}
  Kinds = {"lua"}
  Names = {"gain", "eq"}
  ValidNames = {"gain", "eq"}
  MaxSize = 2
  Sizes = {2}
  Serial = FALSE
  DiskFaults = FALSE
  MaxCrashes = 0
  None = None
SYMMETRY CallSymmetry
CHECK_DEADLOCK FALSE
INVARIANTS
  BytesBelongToTarget FailureMeansAnotherLanded RegisteredHasFile LostRegistrationReported
