SPECIFICATION ListingSpec
CONSTANTS
  Calls = {c1, c2}
  Kinds = {"jsfx", "fx_chain"}
  Names = {"gain"}
  ValidNames = {"gain"}
  MaxSize = 2
  Sizes = {1, 2}
  Serial = TRUE
  DiskFaults = TRUE
  MaxCrashes = 1
  None = None
  BadKind = BadKind
SYMMETRY CallSymmetry
CHECK_DEADLOCK FALSE
INVARIANTS ListedWasVisible NothingVisibleIsMissed ListedSizesAreWhole
