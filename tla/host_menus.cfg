SPECIFICATION Spec
CONSTANTS
  Folders = {f1, f2}
  Ids = {i1, i2}
  Targets = {"track", "master", "item", "midi_item", "project"}
  MaxEdits = 2
  None = None
  Deadly = Deadly
SYMMETRY HostSymmetry
INVARIANTS AllOrNothing MenusWereOnDisk UntouchedFoldersAreExact
