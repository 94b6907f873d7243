SPECIFICATION Spec
CONSTANTS
  track1 = track1
  track2 = track2
  track3 = track3
  Slots = {f1, f2}
  Tracks = {track1, track2, track3}
  Items = {i1, i2}
  FxOf <- MCFxOf
  FxCap = 1
  IllNamed = {track3}
  MaxEdits = 2
  Null = Null
SYMMETRY ReaderSymmetry
INVARIANTS
  CountsFitSelection QuietReportIsExact
