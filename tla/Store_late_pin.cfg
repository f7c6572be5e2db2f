CONSTANTS
  p1 = p1 p2 = p2 p3 = p3 i1 = i1 i2 = i2 i3 = i3 k1 = k1 k2 = k2 a1 = a1 a2 = a2
  Procs = {p1, p2}
  Ids = {i1, i2}
  PinIds = {k1}
  Accounts = {a1}
  MaxBlock = 2
  MaxTime = 1
  KeepCounts = {1}
  Foreign = {}
  Ops = {"build", "pin", "page", "prune"}
  Late = {"drop"}
  None = None
CHECK_DEADLOCK FALSE
SPECIFICATION Spec
SYMMETRY SymmetryL
INVARIANT PinnedReady
