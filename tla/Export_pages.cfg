CONSTANTS
  Accounts = {1, 2}
  Slots = {1, 2, 3}
  Values = {7}
  Bad = 9
  PageSizes = {1, 2, 3}
  Bytes <- MCBytes
  MaxPages = 5
  MaxJson = 4
  MaxDamages = 2
  None = None
SPECIFICATION Spec
INVARIANTS ManifestComplete ImportExact Accepts
CHECK_DEADLOCK FALSE
