CONSTANTS
  m1 = m1 m2 = m2 d1 = d1 d2 = d2 n1 = n1 n2 = n2
  Source = src
  None = None
  Original <- FirstPlace
  Places <- AllPlaces
  Procs = {p1, p2}
  Machines = {m1, m2}
  Directories = {d1, d2}
  Names = {n1, n2, n3}
  Scenarios <- FourScenarios
SPECIFICATION FairSpec
INVARIANTS OneController
PROPERTIES Quiet Recovers Opens
CHECK_DEADLOCK FALSE
