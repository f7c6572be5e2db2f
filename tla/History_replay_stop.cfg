CONSTANTS
  p1 = p1 p2 = p2 g1 = g1 g2 = g2
  StartBlock = 1
  None = None
  Procs = {p1, p2}
  Gens = {g1, g2}
  Head = 4
  DaySize = 2
  MonthSize = 3
  KeepBlocks = {1}
  Stops = {3, 5}
  Foreign = {2}
  ChunkSize = 2
  MaxStray = 0
  Workloads = {{"ingest", "replay"}}
SYMMETRY Symmetry
SPECIFICATION Spec
INVARIANT ReplayStops
CHECK_DEADLOCK FALSE
