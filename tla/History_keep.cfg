CONSTANTS
  p1 = p1 p2 = p2 g1 = g1 g2 = g2
  StartBlock = 1
  None = None
  Procs = {p1, p2}
  Gens = {g1, g2}
  Head = 4
  DaySize = 2
  MonthSize = 3
  KeepBlocks = {1, 2}
  Stops = {3, 5}
  Foreign = {2}
  ChunkSize = 2
  MaxStray = 1
  Workloads = {{"compact", "build", "replay"}, {"ingest", "cleanup", "build", "import", "retire"}, {"replay", "growth", "abandon"}, {"replay", "import", "abandon"}, {"ingest", "cleanup", "build", "abandon"}}
SYMMETRY Symmetry
SPECIFICATION Spec
INVARIANTS InitialStateKept CursorBlockKept FoldComplete GrowthWhole
PROPERTIES ContinuationKept RecentBlocksKept
CHECK_DEADLOCK FALSE
