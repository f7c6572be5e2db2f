CONSTANTS
  p1 = p1 p2 = p2
  StartBlock = 1
  None = None
  Torn = Torn
  Procs = {p1, p2}
  Head = 3
  Stops = {None, 3, 4}
  MeasureStops = {4}
  MaxFaults = 2
  MaxRestores = 1
SPECIFICATION LiveSpec
INVARIANTS TypeOK OneSink NoGap NoRegression ResultWhole
PROPERTIES Completes MeasureEnds
CHECK_DEADLOCK FALSE
