CONSTANTS
  p1 = p1 p2 = p2
  StartBlock = 1
  None = None
  Torn = Torn
  Procs = {p1}
  Head = 1
  Stops = {2}
  MeasureStops = {}
  MaxFaults = 1
  MaxRestores = 0
SPECIFICATION LiveSpec
PROPERTY PreparationResumes
CHECK_DEADLOCK FALSE
