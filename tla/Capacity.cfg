CONSTANTS
  Budget = 3
  Headroom = 1
  MinFree = 1
  Attempts = 2
  Disk = 1
  MaxChildren = 1
  MaxEvents = 1
  Modes = {"container", "host_bind"}
  Directories = {0, 1}
  None = None
SPECIFICATION Spec
INVARIANTS MeasuresData CompletedIsClean PeakCovers StoppedIsDown
PROPERTIES Stops
CHECK_DEADLOCK FALSE
