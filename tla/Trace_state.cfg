CONSTANTS
  u = u c = c x = x
  None = None
  Accounts = {u, c, x}
  Selected = {u, c}
  Slots = {1}
  MaxValue = 1
  MaxDepth = 2
  Trimmed = {3, 5}
  MaxDirect = 1
  Workloads <- Executions
SPECIFICATION Spec
INVARIANTS FoldIsState TablesAreCurrent
CHECK_DEADLOCK FALSE
