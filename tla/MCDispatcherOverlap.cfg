CONSTANTS
  Executors = {e1, e2}
  Agents = {{e1, e2}}
  Models = {{e1}, {e2}}
  Sessions = {s1, s2}
  BudgetCap = 2
  Losable = {}
  MaxFaults = 0
SPECIFICATION DispatcherSpec
INVARIANT RequestIsDecidedOnce
CHECK_DEADLOCK FALSE
