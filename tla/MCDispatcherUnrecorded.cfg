CONSTANTS
  Executors = {e1, e2}
  Agents = {{e1, e2}}
  Models = {{e1}, {e2}}
  Sessions = {s1, s2}
  BudgetCap = 2
  Losable = {"human-decision"}
  MaxFaults = 1
SPECIFICATION DispatcherSpec
INVARIANT NotOffered
CHECK_DEADLOCK FALSE
