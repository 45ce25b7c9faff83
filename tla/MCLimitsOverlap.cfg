SPECIFICATION LimitsSpec
CONSTANTS
  Executors = {"e1"}
  Sessions = {"s1"}
  BudgetCap = 1
  Calls = {c1, c2, c3}
  Window = 2
  MaxRetries = 2
  MaxNow = 3
  MaxStorageFaults = 1
  MaxProcesses = 1
  ToolSessions = {"w1", "w2", "w3", "cr", "us"}
  Metadata <- MCMetadata
  ToolCalls = {"k1"}
  Capacity = 2
SYMMETRY Symmetry
INVARIANT EveryLimitDenies
CHECK_DEADLOCK FALSE
