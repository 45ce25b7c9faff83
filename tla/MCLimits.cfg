SPECIFICATION LimitsSpec
CONSTANTS
  Executors = {"e1", "e2"}
  Sessions = {"s1"}
  BudgetCap = 3
  Calls = {c1, c2, c3, c4}
  Window = 2
  MaxRetries = 2
  MaxNow = 3
  MaxStorageFaults = 1
  MaxProcesses = 2
  ToolSessions = {"w1", "w2", "w3", "cr", "us"}
  Metadata <- MCMetadata
  ToolCalls = {"k1"}
  Capacity = 2
SYMMETRY Symmetry
INVARIANTS
  HistoryIsComplete
  PausedIsResumable
  CompletedOnCurrentEvidence
  QuotaDenies
  TwoRetriesPerWindow
PROPERTIES
  KernelKeepsBudget
  NoToolAfterFence
CHECK_DEADLOCK FALSE
