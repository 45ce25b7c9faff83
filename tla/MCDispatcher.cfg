CONSTANTS
  Executors = {e1, e2}
  Agents = {{e1, e2}}
  Models = {{e1}, {e2}}
  Sessions = {s1, s2, s3}
  BudgetCap = 2
  Losable = {"worker-created", "evidence-ready", "verdict-applied", "contract-revised", "human-awaiting", "human-decision", "run-failed"}
  MaxFaults = 2
SPECIFICATION FairSpec
INVARIANTS
  StoredIsTrue
  RequestIsDecidedOnceInTurn
PROPERTIES
  NothingAfterAbandon
  KeepsToKernel
  OnlyReviewedWorkCompletes
  RunReturns
CHECK_DEADLOCK FALSE
