CONSTANTS
  Messages = {m1, m2}
  PerRun = 2
  PerRound = 1
  MaxJudgeRefresh = 2
  MaxRounds = 3
  MaxFaults = 0
SPECIFICATION FairSpec
PROPERTY AttachedIsSettled
CHECK_DEADLOCK FALSE
