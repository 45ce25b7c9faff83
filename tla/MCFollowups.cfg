CONSTANTS
  Messages = {m1, m2, m3}
  PerRun = 2
  PerRound = 1
  MaxJudgeRefresh = 2
  MaxRounds = 2
  MaxFaults = 3
SPECIFICATION Spec
SYMMETRY Symmetry
INVARIANTS
  TypeOK
  DeliveredOnce
  CompletedLeavesNothingOpen
PROPERTIES
  JudgedOnWhatWasAttached
  SettledIsFinal
CHECK_DEADLOCK FALSE
