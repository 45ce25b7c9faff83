CONSTANTS
  Messages = {m1, m2}
  Calls = {c1}
  MaxFaults = 0
  MaxRestarts = 0
SPECIFICATION Spec
INVARIANT EndedRunsFreeTheSession
CHECK_DEADLOCK FALSE
