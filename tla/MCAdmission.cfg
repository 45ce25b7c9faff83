CONSTANTS
  Messages = {m1, m2}
  Calls = {c1, c2}
  MaxFaults = 2
  MaxRestarts = 1
SPECIFICATION Spec
SYMMETRY Symmetry
INVARIANTS
  OneRunPerMessage
  StartedIsTrue
  OpenFollowupIsAttended
  OneRunUnlessLate
CHECK_DEADLOCK FALSE
