CONSTANTS
  m1 = m1
  m2 = m2
  m3 = m3
  m4 = m4
  Requests = {r1, r2, r3}
  Messages = {m1, m2, m3, m4}
  Prompt <- MCPrompt
  Texts = {"route", "orchestrate"}
  Rules <- MCRules
  DefaultMode = "normal"
  Models = {a, b}
  Agents = {x, y}
  MaxRecords = 1
  MaxActive = 2
  MaxLost = 1
  MaxRestarts = 1
SPECIFICATION Spec
SYMMETRY Symmetry
INVARIANTS
  TypeOK
  ParentIsNotWoken
  OkIsTaken
  DispatchedIsARun
  RouteIsHonest
CHECK_DEADLOCK FALSE
