SPECIFICATION PluginSpec
CONSTANTS
  Models = {"a", "b", "c"}
  Free = {"a", "b"}
  Lanes = {"fast"}
  Chain <- MCChain
  DefaultLane = "fast"
  Agents = {"x", "build"}
  DefaultAgent = "build"
  Named <- MCNamed
  TriedLimit = 1
  MaxHooks = 3
  MaxHookFaults = 2
  Groups = {1, 2, 4}
  CSessions = {"us", "wk"}
  SessionOf <- MCSessionOf
  RoleOf <- MCRoleOf
  Payloads = {"p"}
  GroupCapacity = 2
  SessionCapacity = 2
  RecentGroups = 1
  Ttl = 2
  PendingLimit = 2
  SeenLimit = 2
  MaxClock = 2
  MaxDeliveries = 3
  MaxContextFaults = 1
  MaxRestarts = 1
  MaxChanges = 1
  Screens = {"p1", "sub"}
  ParentScreens = {"p1"}
  MaxVersion = 3
  MaxMoves = 2
INVARIANTS
  EachModelGrantedOnce
  RouteIsTrue
  SeenIsInLedger
PROPERTIES
  CandidateIsSafe
  ProgressIsCurrent
CHECK_DEADLOCK FALSE
