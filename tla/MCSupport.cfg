SPECIFICATION SupportSpec
CONSTANTS
  Calls = {c1, c2, c3, c4}
  Results = {"r1", "r2", "r3"}
  Old = {"r2"}
  Rooms = {"p1", "sub"}
  ParentRooms = {"p1"}
  RoomOf <- MCRoomOf
  SeenCap = 3
  MaxRefreshes = 1
  MaxSteps = 3
  Launchers = {"l1", "l2"}
  MaxFailures = 2
INVARIANTS
  LockCoversChildren
  NoLeak
PROPERTIES
  OnePresentation
  ResultIsPresented
  SignalledEnds
  EveryCallEnters
  ImplementsFifoLock
CHECK_DEADLOCK FALSE
