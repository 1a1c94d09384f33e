SPECIFICATION ServicesSpec
CONSTANTS
  x1 = x1
  b1 = b1
  None = None
  NoBan = NoBan
  Ids = {1, 2}
  Sharers = {1}
  Shards = 2
  MaxSessions = 1
  Sweepers = {x1}
  Casters = {b1}
  Peers = {"k", "l"}
  threshold = 3
  banDuration = 2
  MaxBanTime = 6
  Calls = {"a", "b", "c"}
  tripAfter = 2
  timeout = 2
  MaxTime = 6
  SnapIds = {"i", "j"}
  MaxSaves = 3
  Keys = {"k", "l"}
  Writers = {"v", "w"}
  Ttls <- MCTtls
  MaxClock = 3
  MaxSets = 3
  Starters = {"a", "b", "c"}
  NoClient = "nil"
  MaxGen = 2
  Users = {"u", "v", "w"}
  Sockets = {"1", "2", "3"}
  NoConn = "nil"
INVARIANTS
  IndexExact
  LimitersHold
  StoresFaithful
  ClientsHeld
  ObserversExact
PROPERTIES
  NothingUndoneEarly
