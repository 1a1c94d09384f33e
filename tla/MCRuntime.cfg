SPECIFICATION RuntimeSpec
CONSTANTS
  Callers = {"a", "b"}
  Servers = {"tcp", "udp"}
  Staged = {"tcp"}
  Plugins <- MCPlugins
  Admin = TRUE
  MaxCalls = 4
  Nobody = "nobody"
  Reloaders = {"a", "b"}
  Docs <- MCDocs
  First <- MCFirst
  Free = "free"
  MaxVersion = 2
  Bad = Bad
  Owners = {"u", "v"}
  Sessions = {"s", "t"}
  Hung = {"t"}
  MaxCycles = 2
  x1 = x1
  Ids = {1, 2}
  Sharers = {1}
  Shards = 2
  MaxSessions = 1
  Sweepers = {x1}
  Casters = {}
INVARIANTS
  GatewayWhole
  
  OneLoop
PROPERTIES
  
  WatchersAct
