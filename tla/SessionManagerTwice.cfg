SPECIFICATION Spec
CONSTANTS
  Ids = {1, 2}
  Sharers = {1}
  Shards = 2
  MaxSessions = 0
  Sweepers = {}
  Casters = {b1}
INVARIANT
  BroadcastOnce
