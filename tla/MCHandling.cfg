SPECIFICATION HandlingSpec
CONSTANTS
  t1 = t1
  t2 = t2
  t3 = t3
  s1 = s1
  w1 = w1
  k1 = k1
  k2 = k2
  Tasks = {t1, t2, t3}
  Sessions = {s1}
  Owner <- MCOwner
  Workers = {w1}
  Stoppers = {k1, k2}
  QueueCap = 1
  Policies = {"block", "drop", "close"}
  NoTask = NoTask
  None = None
INVARIANTS
  EachTaskOnce
  StopDrains
  PluginsHold
  MessagesKept
PROPERTIES
  ImplementsDispatch
  OrderKept
  CallsComplete
