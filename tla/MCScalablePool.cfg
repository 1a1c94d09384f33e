SPECIFICATION ElasticSpec
CONSTANTS
  t1 = t1
  t2 = t2
  t3 = t3
  s1 = s1
  w1 = w1
  w2 = w2
  w3 = w3
  k1 = k1
  Tasks = {t1, t2, t3}
  Sessions = {s1}
  Owner <- MCOwner
  Workers = {w1, w2, w3}
  Stoppers = {k1}
  QueueCap = 2
  Policies = {"block", "close"}
  NoTask = NoTask
  NoWorker = NoWorker
  MinWorker = 1
  MaxWorker = 2
  ScaleUpPct = 75
  ScaleDownPct = 25
  ScaleDownHold = 1
  ScaleInterval = 1
SYMMETRY MCSymmetry
INVARIANTS
  WorkersAccounted
PROPERTIES
  NoWorkerAfterPurge
  ImplementsDispatch
