SPECIFICATION FairSessions
CONSTANTS
  s1 = s1
  s2 = s2
  m1 = m1
  u1 = u1
  Conns = {s1, s2}
  Casts = {m1}
  Unicasts = {u1}
  Target <- MCTarget
  WriteQueue = 2
  HighWaterPct = 80
  Configs <- MCConfigs
  None = None
INVARIANTS
  FramesCounted
  WireInOrder
PROPERTIES
  WritesEnd
CHECK_DEADLOCK FALSE
