SPECIFICATION SessionSpec
CONSTANTS
  s1 = s1
  s2 = s2
  m1 = m1
  u1 = u1
  Conns = {s1, s2}
  Casts = {m1}
  Unicasts = {}
  Target <- MCTarget
  WriteQueue = 1
  HighWaterPct = 80
  Configs <- MCPlain
  None = None
INVARIANT
  EveryFrameReleased
