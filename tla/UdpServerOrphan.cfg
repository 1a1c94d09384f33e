SPECIFICATION Spec
CONSTANTS
  Keys = {"k1", "k2"}
  Ids = {"s1", "s2"}
  None = None
  MaxSessions = 1
  MaxCloses = 1
INVARIANT
  NoOrphan
