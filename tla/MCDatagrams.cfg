SPECIFICATION DatagramsSpec
CONSTANTS
  None = None
  NoRequest = NoRequest
  NoReg = NoReg
  Keys = {"k1", "k2"}
  Ids = {"s1", "s2"}
  MaxSessions = 1
  MaxCloses = 1
  Resources = {"r", "q"}
  Remotes = {"a"}
  Tokens = {"t", "u"}
  AckTimeout = 1
  MaxRetransmit = 2
  MaxPerRemote = 2
  MaxTotal = 2
  MaxNotifies = 1
  MaxLag = 1
  Requests = {"get", "put", "non", "up", "ping"}
  Con = {"get", "put", "up", "ping"}
  Empty = {"ping"}
  Block1 = {"up"}
  MaxRuns = 4
  Endpoints = {"e", "f"}
  Callers = {"c", "d"}
  Lifetimes = {0, 2, 9}
  defaultLife = 1
  maxLifetime = 2
  maxRegistrations = 1
  sweepThrottle = 2
  Paths = {"/3/0/1", "/3/0/2"}
  ReadOnly = {"/3/0/2"}
  MaxTime = 5
INVARIANTS
  SessionsSettled
  ExchangeOnce
  RegistryKept
PROPERTIES
  NeverEvictedEarly
  
