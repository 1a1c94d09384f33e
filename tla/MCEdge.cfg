SPECIFICATION EdgeSpec
CONSTANTS
  Conns = {"a", "b"}
  MaxConns = 1
  Nil = Nil
  Error = Error
  Requests = {"a", "b"}
  Limits <- MCLimits
INVARIANTS
  
  
  FormatsInvert
  PeerIdentified
  
PROPERTIES
  StopNotBlocked
