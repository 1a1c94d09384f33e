SPECIFICATION StreamsSpec
CONSTANTS
  c1 = c1
  c2 = c2
  c3 = c3
  c4 = c4
  p1 = p1
  p2 = p2
  Unknown = Unknown
  Handlers = {c1, c2, c3, c4}
  Peers = {p1, p2}
  PeerOf <- MCPeerOf
  ShardOf <- MCShardOf
  MaxTotal = 2
  MaxPeer = 1
  Rate = 1
  Unit = 2
  MaxClock = 4
  Conns = {"a", "b"}
  MaxConns = 1
  None = "none"
  MinDelay = 2
  MaxDelay = 3
  MaxErrors = 2
  QConns = {"a", "b"}
  MaxQConns = 1
  QueueSize = 1
  MaxStreams = 1
  MaxSends = 2
INVARIANTS
  AdmissionExact
  TcpLeavesNothing
  BackoffFollows
  DrainedClean

  
