----------------------------- MODULE MCStreams -----------------------------
(* The stream side: the admission gate, with four goroutines, two of them    *)
(* for one peer, one for another whose address falls in the same shard and   *)
(* one that cannot be attributed; the TCP server; the QUIC server.  A        *)
(* behaviour runs one of them, the part it starts with.                      *)
EXTENDS Acceptor, TcpServer, QuicServer

CONSTANTS c1, c2, c3, c4, p1, p2

MCPeerOf == [c \in Handlers |-> CASE c \in {c1, c2} -> p1
                                  [] c = c3 -> p2
                                  [] OTHER -> Unknown]
MCShardOf == [p \in {p1, p2, Unknown} |-> IF p = Unknown THEN 0 ELSE 1]

VARIABLE part

all == <<part, acceptorVars, vars, quicVars>>

StreamsInit ==
  /\ part \in {"gate", "tcp", "quic"}
  /\ AcceptorInit /\ Init /\ QuicInit
  /\ part # "tcp" => proxy

(* Connections are interchangeable: a is the first to be accepted. *)
InTurn ==
  /\ pc'["b"] # "new" => pc'["a"] # "new"
  /\ qPc'["b"] # "new" => qPc'["a"] # "new"

StreamsNext ==
  /\ UNCHANGED part
  /\ \/ part = "gate" /\ AcceptorNext /\ UNCHANGED <<vars, quicVars>>
     \/ part = "tcp" /\ Next /\ UNCHANGED <<acceptorVars, quicVars>> /\ InTurn
     \/ part = "quic" /\ QuicNext /\ UNCHANGED <<acceptorVars, vars>> /\ InTurn

(* Each server's fairness, for the behaviours that run it. *)
StreamsFairness ==
  /\ \A c \in Conns :
       /\ WF_vars(part = "tcp" /\ Handshake(c)) /\ WF_vars(part = "tcp" /\ ConnStep(c))
       /\ WF_vars(part = "tcp" /\ Closed(c))
  /\ \A c \in QConns :
       /\ WF_quicVars(part = "quic" /\ QuicConnStep(c)) /\ WF_quicVars(part = "quic" /\ WriteStep(c))
       /\ WF_quicVars(part = "quic" /\ StreamEnds(c))
       /\ WF_quicVars(part = "quic" /\ (qStopPc # "run" \/ c \notin qLive) /\ ServeEnds(c))
  /\ WF_vars(part = "tcp" /\ ProxyReject) /\ WF_vars(part = "tcp" /\ AcceptClosed)
  /\ WF_vars(part = "tcp" /\ BackoffOver) /\ WF_vars(part = "tcp" /\ StopNext)

StreamsSpec == StreamsInit /\ [][StreamsNext]_all /\ StreamsFairness

-----------------------------------------------------------------------------
(* Stop ends what it found: the sessions of the TCP server, whose Stop       *)
(* returns, and the goroutines of the QUIC server after StopAccept.          *)
StopEndsAll == StopEndsSessions /\ DrainEnds
=============================================================================
