---------------------------- MODULE MCTcpSession ----------------------------
(* Two sessions, a broadcast to both and a unicast to one of them; the plain *)
(* configuration, and the one with a write timeout and a write buffer.       *)
EXTENDS TcpSession

CONSTANTS s1, s2, m1, u1

MCTarget == [u \in Unicasts |-> s1]
MCPlain == {[timeout |-> FALSE, buffer |-> FALSE]}
MCBuffered == {[timeout |-> TRUE, buffer |-> TRUE]}
MCConfigs == MCPlain \cup MCBuffered
=============================================================================
