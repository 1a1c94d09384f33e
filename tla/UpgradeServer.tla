--------------------------- MODULE UpgradeServer ---------------------------
(***************************************************************************)
(* WebSocket sessions, of the WebSocket server (internal/transport/          *)
(* websocket/server.go, session.go) and of the gRPC-Web server (grpcweb/     *)
(* server.go, websocket_session.go), which differ in where the acceptor's    *)
(* slot is released and in whether control frames have a write deadline.     *)
(*                                                                           *)
(* An upgraded connection is hijacked: http.Server.Shutdown does not wait    *)
(* for its handler, so CloseSessions may run beside it.  Whoever removes the *)
(* table entry closes the session; there is one such closer per session.     *)
(***************************************************************************)
EXTENDS Integers, FiniteSets

CONSTANTS
  Conns,        \* upgrade requests
  MaxConns      \* Options.MaxConnections

ASSUME UpgradeAssumption == IsFiniteSet(Conns) /\ MaxConns \in Nat

VARIABLES
  kind,         \* "ws" or "grpcweb"
  hpc,          \* the HTTP handler of each request
  table,        \* Server.sessions
  registered,   \* the session manager
  live,         \* sessions that are active
  wire,         \* connections that are open
  stuck,        \* open connections whose peer takes no more bytes
  slots,        \* admitted connections
  accepted,     \* OnAccept returned nil
  onClosed,     \* OnClose calls of each session
  reader, pinger,   \* the two loops of each session
  writeMu,      \* who holds the write lock: "free", "ping" or "close"
  closer,       \* progress of the one that removed the entry: [by, at]
  stopPc, left  \* CloseSessions

vars == <<kind, hpc, table, registered, live, wire, stuck, slots, accepted, onClosed,
          reader, pinger, writeMu, closer, stopPc, left>>
fixed == <<kind>>
sessionVars == <<registered, live, wire, slots, onClosed, writeMu>>
stopVars == <<stopPc, left>>

NoCloser == [by |-> "none", at |-> "none"]
Loop == {"off", "run", "busy", "close", "out"}

TypeOK ==
  /\ hpc \in [Conns -> {"new", "upgrade", "store", "register", "onAccept", "spawn", "drop", "release", "end"}]
  /\ UNION {table, registered, live, wire, stuck, accepted, left} \subseteq Conns
  /\ slots \in Int /\ (kind = "ws" => slots \in 0..MaxConns) /\ onClosed \in [Conns -> Nat]
  /\ reader \in [Conns -> Loop] /\ pinger \in [Conns -> Loop]
  /\ writeMu \in [Conns -> {"free", "ping", "close"}]
  /\ stopPc \in {"run", "close", "wait", "stopped"}

Init ==
  /\ kind \in {"ws", "grpcweb"}
  /\ hpc = [c \in Conns |-> "new"]
  /\ table = {} /\ registered = {} /\ live = {} /\ wire = {} /\ stuck = {} /\ accepted = {}
  /\ slots = 0 /\ onClosed = [c \in Conns |-> 0]
  /\ reader = [c \in Conns |-> "off"] /\ pinger = [c \in Conns |-> "off"]
  /\ writeMu = [c \in Conns |-> "free"]
  /\ closer = [c \in Conns |-> NoCloser]
  /\ stopPc = "run" /\ left = {}

-----------------------------------------------------------------------------
Handler(c, from, to) == hpc[c] = from /\ hpc' = [hpc EXCEPT ![c] = to]

(* handleUpgrade, handleWebSocket: TryAccept, 503 or go on. *)
TryAccept(c) ==
  /\ stopPc = "run"
  /\ \/ slots < MaxConns /\ Handler(c, "new", "upgrade") /\ slots' = slots + 1
     \/ slots >= MaxConns /\ Handler(c, "new", "end") /\ UNCHANGED slots
  /\ UNCHANGED <<fixed, table, registered, live, wire, stuck, accepted, onClosed, reader, pinger, writeMu, closer, stopVars>>

(* Upgrade hijacks the connection or fails. *)
Upgrade(c) ==
  /\ \/ Handler(c, "upgrade", "store") /\ wire' = wire \cup {c} /\ UNCHANGED slots
     \/ Handler(c, "upgrade", "end") /\ slots' = slots - 1 /\ UNCHANGED wire
  /\ UNCHANGED <<fixed, table, registered, live, stuck, accepted, onClosed, reader, pinger, writeMu, closer, stopVars>>

(* newSession, sessions.Store *)
Store(c) ==
  /\ Handler(c, "store", "register") /\ table' = table \cup {c} /\ live' = live \cup {c}
  /\ UNCHANGED <<fixed, registered, wire, stuck, slots, accepted, onClosed, reader, pinger, writeMu, closer, stopVars>>

(* acceptor.Done for a refused session: the WebSocket server calls it at     *)
(* once, the gRPC-Web server after it has discarded the session.             *)
DoneFirst == slots' = IF kind = "ws" THEN slots - 1 ELSE slots

(* Register, refused for a full manager. *)
Register(c) ==
  /\ \/ Handler(c, "register", "onAccept") /\ registered' = registered \cup {c} /\ UNCHANGED slots
     \/ Handler(c, "register", "drop") /\ DoneFirst /\ UNCHANGED registered
  /\ UNCHANGED <<fixed, table, live, wire, stuck, accepted, onClosed, reader, pinger, writeMu, closer, stopVars>>

OnAccept(c) ==
  /\ \/ Handler(c, "onAccept", "spawn") /\ accepted' = accepted \cup {c} /\ UNCHANGED slots
     \/ Handler(c, "onAccept", "drop") /\ DoneFirst /\ UNCHANGED accepted
  /\ UNCHANGED <<fixed, table, registered, live, wire, stuck, onClosed, reader, pinger, writeMu, closer, stopVars>>

(* The two loops. *)
Spawn(c) ==
  /\ Handler(c, "spawn", "end")
  /\ reader' = [reader EXCEPT ![c] = "run"] /\ pinger' = [pinger EXCEPT ![c] = "run"]
  /\ UNCHANGED <<fixed, table, registered, live, wire, stuck, slots, accepted, onClosed, writeMu, closer, stopVars>>

(* LoadAndDelete by the handler, a loop or CloseSessions. *)
Take(c, who) ==
  /\ c \in table /\ table' = table \ {c} /\ closer' = [closer EXCEPT ![c] = [by |-> who, at |-> "unregister"]]

(* Mutation of Drop: a refused session is closed like an accepted one. *)
DropNotifies(c) ==
  /\ IF c \in table THEN Take(c, "reader") /\ UNCHANGED hpc
     ELSE closer[c].by # "reader" /\ Handler(c, "drop", "release") /\ UNCHANGED <<table, closer>>
  /\ hpc[c] = "drop"
  /\ UNCHANGED <<fixed, sessionVars, stuck, accepted, reader, pinger, stopVars>>

(* A session that was never accepted is discarded without OnClose. *)
Drop(c) ==
  /\ IF c \in table THEN Take(c, "handler") /\ UNCHANGED hpc
     ELSE closer[c].by # "handler" /\ Handler(c, "drop", "release") /\ UNCHANGED <<table, closer>>
  /\ hpc[c] = "drop"
  /\ UNCHANGED <<fixed, sessionVars, stuck, accepted, reader, pinger, stopVars>>

(* The handler returns; the gRPC-Web server calls acceptor.Done first.       *)
Release(c) ==
  /\ Handler(c, "release", "end") /\ slots' = IF kind = "ws" THEN slots ELSE slots - 1
  /\ UNCHANGED <<fixed, table, registered, live, wire, stuck, accepted, onClosed, reader, pinger, writeMu, closer, stopVars>>

-----------------------------------------------------------------------------
(* Mutation of Deadline: control frames of gRPC-Web have none either. *)
DeadlineNone(c) == FALSE

(* A control frame that cannot be written is given up at its deadline, which *)
(* only the gRPC-Web session sets (setWriteDeadline).                        *)
Deadline(c) == kind = "grpcweb"
Written(c) == c \notin stuck \/ c \notin wire \/ Deadline(c)

At(c, from, to) == closer[c].at = from /\ closer' = [closer EXCEPT ![c].at = to]

(* closeSession, closeWebSocketSession after LoadAndDelete: Unregister, then *)
(* Close, which marks the session, takes the write lock for the close frame  *)
(* and closes the connection, then OnClose and gRPC-Web's release.           *)
CloseStep(c) ==
  /\ \/ At(c, "unregister", "mark") /\ registered' = registered \ {c} /\ UNCHANGED <<live, wire, writeMu, slots, onClosed>>
     \/ At(c, "mark", "lock") /\ live' = live \ {c} /\ UNCHANGED <<registered, wire, writeMu, slots, onClosed>>
     \/ /\ At(c, "lock", "frame") /\ writeMu[c] = "free" /\ writeMu' = [writeMu EXCEPT ![c] = "close"]
        /\ UNCHANGED <<registered, live, wire, slots, onClosed>>
     \/ /\ At(c, "frame", "notify") /\ Written(c)
        /\ writeMu' = [writeMu EXCEPT ![c] = "free"] /\ wire' = wire \ {c}
        /\ UNCHANGED <<registered, live, slots, onClosed>>
     \/ /\ closer[c].at = "notify" /\ closer' = [closer EXCEPT ![c] = NoCloser]
        /\ onClosed' = IF closer[c].by = "handler" THEN onClosed ELSE [onClosed EXCEPT ![c] = @ + 1]
        /\ slots' = IF closer[c].by # "handler" /\ kind = "grpcweb" THEN slots - 1 ELSE slots
        /\ UNCHANGED <<registered, live, wire, writeMu>>
  /\ UNCHANGED <<fixed, hpc, table, stuck, accepted, reader, pinger, stopVars>>

(* readLoop: the peer left, was silent for PongTimeout, sent what a plugin   *)
(* or the handler refused, or the connection is closed.                      *)
ReadEnds(c) ==
  /\ reader[c] = "run" /\ reader' = [reader EXCEPT ![c] = "close"]
  /\ UNCHANGED <<fixed, hpc, table, sessionVars, stuck, accepted, pinger, closer, stopVars>>

(* Its deferred closeSession, and the goroutine's end; the WebSocket server  *)
(* releases the slot here.                                                   *)
ReaderClose(c) ==
  /\ reader[c] = "close"
  /\ IF c \in table THEN Take(c, "reader") /\ UNCHANGED <<reader, slots>>
     ELSE /\ closer[c].by # "reader" /\ reader' = [reader EXCEPT ![c] = "out"]
          /\ slots' = IF kind = "ws" THEN slots - 1 ELSE slots
          /\ UNCHANGED <<table, closer>>
  /\ UNCHANGED <<fixed, hpc, registered, live, wire, stuck, accepted, onClosed, pinger, writeMu, stopVars>>

(* pingLoop: a tick takes the write lock and writes, *)
Ping(c) ==
  /\ \/ /\ pinger[c] = "run" /\ writeMu[c] = "free"
        /\ pinger' = [pinger EXCEPT ![c] = "busy"] /\ writeMu' = [writeMu EXCEPT ![c] = "ping"]
     \/ /\ pinger[c] = "busy" /\ Written(c) /\ writeMu' = [writeMu EXCEPT ![c] = "free"]
        /\ pinger' = [pinger EXCEPT ![c] = IF c \in wire /\ c \notin stuck THEN "run" ELSE "close"]
  /\ UNCHANGED <<fixed, hpc, table, registered, live, wire, stuck, slots, accepted, onClosed, reader, closer, stopVars>>

(* an error closes the session, and the session's context ends the loop.     *)
PingerClose(c) ==
  /\ \/ pinger[c] = "close" /\ c \in table /\ Take(c, "pinger") /\ UNCHANGED pinger
     \/ /\ pinger[c] = "close" /\ c \notin table /\ closer[c].by # "pinger"
        /\ pinger' = [pinger EXCEPT ![c] = "out"] /\ UNCHANGED <<table, closer>>
     \/ /\ pinger[c] = "run" /\ c \notin live
        /\ pinger' = [pinger EXCEPT ![c] = "out"] /\ UNCHANGED <<table, closer>>
  /\ UNCHANGED <<fixed, hpc, sessionVars, stuck, accepted, reader, stopVars>>

(* A peer stops taking bytes, and TCP may give up on it at any time.         *)
PeerStuck(c) ==
  /\ c \in wire \ stuck /\ stuck' = stuck \cup {c}
  /\ UNCHANGED <<fixed, hpc, table, sessionVars, accepted, reader, pinger, closer, stopVars>>

PeerGone(c) ==
  /\ c \in wire \cap stuck /\ wire' = wire \ {c}
  /\ UNCHANGED <<fixed, hpc, table, registered, live, stuck, slots, accepted, onClosed, reader, pinger, writeMu, closer, stopVars>>

-----------------------------------------------------------------------------
(* StopAccept: no new request gets in.  Drain does nothing.  CloseSessions'  *)
(* Range sees the entries of the moment.                                     *)
StopAccept ==
  /\ stopPc = "run" /\ stopPc' = "close" /\ left' = table
  /\ UNCHANGED <<fixed, hpc, table, sessionVars, stuck, accepted, reader, pinger, closer>>

CloseSessions ==
  /\ stopPc = "close" /\ \A c \in Conns : closer[c].by # "stop"
  /\ IF left = {} THEN stopPc' = "wait" /\ UNCHANGED <<left, table, closer>>
     ELSE \E c \in left : /\ left' = left \ {c} /\ UNCHANGED stopPc
                          /\ IF c \in table THEN Take(c, "stop") ELSE UNCHANGED <<table, closer>>
  /\ UNCHANGED <<fixed, hpc, sessionVars, stuck, accepted, reader, pinger>>

(* wg.Wait.  (The deadline of the stage, which ends the wait too, is left    *)
(* out: it could hide that the loops do not end.)                            *)
Wait ==
  /\ stopPc = "wait" /\ \A c \in Conns : {reader[c], pinger[c]} \subseteq {"off", "out"}
  /\ stopPc' = "stopped"
  /\ UNCHANGED <<fixed, hpc, table, sessionVars, stuck, accepted, reader, pinger, closer, left>>

HandlerStep(c) == Upgrade(c) \/ Store(c) \/ Register(c) \/ OnAccept(c) \/ Spawn(c) \/ Drop(c) \/ Release(c)
LoopStep(c) == ReaderClose(c) \/ PingerClose(c) \/ CloseStep(c) \/ (pinger[c] = "busy" /\ Ping(c))
StopNext == CloseSessions \/ Wait

Next ==
  \/ \E c \in Conns : TryAccept(c) \/ HandlerStep(c) \/ LoopStep(c) \/ Ping(c) \/ ReadEnds(c) \/ PeerStuck(c) \/ PeerGone(c)
  \/ StopAccept \/ StopNext
  \/ stopPc = "stopped" /\ UNCHANGED vars

(* Goroutines run and control frames that can be written are; a connection   *)
(* that was closed ends its read loop; select does not pick the ticker       *)
(* forever when the session's context is done.                               *)
Fairness ==
  /\ \A c \in Conns : /\ WF_vars(HandlerStep(c)) /\ WF_vars(ReaderClose(c)) /\ SF_vars(PingerClose(c))
                      /\ WF_vars(CloseStep(c)) /\ WF_vars(pinger[c] = "busy" /\ Ping(c))
                      /\ WF_vars(c \notin wire /\ ReadEnds(c))
  /\ WF_vars(StopNext)

Spec == Init /\ [][Next]_vars /\ Fairness

-----------------------------------------------------------------------------
(* Every admitted connection holds one slot and gives it back once: on a     *)
(* failed upgrade, a refused session, a closed one, whoever closes it.  The  *)
(* gRPC-Web server keeps this only while Stop has not begun, because its     *)
(* handler and CloseSessions may both release a session being opened.        *)
SlotPerConnection ==
  kind = "ws" \/ stopPc = "run" =>
    slots = Cardinality({c \in Conns :
              \/ hpc[c] \notin {"new", "end"} \cup (IF kind = "ws" THEN {"drop", "release"} ELSE {})
              \/ hpc[c] = "end" /\ IF kind = "ws" THEN reader[c] \in {"run", "close"}
                                   ELSE c \in table \/ closer[c].by \in {"reader", "pinger", "stop"}})

(* OnClose never runs twice, and, while no Stop overtakes a handler, only    *)
(* for accepted sessions; a session that is over is in no table (readLoop,   *)
(* pingLoop and CloseSessions all call closeSession).                        *)
ClosedOnce ==
  \A c \in Conns :
    /\ onClosed[c] <= 1
    /\ stopPc = "run" /\ onClosed[c] = 1 => c \in accepted /\ c \notin registered \cup live \cup table
    /\ stopPc = "run" /\ reader[c] = "out" /\ closer[c] = NoCloser => onClosed[c] = 1

(* handleUpgrade, handleWebSocket, closeSession: the slots taken are the     *)
(* connections that hold one, and OnClose is called once for a session       *)
(* OnAccept took and for no other, whatever refuses, fails or closes it.     *)
ConnectionsSettled == TypeOK /\ SlotPerConnection /\ ClosedOnce

(* CloseSessions gets through its Range although peers stop reading, and its *)
(* wait ends if no handler was still opening a session: a ping or a close    *)
(* frame that cannot be written never holds the write lock for good.  Stated *)
(* for gRPC-Web, whose sessions set a deadline for them.                     *)
StopNotBlocked ==
  /\ kind = "grpcweb" /\ stopPc = "close" ~> stopPc # "close"
  /\ kind = "grpcweb" /\ stopPc = "close" /\ table \subseteq left
       /\ (\A c \in Conns : hpc[c] \in {"new", "end"}) ~> stopPc = "stopped"
=============================================================================
