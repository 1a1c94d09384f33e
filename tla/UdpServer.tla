----------------------------- MODULE UdpServer -----------------------------
(***************************************************************************)
(* The UDP transport's session table (internal/transport/udp/server.go,    *)
(* session.go): plain UDP, where one read loop serves every peer and an    *)
(* idle sweeper runs beside it, and DTLS, where each connection has its own*)
(* goroutine.  Anyone may Close a session directly (a plugin, the session  *)
(* manager), which leaves its table entry behind.                          *)
(*                                                                         *)
(* LoadAndDelete is one step and what closeSession does with the session   *)
(* afterwards another, because the table is keyed by peer address and the  *)
(* same key may come to name a newer session in between.                   *)
(*                                                                         *)
(* The CoAP transport (internal/transport/coap/server.go) keeps the same   *)
(* table under the same keys, with the same read, sweep and DTLS loops and *)
(* the same staged stop; what it adds (observers, retransmission, message  *)
(* deduplication) is CoapNotify's and CoapExchange's.                      *)
(***************************************************************************)
EXTENDS Naturals, FiniteSets

CONSTANTS
  Keys,         \* peer addresses
  Ids,          \* session IDs, each used once; bound on the sessions of a behaviour
  None,
  MaxSessions,  \* the quota's total ceiling
  MaxCloses     \* bound: direct Close calls in a behaviour

ASSUME IdsAssumption == IsFiniteSet(Ids) /\ None \notin Ids /\ MaxSessions \in Nat

VARIABLES
  mode,         \* "plain" or "dtls": whether TLSConfig is set
  table,        \* Server.sessions, from peer key (plain) or session ID (DTLS)
  state,        \* session.state: "none", "active", "closed"
  idle,         \* sessions whose LastActiveAt is more than SessionTTL ago
  registered,   \* IDs in the session manager
  accepted,     \* IDs whose OnAccept returned nil
  closes,       \* closes[i]: OnClose calls for session i
  slots,        \* PeerQuota.total
  conns,        \* Server.dtlsConns
  dead,         \* DTLS connections StopAccept closed
  reader,       \* the read loop, or the DTLS accept loop
  sweeper,      \* the sweep loop
  hpc,          \* progress of each DTLS connection's goroutine
  stopper,      \* the caller of Stop
  left,         \* keys CloseSessions' Range has still to visit
  ctxDone,      \* runCtx cancelled
  sock,         \* the socket or DTLS listener: "open" or "closed"
  kills         \* direct Close calls so far

vars == <<mode, table, state, idle, registered, accepted, closes, slots, conns, dead,
          reader, sweeper, hpc, stopper, left, ctxDone, sock, kills>>
sessionVars == <<state, idle, registered, accepted, closes, slots>>
dtlsVars == <<conns, dead, hpc>>
stopVars == <<stopper, left, ctxDone, sock>>
fixed == <<mode, kills>>

(* An actor that calls closeSession goes through "take" and "retire" with    *)
(* the key and the session it holds, and on to stage then.                   *)
At(l) == [at |-> l, key |-> None, sess |-> None, then |-> None]
Closing(k, i, t) == [at |-> "take", key |-> k, sess |-> i, then |-> t]
After(a) == IF a.then = "load" THEN [a EXCEPT !.at = "load", !.sess = None] ELSE At(a.then)

Active(i) == state[i] = "active"
Spent == \A i \in Ids : state[i] # "none"
Fresh == CHOOSE i \in Ids : state[i] = "none"

TypeOK ==
  /\ table \in [Keys \cup Ids -> Ids \cup {None}]
  /\ state \in [Ids -> {"none", "active", "closed"}]
  /\ idle \cup registered \cup accepted \cup conns \cup dead \subseteq Ids
  /\ closes \in [Ids -> Nat] /\ slots \in 0..MaxSessions
  /\ reader.at \in {"read", "load", "register", "accept", "message", "take", "retire", "listen", "exit"}
  /\ sweeper.at \in {"wait", "take", "retire", "exit"}
  /\ stopper.at \in {"run", "conns", "sock", "drain", "range", "take", "retire", "done"}
  /\ hpc \in [Ids -> {"off", "store", "register", "accept", "check", "read", "defer", "delete", "exit"}]

(* A started server: the loops that Start launches for its mode run. *)
Init ==
  /\ mode \in {"plain", "dtls"}
  /\ table = [k \in Keys \cup Ids |-> None]
  /\ state = [i \in Ids |-> "none"]
  /\ idle = {} /\ registered = {} /\ accepted = {} /\ conns = {} /\ dead = {} /\ left = {}
  /\ closes = [i \in Ids |-> 0] /\ slots = 0 /\ kills = 0
  /\ reader = At(IF mode = "plain" THEN "read" ELSE "listen")
  /\ sweeper = At(IF mode = "plain" THEN "wait" ELSE "exit")
  /\ hpc = [i \in Ids |-> "off"]
  /\ stopper = At("run") /\ ctxDone = FALSE /\ sock = "open"

-----------------------------------------------------------------------------
(* session.Close: closeOnce gives a plain session's quota slot back once.    *)
CloseOnce(i) ==
  /\ state' = [state EXCEPT ![i] = "closed"]
  /\ slots' = IF mode = "plain" /\ Active(i) THEN slots - 1 ELSE slots

(* closeSession(key, sess): LoadAndDelete looks at the key only; the session *)
(* the caller holds is then unregistered, closed and reported to plugins.    *)
Taken(a) == IF table[a.key] = None THEN After(a) ELSE [a EXCEPT !.at = "retire"]

closeSession(a, next) ==
  \/ /\ a.at = "take"
     /\ next = Taken(a)
     /\ table' = [table EXCEPT ![a.key] = None]
     /\ UNCHANGED sessionVars
  \/ /\ a.at = "retire"
     /\ next = After(a)
     /\ registered' = registered \ {a.sess}
     /\ CloseOnce(a.sess)
     /\ closes' = [closes EXCEPT ![a.sess] = @ + 1]
     /\ UNCHANGED <<table, idle, accepted>>

-----------------------------------------------------------------------------
(* readLoop: a datagram from a peer. *)
ReadDatagram(k) ==
  /\ reader.at = "read" /\ sock = "open"
  /\ reader' = [At("load") EXCEPT !.key = k]
  /\ UNCHANGED <<table, sessionVars, sweeper, dtlsVars, stopVars, fixed>>

(* The socket or the DTLS listener is closed: the loop that reads it ends. *)
ReadClosed ==
  /\ reader.at \in {"read", "listen"} /\ sock = "closed"
  /\ reader' = At("exit")
  /\ UNCHANGED <<table, sessionVars, sweeper, dtlsVars, stopVars, fixed>>

(* getOrCreateSession: a live session is used and a closed one reaped.  With *)
(* none the quota is asked, and the new session published under the key;     *)
(* only this loop stores under a peer's key, so LoadOrStore always stores.   *)
LoadSession ==
  LET k == reader.key  old == table[k] IN
  /\ reader.at = "load"
  /\ IF old # None
       THEN /\ reader' = IF Active(old) THEN [reader EXCEPT !.at = "message", !.sess = old]
                                        ELSE Closing(k, old, "load")
            /\ UNCHANGED <<table, sessionVars>>
       ELSE IF slots >= MaxSessions \/ Spent
       THEN reader' = At("read") /\ UNCHANGED <<table, sessionVars>>
       ELSE /\ slots' = slots + 1
            /\ state' = [state EXCEPT ![Fresh] = "active"]
            /\ table' = [table EXCEPT ![k] = Fresh]
            /\ reader' = [reader EXCEPT !.at = "register", !.sess = Fresh]
            /\ UNCHANGED <<idle, registered, accepted, closes>>
  /\ UNCHANGED <<sweeper, dtlsVars, stopVars, fixed>>

RegisterSession ==
  /\ reader.at = "register"
  /\ \/ /\ registered' = registered \cup {reader.sess}
        /\ reader' = [reader EXCEPT !.at = "accept"]
        /\ UNCHANGED <<table, state, slots>>
     \/ /\ table' = [table EXCEPT ![reader.key] = None]
        /\ CloseOnce(reader.sess)
        /\ reader' = At("read")
        /\ UNCHANGED registered
  /\ UNCHANGED <<idle, accepted, closes, sweeper, dtlsVars, stopVars, fixed>>

(* Mutation of AcceptSession: a refused session stays in the table. *)
AcceptSessionKeeps ==
  /\ reader.at = "accept"
  /\ \/ accepted' = accepted \cup {reader.sess} /\ reader' = [reader EXCEPT !.at = "message"]
     \/ reader' = At("read") /\ UNCHANGED accepted
  /\ UNCHANGED <<table, registered, state, slots, idle, closes, sweeper, dtlsVars, stopVars, fixed>>

(* OnAccept; a refusal takes the session back unless the key is gone.        *)
AcceptSession ==
  /\ reader.at = "accept"
  /\ \/ /\ accepted' = accepted \cup {reader.sess}
        /\ reader' = [reader EXCEPT !.at = "message"]
        /\ UNCHANGED <<table, registered, state, slots>>
     \/ /\ table' = [table EXCEPT ![reader.key] = None]
        /\ IF table[reader.key] # None
             THEN registered' = registered \ {reader.sess} /\ CloseOnce(reader.sess)
             ELSE UNCHANGED <<registered, state, slots>>
        /\ reader' = At("read")
        /\ UNCHANGED accepted
  /\ UNCHANGED <<idle, closes, sweeper, dtlsVars, stopVars, fixed>>

(* The session is touched.  OnMessage passes or drops and the handler        *)
(* returns nil, or one of them fails and the session is closed.              *)
HandleMessage ==
  /\ reader.at = "message"
  /\ idle' = idle \ {reader.sess}
  /\ reader' \in {At("read"), Closing(reader.key, reader.sess, "read")}
  /\ UNCHANGED <<table, state, registered, accepted, closes, slots, sweeper, dtlsVars, stopVars, fixed>>

ReaderCloses == closeSession(reader, reader') /\ UNCHANGED <<sweeper, dtlsVars, stopVars, fixed>>

-----------------------------------------------------------------------------
(* sweepLoop: the tick's Range meets an idle session, or ctx is done. *)
Sweep ==
  /\ sweeper.at = "wait"
  /\ \/ \E k \in Keys : table[k] \in idle /\ sweeper' = Closing(k, table[k], "wait")
     \/ ctxDone /\ sweeper' = At("exit")
  /\ UNCHANGED <<table, sessionVars, reader, dtlsVars, stopVars, fixed>>

SweeperCloses == closeSession(sweeper, sweeper') /\ UNCHANGED <<reader, dtlsVars, stopVars, fixed>>

GoIdle(i) ==
  /\ mode = "plain" /\ Active(i) /\ i \notin idle
  /\ idle' = idle \cup {i}
  /\ UNCHANGED <<table, state, registered, accepted, closes, slots, reader, sweeper, dtlsVars, stopVars, fixed>>

(* A plugin or the session manager calls Close on the session itself. *)
DirectClose(i) ==
  /\ Active(i) /\ kills < MaxCloses
  /\ CloseOnce(i)
  /\ kills' = kills + 1
  /\ UNCHANGED <<mode, table, idle, registered, accepted, closes, reader, sweeper, dtlsVars, stopVars>>

-----------------------------------------------------------------------------
(* dtlsAcceptLoop: a handshaken connection gets a goroutine. *)
DtlsAccept ==
  /\ reader.at = "listen" /\ sock = "open" /\ ~Spent
  /\ hpc' = [hpc EXCEPT ![Fresh] = "store"]
  /\ state' = [state EXCEPT ![Fresh] = "active"]
  /\ UNCHANGED <<table, idle, registered, accepted, closes, slots, reader, sweeper, conns, dead, stopVars, fixed>>

Goto(i, l) == hpc' = [hpc EXCEPT ![i] = l]
ConnClosed(i) == state[i] = "closed" \/ i \in dead

(* handleDTLSConn: sessions.Store and dtlsConns.Store, Register, OnAccept.   *)
DtlsStore(i) ==
  /\ hpc[i] = "store" /\ Goto(i, "register")
  /\ table' = [table EXCEPT ![i] = i]
  /\ conns' = conns \cup {i}
  /\ UNCHANGED <<sessionVars, reader, sweeper, dead, stopVars, fixed>>

DtlsRegister(i) ==
  /\ hpc[i] = "register"
  /\ \/ registered' = registered \cup {i} /\ Goto(i, "accept") /\ UNCHANGED <<state, slots>>
     \/ CloseOnce(i) /\ Goto(i, "defer") /\ UNCHANGED registered
  /\ UNCHANGED <<table, idle, accepted, closes, reader, sweeper, conns, dead, stopVars, fixed>>

DtlsOnAccept(i) ==
  /\ hpc[i] = "accept"
  /\ \/ accepted' = accepted \cup {i} /\ Goto(i, "check") /\ UNCHANGED <<state, slots>>
     \/ CloseOnce(i) /\ Goto(i, "defer") /\ UNCHANGED accepted
  /\ UNCHANGED <<table, idle, registered, closes, reader, sweeper, conns, dead, stopVars, fixed>>

DtlsCheck(i) ==
  /\ hpc[i] = "check" /\ Goto(i, IF ctxDone THEN "defer" ELSE "read")
  /\ UNCHANGED <<table, sessionVars, reader, sweeper, conns, dead, stopVars, fixed>>

(* A message goes to OnMessage and the handler; a failure of either closes   *)
(* the session, and the loop goes on either way.                             *)
DtlsMessage(i) ==
  /\ hpc[i] = "read" /\ ~ConnClosed(i) /\ Goto(i, "check")
  /\ CloseOnce(i) \/ UNCHANGED <<state, slots>>
  /\ UNCHANGED <<table, idle, registered, accepted, closes, reader, sweeper, conns, dead, stopVars, fixed>>

(* A read error ends it: the connection was closed here, or the peer left or *)
(* was silent past the read deadline.                                        *)
DtlsReadError(i) ==
  /\ hpc[i] = "read" /\ Goto(i, "defer")
  /\ UNCHANGED <<table, sessionVars, reader, sweeper, conns, dead, stopVars, fixed>>

(* The deferred clean-up. *)
DtlsDefer(i) ==
  /\ hpc[i] = "defer" /\ Goto(i, "delete")
  /\ CloseOnce(i)
  /\ conns' = conns \ {i}
  /\ UNCHANGED <<table, idle, registered, accepted, closes, reader, sweeper, dead, stopVars, fixed>>

DtlsDelete(i) ==
  /\ hpc[i] = "delete" /\ Goto(i, "exit")
  /\ table' = [table EXCEPT ![i] = None]
  /\ IF table[i] # None
       THEN /\ registered' = registered \ {i}
            /\ closes' = [closes EXCEPT ![i] = IF i \in accepted THEN @ + 1 ELSE @]
       ELSE UNCHANGED <<registered, closes>>
  /\ UNCHANGED <<state, idle, accepted, slots, reader, sweeper, conns, dead, stopVars, fixed>>

-----------------------------------------------------------------------------
(* Mutation of StopAccept: the DTLS connections are left open. *)
StopAcceptKeepsConns ==
  /\ \/ stopper.at = "run" /\ ctxDone' = TRUE /\ stopper' = At("sock") /\ UNCHANGED <<dead, sock>>
     \/ stopper.at = "sock" /\ sock' = "closed" /\ stopper' = At("drain") /\ UNCHANGED <<ctxDone, dead>>
  /\ UNCHANGED <<table, sessionVars, reader, sweeper, conns, hpc, left, fixed>>

(* StopAccept: cancel, close the DTLS connections, close the socket. *)
StopAccept ==
  /\ \/ stopper.at = "run" /\ ctxDone' = TRUE /\ stopper' = At("conns") /\ UNCHANGED <<dead, sock>>
     \/ stopper.at = "conns" /\ dead' = dead \cup conns /\ stopper' = At("sock") /\ UNCHANGED <<ctxDone, sock>>
     \/ stopper.at = "sock" /\ sock' = "closed" /\ stopper' = At("drain") /\ UNCHANGED <<ctxDone, dead>>
  /\ UNCHANGED <<table, sessionVars, reader, sweeper, conns, hpc, left, fixed>>

AllExited == reader.at = "exit" /\ sweeper.at = "exit" /\ \A i \in Ids : hpc[i] \in {"off", "exit"}

(* Drain: every goroutine is gone, or the caller's ctx expires. *)
Drain ==
  /\ stopper.at = "drain"
  /\ stopper' = At("range")
  /\ left' = {k \in Keys \cup Ids : table[k] # None}
  /\ UNCHANGED <<table, sessionVars, reader, sweeper, dtlsVars, ctxDone, sock, fixed>>

(* CloseSessions: Range reads each key's session when it reaches it. *)
CloseSessions ==
  /\ stopper.at = "range"
  /\ IF left = {}
       THEN stopper' = At("done") /\ UNCHANGED left
       ELSE \E k \in left :
              /\ left' = left \ {k}
              /\ stopper' = IF table[k] = None THEN stopper ELSE Closing(k, table[k], "range")
  /\ UNCHANGED <<table, sessionVars, reader, sweeper, dtlsVars, ctxDone, sock, fixed>>

StopperCloses == closeSession(stopper, stopper') /\ UNCHANGED <<reader, sweeper, dtlsVars, left, ctxDone, sock, fixed>>

(* The goroutines: the read loop (CoAP: readLoop), the sweeper, one handler  *)
(* per DTLS connection (CoAP: handleDTLSConn), the caller of Stop.           *)
Reader == ReadClosed \/ LoadSession \/ RegisterSession \/ AcceptSession \/ HandleMessage \/ ReaderCloses
Sweeper == Sweep \/ SweeperCloses
Handler(i) == DtlsStore(i) \/ DtlsRegister(i) \/ DtlsOnAccept(i) \/ DtlsCheck(i)
  \/ (ConnClosed(i) /\ DtlsReadError(i)) \/ DtlsDefer(i) \/ DtlsDelete(i)
Stopper == StopAccept \/ Drain \/ CloseSessions \/ StopperCloses
Finished == stopper.at = "done" /\ AllExited /\ UNCHANGED vars

Next ==
  \/ Reader \/ Sweeper \/ Stopper \/ Finished
  \/ DtlsAccept \/ \E k \in Keys : ReadDatagram(k)
  \/ \E i \in Ids : Handler(i) \/ DtlsMessage(i) \/ DtlsReadError(i) \/ GoIdle(i) \/ DirectClose(i)

(* Every goroutine keeps running; peers promise nothing.                     *)
Fairness == WF_vars(Reader) /\ WF_vars(Sweeper) /\ \A i \in Ids : WF_vars(Handler(i))

Spec == Init /\ [][Next]_vars
FairSpec == Spec /\ Fairness

-----------------------------------------------------------------------------
(* The gate holds for every datagram: the read loop hands a message only to  *)
(* a session that OnAccept admitted, even after refusals, reaps, sweeps and  *)
(* closes of the same peer's earlier sessions.                               *)
OnlyAcceptedServed == reader.at = "message" => reader.sess \in accepted

(* "the slot is returned exactly once no matter which path closes the        *)
(* session": the quota counts exactly the sessions that are not closed.      *)
SlotsExact == mode = "plain" => slots = Cardinality({i \in Ids : Active(i)})

(* "OnClose fires exactly once even when CloseSessions already removed this  *)
(* session": a DTLS connection's goroutine and CloseSessions never both      *)
(* report a session, and an accepted one is reported when its goroutine is   *)
(* gone, unless CloseSessions is about to.                                   *)
DtlsOnCloseOnce ==
  mode = "dtls" => \A i \in Ids :
    /\ closes[i] <= 1
    /\ hpc[i] = "exit" /\ i \in accepted /\ stopper.sess # i => closes[i] = 1

(* readLoop, getOrCreateSession, session.Close, handleDTLSConn: only a       *)
(* session OnAccept admitted is handed a message, the quota counts exactly   *)
(* the sessions that are not closed, and OnClose comes once for each         *)
(* admitted DTLS session.                                                    *)
SessionsSettled == TypeOK /\ OnlyAcceptedServed /\ SlotsExact /\ DtlsOnCloseOnce

(* "all tracked goroutines exit promptly": once StopAccept has cancelled ctx *)
(* and closed what it knows of, every loop and connection goroutine ends,    *)
(* also one whose connection was accepted too late for it to be closed.      *)
StopReachesAll == stopper.at = "drain" ~> AllExited

(* "The slot is returned by session.Close, which every exit path below       *)
(* already calls exactly once": a session that is still open can be reached  *)
(* through the table, or some goroutine is about to close or serve it.       *)
NoOrphan ==
  mode = "plain" => \A i \in Ids : Active(i) =>
    \/ \E k \in Keys : table[k] = i
    \/ \E a \in {reader, sweeper, stopper} : a.sess = i
=============================================================================
