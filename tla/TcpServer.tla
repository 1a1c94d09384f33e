----------------------------- MODULE TcpServer -----------------------------
(***************************************************************************)
(* The TCP server (internal/transport/tcp/server.go): the accept loop with  *)
(* its error backoff (shared/backoff.go, accept_error.go) on a listener that *)
(* may wait for a PROXY header (shared/proxyproto.go), one goroutine and one *)
(* write loop per connection, and the three stages of Stop, each of which    *)
(* has its own deadline (runtime/gateway.go).                                *)
(***************************************************************************)
EXTENDS Integers, FiniteSets

CONSTANTS
  Conns,        \* connections peers open
  None,
  MaxConns,     \* Options.MaxConnections
  MinDelay, MaxDelay,   \* DefaultBackoffMin, DefaultBackoffMax
  MaxErrors     \* bound: accept errors in a row

ASSUME ConnsAssumption == IsFiniteSet(Conns) /\ MaxConns \in Nat

VARIABLES
  proxy,        \* whether the listener waits for a PROXY header
  closed,       \* Server.closed, and the listener with it
  runDone,      \* the context of Start
  acceptPc,     \* the accept loop: "accept", "proxy", "backoff", "exited"
  waiting,      \* the connection in the PROXY handshake
  errs, delay, reported,   \* errors in a row, Backoff.delay, the log's flag
  slots,        \* connections the acceptor admitted
  connWG,       \* the wait group
  table,        \* Server.sessions
  registered,   \* the session manager
  pc,           \* each connection's goroutine
  live,         \* sessions that are active
  writers,      \* running write loops
  accepted,     \* OnAccept returned nil
  onClosed,     \* OnClose was called
  stopPc,       \* the stages of Stop
  left,         \* sessions CloseSessions still has to close
  late          \* stages that ended at their deadline

vars == <<proxy, closed, runDone, acceptPc, waiting, errs, delay, reported, slots, connWG,
          table, registered, pc, live, writers, accepted, onClosed, stopPc, left, late>>
acceptVars == <<acceptPc, waiting, errs, delay, reported>>
connVars == <<slots, connWG, table, registered, pc, live, writers, accepted, onClosed>>
stopVars == <<closed, stopPc, left, late>>

InGoroutine == {"handshake", "register", "onAccept", "serving", "delete", "unregister", "onClose", "release", "done"}

TypeOK ==
  /\ acceptPc \in {"accept", "proxy", "backoff", "exited"} /\ waiting \in Conns \cup {None}
  /\ slots \in 0..MaxConns /\ connWG \in 0..(2 * Cardinality(Conns))
  /\ pc \in [Conns -> InGoroutine \cup {"new", "refused", "ended"}]
  /\ UNION {table, registered, live, writers, accepted, onClosed, left} \subseteq Conns
  /\ stopPc \in {"run", "drain", "close", "wait", "pool", "stopped"}
  /\ late \subseteq {"drain", "close"}

(* Start: listen, wrap, build the pool, start the loop. *)
Init ==
  /\ proxy \in BOOLEAN /\ closed = FALSE /\ runDone = FALSE
  /\ acceptPc = "accept" /\ waiting = None
  /\ errs = 0 /\ delay = 0 /\ reported = FALSE
  /\ slots = 0 /\ connWG = 0
  /\ table = {} /\ registered = {} /\ live = {} /\ writers = {} /\ accepted = {} /\ onClosed = {}
  /\ pc = [c \in Conns |-> "new"]
  /\ stopPc = "run" /\ left = {} /\ late = {}

-----------------------------------------------------------------------------
(* Mutation of Grow: the cap is left out. *)
GrowUncapped(d) == IF d <= 0 THEN MinDelay ELSE 2 * d

(* Backoff.Wait: the delay this call uses. *)
Grow(d) == IF d <= 0 THEN MinDelay ELSE IF 2 * d > MaxDelay THEN MaxDelay ELSE 2 * d

(* The loop after a good Accept: reset, TryAccept, and the goroutine, which  *)
(* is counted before it starts.                                              *)
Admit(c) ==
  /\ errs' = 0 /\ delay' = 0 /\ reported' = FALSE
  /\ acceptPc' = "accept" /\ waiting' = None
  /\ IF slots < MaxConns
       THEN slots' = slots + 1 /\ connWG' = connWG + 1 /\ pc' = [pc EXCEPT ![c] = "handshake"]
       ELSE pc' = [pc EXCEPT ![c] = "refused"] /\ UNCHANGED <<slots, connWG>>

(* Listener.Accept gives a connection.  proxyListener reads the header in    *)
(* the same goroutine, and closing the listener does not interrupt it.       *)
Accept(c) ==
  /\ acceptPc = "accept" /\ ~closed /\ pc[c] = "new"
  /\ IF proxy THEN acceptPc' = "proxy" /\ waiting' = c /\ UNCHANGED <<errs, delay, reported, slots, connWG, pc>>
     ELSE Admit(c)
  /\ UNCHANGED <<proxy, runDone, table, registered, live, writers, accepted, onClosed, stopVars>>

(* The header came: Accept returns the connection, and the loop does not     *)
(* look whether the server was closed meanwhile.                             *)
ProxyHeader ==
  /\ acceptPc = "proxy" /\ Admit(waiting)
  /\ UNCHANGED <<proxy, runDone, table, registered, live, writers, accepted, onClosed, stopVars>>

(* No good header until the deadline: closed and skipped. *)
ProxyReject ==
  /\ acceptPc = "proxy"
  /\ acceptPc' = "accept" /\ waiting' = None /\ pc' = [pc EXCEPT ![waiting] = "refused"]
  /\ UNCHANGED <<proxy, runDone, errs, delay, reported, slots, connWG, table, registered, live,
                 writers, accepted, onClosed, stopVars>>

(* Accept fails while the server runs: count, report the first, back off. *)
AcceptFails ==
  /\ acceptPc = "accept" /\ ~closed /\ errs < MaxErrors
  /\ IF runDone THEN acceptPc' = "exited" /\ UNCHANGED <<errs, delay, reported>>
     ELSE acceptPc' = "backoff" /\ errs' = errs + 1 /\ delay' = Grow(delay) /\ reported' = TRUE
  /\ UNCHANGED <<proxy, runDone, waiting, connVars, stopVars>>

(* Accept on the closed listener. *)
AcceptClosed ==
  /\ acceptPc = "accept" /\ closed /\ acceptPc' = "exited"
  /\ UNCHANGED <<proxy, runDone, waiting, errs, delay, reported, connVars, stopVars>>

(* The backoff's timer, or the end of the context. *)
BackoffOver ==
  /\ acceptPc = "backoff"
  /\ acceptPc' \in (IF runDone THEN {"accept", "exited"} ELSE {"accept"})
  /\ UNCHANGED <<proxy, runDone, waiting, errs, delay, reported, connVars, stopVars>>

RunCancelled ==
  /\ ~runDone /\ runDone' = TRUE
  /\ UNCHANGED <<proxy, acceptVars, connVars, stopVars>>

-----------------------------------------------------------------------------
Step(c, from, to) == pc[c] = from /\ pc' = [pc EXCEPT ![c] = to]
ConnUnchanged == UNCHANGED <<proxy, runDone, acceptVars, stopVars>>

(* handshakeTLS under its deadline, then the session and its table entry. *)
Handshake(c) ==
  /\ \/ Step(c, "handshake", "register") /\ table' = table \cup {c} /\ live' = live \cup {c}
     \/ Step(c, "handshake", "release") /\ UNCHANGED <<table, live>>
  /\ UNCHANGED <<slots, connWG, registered, writers, accepted, onClosed>> /\ ConnUnchanged

(* Sessions().Register, refused for a full manager. *)
Register(c) ==
  /\ \/ Step(c, "register", "onAccept") /\ registered' = registered \cup {c} /\ UNCHANGED live
     \/ Step(c, "register", "delete") /\ live' = live \ {c} /\ UNCHANGED registered
  /\ UNCHANGED <<slots, connWG, table, writers, accepted, onClosed>> /\ ConnUnchanged

(* Plugins().OnAccept, then the write loop and the read loop. *)
OnAccept(c) ==
  /\ \/ /\ Step(c, "onAccept", "serving") /\ accepted' = accepted \cup {c}
        /\ writers' = writers \cup {c} /\ connWG' = connWG + 1 /\ UNCHANGED live
     \/ Step(c, "onAccept", "delete") /\ live' = live \ {c} /\ UNCHANGED <<accepted, writers, connWG>>
  /\ UNCHANGED <<slots, table, registered, onClosed>> /\ ConnUnchanged

(* The read loop ends: the peer left, was silent for ReadTimeout, or the     *)
(* session was closed.  It closes the session on its way out.                *)
ReadEnds(c) ==
  /\ Step(c, "serving", "delete") /\ live' = live \ {c}
  /\ UNCHANGED <<slots, connWG, table, registered, writers, accepted, onClosed>> /\ ConnUnchanged

(* The write loop ends, on an error or with the session. *)
WriteEnds(c) ==
  /\ c \in writers
  /\ writers' = writers \ {c} /\ live' = live \ {c} /\ connWG' = connWG - 1
  /\ UNCHANGED <<slots, table, registered, pc, accepted, onClosed>> /\ ConnUnchanged

(* A plugin, a handler or the session manager closes the session. *)
CloseDirect(c) ==
  /\ c \in live /\ live' = live \ {c}
  /\ UNCHANGED <<slots, connWG, table, registered, pc, writers, accepted, onClosed>> /\ ConnUnchanged

(* handleConn's deferred function. *)
Cleanup(c) ==
  /\ \/ Step(c, "delete", "unregister") /\ table' = table \ {c} /\ UNCHANGED <<registered, onClosed>>
     \/ Step(c, "unregister", "onClose") /\ registered' = registered \ {c} /\ UNCHANGED <<table, onClosed>>
     \/ /\ Step(c, "onClose", "release") /\ UNCHANGED <<table, registered>>
        /\ onClosed' = IF c \in accepted THEN onClosed \cup {c} ELSE onClosed
  /\ UNCHANGED <<slots, connWG, live, writers, accepted>> /\ ConnUnchanged

(* The goroutine's deferred Done calls, the acceptor's first. *)
Release(c) ==
  /\ \/ Step(c, "release", "done") /\ slots' = slots - 1 /\ UNCHANGED connWG
     \/ Step(c, "done", "ended") /\ connWG' = connWG - 1 /\ UNCHANGED slots
  /\ UNCHANGED <<table, registered, live, writers, accepted, onClosed>> /\ ConnUnchanged

-----------------------------------------------------------------------------
StopStep(from, to) == stopPc = from /\ stopPc' = to
StopUnchanged == UNCHANGED <<proxy, runDone, acceptVars, slots, connWG, table, registered, pc, writers, accepted, onClosed>>

StopAccept == StopStep("run", "drain") /\ closed' = TRUE /\ UNCHANGED <<left, late, live>> /\ StopUnchanged

(* Drain: the accept loop has returned, or the stage's deadline passed. *)
Drain ==
  /\ StopStep("drain", "close")
  /\ late' = IF acceptPc = "exited" THEN late ELSE late \cup {"drain"}
  /\ left' = table
  /\ UNCHANGED <<closed, live>> /\ StopUnchanged

(* Mutation of CloseOne: the Range drops the entries and closes nothing. *)
CloseSkips ==
  /\ stopPc = "close"
  /\ IF left = {} THEN stopPc' = "wait" /\ UNCHANGED <<left, live>>
     ELSE \E c \in left : left' = left \ {c} /\ UNCHANGED <<stopPc, live>>
  /\ UNCHANGED <<closed, late>> /\ StopUnchanged

(* CloseSessions: the Range, *)
CloseOne ==
  /\ stopPc = "close"
  /\ IF left = {} THEN stopPc' = "wait" /\ UNCHANGED <<left, live>>
     ELSE \E c \in left : left' = left \ {c} /\ live' = live \ {c} /\ UNCHANGED stopPc
  /\ UNCHANGED <<closed, late>> /\ StopUnchanged

(* Mutation of WaitConns: the pool is stopped without waiting. *)
WaitNothing == StopStep("wait", "pool") /\ UNCHANGED <<late, closed, left, live>> /\ StopUnchanged

(* the wait for the connections' goroutines, *)
WaitConns ==
  /\ StopStep("wait", "pool")
  /\ late' = IF connWG = 0 THEN late ELSE late \cup {"close"}
  /\ UNCHANGED <<closed, left, live>> /\ StopUnchanged

(* and pool.Stop. *)
PoolStop == StopStep("pool", "stopped") /\ UNCHANGED <<closed, left, late, live>> /\ StopUnchanged

ConnStep(c) == Register(c) \/ OnAccept(c) \/ Cleanup(c) \/ Release(c)
Closed(c) == c \notin live /\ (ReadEnds(c) \/ WriteEnds(c))
StopNext == Drain \/ CloseOne \/ WaitConns \/ PoolStop

Next ==
  \/ \E c \in Conns : Accept(c) \/ Handshake(c) \/ ConnStep(c) \/ ReadEnds(c) \/ WriteEnds(c) \/ CloseDirect(c)
  \/ ProxyHeader \/ ProxyReject \/ AcceptFails \/ AcceptClosed \/ BackoffOver \/ RunCancelled
  \/ StopAccept \/ StopNext
  \/ stopPc = "stopped" /\ UNCHANGED vars

(* The goroutines run; the handshake and the header have deadlines; peers    *)
(* owe nothing, and nobody has to call Stop.                                 *)
Fairness ==
  /\ \A c \in Conns : WF_vars(Handshake(c)) /\ WF_vars(ConnStep(c)) /\ WF_vars(Closed(c))
  /\ WF_vars(ProxyReject) /\ WF_vars(AcceptClosed) /\ WF_vars(BackoffOver) /\ WF_vars(StopNext)

Spec == Init /\ [][Next]_vars /\ Fairness

-----------------------------------------------------------------------------
(* OnClose is called for exactly the sessions OnAccept took, after they left *)
(* the table and the manager, and an ended goroutine leaves nothing behind:  *)
(* no slot, no entry, no live session (handleConn's defer).                  *)
NothingLeft ==
  /\ onClosed \subseteq accepted \ (table \cup registered)
  /\ \A c \in Conns : pc[c] = "ended" => c \notin table \cup registered \cup live /\ (c \in accepted => c \in onClosed)
  /\ slots = Cardinality({c \in Conns : pc[c] \in InGoroutine \ {"done"}})

(* When no stage of Stop ran into its deadline, nothing of the server is     *)
(* left once the pool stops: every goroutine has ended and every session is  *)
(* out of the manager, so no task reaches a stopped pool.                    *)
StopIsClean ==
  stopPc \in {"pool", "stopped"} /\ late = {} =>
    /\ acceptPc = "exited" /\ connWG = 0 /\ writers = {} /\ table = {} /\ registered = {} /\ live = {}
    /\ \A c \in Conns : pc[c] \in {"new", "refused", "ended"}

(* The server as handleConn's clean-up and the stages of Stop promise it.    *)
TcpLeavesNothing == TypeOK /\ NothingLeft /\ StopIsClean

(* The accept loop's n-th error in a row waits min(MaxDelay, MinDelay *      *)
(* 2^(n-1)) and one good connection starts over; the streak is logged once.  *)
BackoffFollows ==
  /\ delay = IF errs = 0 THEN 0 ELSE
             LET d == MinDelay * 2 ^ (errs - 1) IN IF d > MaxDelay THEN MaxDelay ELSE d
  /\ reported <=> errs > 0

(* The sessions CloseSessions found are really gone some time later, and     *)
(* Stop has returned: their goroutines and write loops end although their    *)
(* peers never say another word.                                             *)
StopEndsSessions ==
  \A c \in Conns :
    stopPc = "close" /\ c \in left ~> stopPc = "stopped" /\ pc[c] = "ended" /\ c \notin writers
=============================================================================
