---------------------------- MODULE QuicServer ----------------------------
(***************************************************************************)
(* The QUIC server (internal/transport/quic/server.go) and its sessions      *)
(* (session.go): per connection a goroutine that accepts streams, one        *)
(* goroutine per stream, and a write loop fed by a bounded queue.  Stop      *)
(* cancels stopCtx, which ends the accept loops; Drain waits for every       *)
(* goroutine or its deadline, then CloseSessions ranges over what is left.   *)
(***************************************************************************)
EXTENDS Integers, FiniteSets

CONSTANTS
  QConns, MaxQConns,
  QueueSize,      \* Options.WriteQueueSize
  MaxStreams,     \* bound: streams of a connection
  MaxSends        \* bound: Send calls of a connection

ASSUME QuicAssumption == IsFiniteSet(QConns) /\ MaxQConns \in Nat /\ QueueSize \in Nat /\ MaxStreams \in Nat

VARIABLES
  qPc,             \* handleConn of each connection
  qTable, qRegistered, qLive, qSlots, qAccepted, qOnClosed,
  streams,        \* handleStream goroutines of each connection
  opened,         \* streams accepted so far
  queue, sent,    \* payloads in writeCh; Send calls that succeeded
  writer,         \* writeLoop: "off", "idle", "write" or "out"
  qStopPc, drained

quicVars == <<qPc, qTable, qRegistered, qLive, qSlots, qAccepted, qOnClosed, streams, opened, queue, sent, writer, qStopPc, drained>>
conn == <<qTable, qRegistered, qLive, qSlots, qAccepted, qOnClosed>>
data == <<queue, sent, writer>>
strm == <<streams, opened>>
stop == <<qStopPc, drained>>

QuicTypeOK ==
  /\ qPc \in [QConns -> {"new", "store", "register", "onAccept", "serve", "discard", "close", "done", "end"}]
  /\ UNION {qTable, qRegistered, qLive, qAccepted} \subseteq QConns
  /\ qSlots \in 0..MaxQConns /\ qOnClosed \in [QConns -> Nat]
  /\ streams \in [QConns -> 0..MaxStreams] /\ queue \in [QConns -> 0..QueueSize]
  /\ writer \in [QConns -> {"off", "idle", "write", "out"}]
  /\ qStopPc \in {"run", "drain", "close", "stopped"} /\ drained \in BOOLEAN

QuicInit ==
  LET zero == [c \in QConns |-> 0] IN
  /\ qPc = [c \in QConns |-> "new"] /\ qTable = {} /\ qRegistered = {} /\ qLive = {} /\ qAccepted = {} /\ qSlots = 0
  /\ qOnClosed = zero /\ streams = zero /\ opened = zero /\ queue = zero /\ sent = zero
  /\ writer = [c \in QConns |-> "off"] /\ qStopPc = "run" /\ drained = FALSE

Go(c, from, to) == qPc[c] = from /\ qPc' = [qPc EXCEPT ![c] = to]

(* acceptLoop: TryAccept or CloseWithError("server busy"). *)
QuicAccept(c) ==
  /\ qStopPc = "run"
  /\ \/ qSlots < MaxQConns /\ Go(c, "new", "store") /\ qSlots' = qSlots + 1
     \/ qSlots >= MaxQConns /\ Go(c, "new", "end") /\ UNCHANGED qSlots
  /\ UNCHANGED <<qTable, qRegistered, qLive, qAccepted, qOnClosed, strm, data, stop>>

(* handleConn up to its accept loop. *)
Store(c) ==
  /\ Go(c, "store", "register") /\ qTable' = qTable \cup {c} /\ qLive' = qLive \cup {c}
  /\ UNCHANGED <<qRegistered, qSlots, qAccepted, qOnClosed, strm, data, stop>>

QuicRegister(c) ==
  /\ \/ Go(c, "register", "onAccept") /\ qRegistered' = qRegistered \cup {c}
     \/ Go(c, "register", "discard") /\ UNCHANGED qRegistered
  /\ UNCHANGED <<qTable, qLive, qSlots, qAccepted, qOnClosed, strm, data, stop>>

QuicOnAccept(c) ==
  /\ \/ Go(c, "onAccept", "serve") /\ qAccepted' = qAccepted \cup {c} /\ writer' = [writer EXCEPT ![c] = "idle"]
     \/ Go(c, "onAccept", "discard") /\ UNCHANGED <<qAccepted, writer>>
  /\ UNCHANGED <<qTable, qRegistered, qLive, qSlots, qOnClosed, strm, queue, sent, stop>>

(* discardSession *)
Discard(c) ==
  /\ Go(c, "discard", "done")
  /\ qTable' = qTable \ {c}
  /\ qRegistered' = (IF c \in qTable THEN qRegistered \ {c} ELSE qRegistered)
  /\ qLive' = (IF c \in qTable THEN qLive \ {c} ELSE qLive)
  /\ UNCHANGED <<qSlots, qAccepted, qOnClosed, strm, data, stop>>

(* AcceptStream gives a stream and handleStream runs for it, *)
AcceptStream(c) ==
  /\ qPc[c] = "serve" /\ c \in qLive /\ qStopPc = "run" /\ opened[c] < MaxStreams
  /\ streams' = [streams EXCEPT ![c] = @ + 1] /\ opened' = [opened EXCEPT ![c] = @ + 1]
  /\ UNCHANGED <<qPc, conn, data, stop>>

(* until the message was handled, refused, too long or late.                 *)
StreamEnds(c) ==
  /\ streams[c] > 0 /\ streams' = [streams EXCEPT ![c] = @ - 1]
  /\ UNCHANGED <<qPc, conn, opened, data, stop>>

(* AcceptStream fails: the peer is gone, the connection was closed, or       *)
(* stopCtx is done.                                                          *)
ServeEnds(c) ==
  /\ Go(c, "serve", "close")
  /\ UNCHANGED <<conn, strm, data, stop>>

(* Mutation of CloseSession: everybody who calls it goes through. *)
CloseSessionEach(c) ==
  /\ qTable' = qTable \ {c} /\ qRegistered' = qRegistered \ {c} /\ qLive' = qLive \ {c}
  /\ qOnClosed' = [qOnClosed EXCEPT ![c] = @ + 1]

(* closeSession: only the caller that removes the entry goes on. *)
CloseSession(c) ==
  IF c \in qTable
  THEN /\ qTable' = qTable \ {c} /\ qRegistered' = qRegistered \ {c} /\ qLive' = qLive \ {c}
       /\ qOnClosed' = [qOnClosed EXCEPT ![c] = @ + 1]
  ELSE UNCHANGED <<qTable, qRegistered, qLive, qOnClosed>>

Close(c) ==
  /\ Go(c, "close", "done") /\ CloseSession(c)
  /\ UNCHANGED <<qSlots, qAccepted, strm, data, stop>>

(* The deferred acceptor.Done of the connection's goroutine. *)
Done(c) ==
  /\ Go(c, "done", "end") /\ qSlots' = qSlots - 1
  /\ UNCHANGED <<qTable, qRegistered, qLive, qAccepted, qOnClosed, strm, data, stop>>

-----------------------------------------------------------------------------
(* session.Send from a handler or the application; a full queue refuses. *)
Send(c) ==
  /\ c \in qLive /\ c \in qAccepted /\ sent[c] < MaxSends /\ queue[c] < QueueSize
  /\ queue' = [queue EXCEPT ![c] = @ + 1] /\ sent' = [sent EXCEPT ![c] = @ + 1]
  /\ UNCHANGED <<qPc, conn, strm, writer, stop>>

(* writeLoop takes a payload and opens a stream for it, *)
Dequeue(c) ==
  /\ writer[c] = "idle" /\ queue[c] > 0
  /\ queue' = [queue EXCEPT ![c] = @ - 1] /\ writer' = [writer EXCEPT ![c] = "write"]
  /\ UNCHANGED <<qPc, conn, strm, sent, stop>>

(* writes all of it in as many Write calls as that takes, or fails: no       *)
(* stream before the session's end, a write error or its deadline.           *)
Write(c) ==
  /\ writer[c] = "write"
  /\ writer' \in {[writer EXCEPT ![c] = r] : r \in {"out"} \cup (IF c \in qLive THEN {"idle"} ELSE {})}
  /\ UNCHANGED <<qPc, conn, strm, queue, sent, stop>>

WriterEnds(c) ==
  /\ writer[c] = "idle" /\ c \notin qLive /\ writer' = [writer EXCEPT ![c] = "out"]
  /\ UNCHANGED <<qPc, conn, strm, queue, sent, stop>>

-----------------------------------------------------------------------------
QuicStopAccept ==
  /\ qStopPc = "run" /\ qStopPc' = "drain"
  /\ UNCHANGED <<qPc, conn, strm, data, drained>>

Quiet == \A c \in QConns : qPc[c] \in {"new", "end"} /\ streams[c] = 0 /\ writer[c] \in {"off", "out"}

(* Drain: all goroutines ended, or the stage's deadline passed. *)
QuicDrain ==
  /\ qStopPc = "drain" /\ qStopPc' = "close"
  /\ drained' = Quiet
  /\ UNCHANGED <<qPc, conn, strm, data>>

(* CloseSessions closes what the table holds, one after the other. *)
QuicCloseSessions ==
  /\ qStopPc = "close"
  /\ \/ qTable = {} /\ qStopPc' = "stopped" /\ UNCHANGED <<qTable, qRegistered, qLive, qOnClosed>>
     \/ \E c \in qTable : CloseSession(c) /\ UNCHANGED qStopPc
  /\ UNCHANGED <<qPc, qSlots, qAccepted, strm, data, drained>>

QuicConnStep(c) == Store(c) \/ QuicRegister(c) \/ QuicOnAccept(c) \/ Discard(c) \/ Close(c) \/ Done(c)
WriteStep(c) == Dequeue(c) \/ Write(c) \/ WriterEnds(c)

QuicNext ==
  \/ \E c \in QConns : \/ QuicAccept(c) \/ QuicConnStep(c) \/ AcceptStream(c) \/ StreamEnds(c) \/ ServeEnds(c)
                      \/ Send(c) \/ WriteStep(c)
  \/ QuicStopAccept \/ QuicDrain \/ QuicCloseSessions
  \/ qStopPc = "stopped" /\ UNCHANGED quicVars

(* Goroutines run; AcceptStream returns when stopCtx is done or the session  *)
(* closed; ReadTimeout and the handlers' own end bound a stream; WriteTimeout *)
(* bounds a write.                                                           *)
QuicFairness ==
  /\ \A c \in QConns : /\ WF_quicVars(QuicConnStep(c)) /\ WF_quicVars(WriteStep(c)) /\ WF_quicVars(StreamEnds(c))
                      /\ WF_quicVars((qStopPc # "run" \/ c \notin qLive) /\ ServeEnds(c))

QuicSpec == QuicInit /\ [][QuicNext]_quicVars /\ QuicFairness

-----------------------------------------------------------------------------
(* A Drain that was not cut short leaves nothing for CloseSessions: no       *)
(* session in the table or registered, no slot taken, and every accepted     *)
(* session closed exactly once, never twice even when Drain is cut short.    *)
LeftClean ==
  /\ \A c \in QConns : qOnClosed[c] <= 1
  /\ drained /\ qStopPc # "run" =>
       /\ qTable = {} /\ qRegistered = {} /\ qSlots = 0
       /\ \A c \in QConns : qOnClosed[c] = IF c \in qAccepted THEN 1 ELSE 0

(* handleConn, closeSession, Drain: that, with every counter and queue       *)
(* within its limit.                                                         *)
DrainedClean == QuicTypeOK /\ LeftClean

(* Every goroutine that the server started has ended some time after         *)
(* StopAccept, without CloseSessions: Drain's wait is finite.                *)
DrainEnds == qStopPc = "drain" ~> Quiet
=============================================================================
