----------------------------- MODULE TcpSession -----------------------------
(***************************************************************************)
(* The write side of a TCP session (internal/transport/tcp/session.go) with *)
(* the reference-counted frames a broadcast shares between sessions         *)
(* (internal/core/frame.go, SessionManager.Broadcast when every session can *)
(* share).                                                                  *)
(*                                                                          *)
(* Goroutines: the broadcasters and the callers of Send, one write loop per *)
(* session, and whoever closes a session: the read loop, a failing handler, *)
(* server shutdown or the write loop itself.  closeOnce makes the first of  *)
(* them run Close and the others wait, so Close is one activity per session.*)
(*                                                                          *)
(* A message is a model value.  The kernel accepts bytes until the conn is  *)
(* closed or the peer fails, and then every write fails.                    *)
(***************************************************************************)
EXTENDS Integers, Sequences, FiniteSets

CONSTANTS
  Conns,          \* the sessions, one TCP connection each
  Casts,          \* broadcast messages: each travels as one SharedFrame
  Unicasts,       \* messages sent with Send
  Target,         \* Target[u] is the session Send is called on
  WriteQueue,     \* cap(writeCh)
  HighWaterPct,   \* writeQueueHighWater in percent, 0 when disabled
  Configs,        \* the configurations to consider: is a write timeout set,
                  \* is WriteBufferBytes set
  None            \* no message, no session

Msgs == Casts \cup Unicasts

ASSUME MsgsAssumption == Casts \cap Unicasts = {} /\ None \notin Msgs \cup Conns
ASSUME ConnsAssumption == IsFiniteSet(Conns) /\ Cardinality(Conns) > 1
ASSUME TargetAssumption == Target \in [Unicasts -> Conns]
ASSUME QueueAssumption == WriteQueue \in Nat \ {0} /\ HighWaterPct \in 0..100
ASSUME ConfigAssumption == Configs \subseteq [timeout : BOOLEAN, buffer : BOOLEAN]

VARIABLES
  config,    \* the configuration, fixed when the session is made
  refs,      \* refs[m]: the reference count of cast m's frame
  todo,      \* todo[m]: the sessions message m has still to be sent to
  at,        \* at[m]: where the sender of m is inside Send / SendShared
  to,        \* to[m]: the session it is sending to
  cpc,       \* cpc[s]: progress of Close
  writeCh,   \* writeCh[s]: the write queue
  wpc,       \* wpc[s]: where the write loop is
  whand,     \* whand[s]: the entry the write loop has taken
  wbuf,      \* wbuf[s]: written into the bufio.Writer, not flushed
  sent,      \* sent[s]: everything enqueue accepted, in order
  wire       \* wire[s]: everything the kernel accepted, in order

sendVars == <<todo, at, to>>
loopVars == <<wpc, whand, wbuf, wire>>
sessionVars == <<config, refs, sendVars, cpc, writeCh, loopVars, sent>>

SendStates == {"idle", "state", "precheck", "water", "select", "done"}
CloseStates == {"open", "cancel", "drain", "conn", "closed"}
LoopStates == {"select", "deadline", "write", "more", "recv", "flush", "exit", "gone"}

SessionTypeOK ==
  /\ config \in Configs
  /\ refs \in [Casts -> Int]
  /\ todo \in [Msgs -> SUBSET Conns]
  /\ at \in [Msgs -> SendStates]
  /\ to \in [Msgs -> Conns \cup {None}]
  /\ cpc \in [Conns -> CloseStates]
  /\ writeCh \in [Conns -> Seq(Msgs)]
  /\ \A s \in Conns : Len(writeCh[s]) <= WriteQueue
  /\ wpc \in [Conns -> LoopStates]
  /\ whand \in [Conns -> Msgs \cup {None}]
  /\ wbuf \in [Conns -> Seq(Msgs)]
  /\ sent \in [Conns -> Seq(Msgs)]
  /\ wire \in [Conns -> Seq(Msgs)]

SessionInit ==
  /\ config \in Configs
  /\ refs = [m \in Casts |-> 0]
  /\ todo = [m \in Msgs |-> IF m \in Casts THEN Conns ELSE {Target[m]}]
  /\ at = [m \in Msgs |-> "idle"]
  /\ to = [m \in Msgs |-> None]
  /\ cpc = [s \in Conns |-> "open"]
  /\ writeCh = [s \in Conns |-> <<>>]
  /\ wpc = [s \in Conns |-> "select"]
  /\ whand = [s \in Conns |-> None]
  /\ wbuf = [s \in Conns |-> <<>>]
  /\ sent = [s \in Conns |-> <<>>]
  /\ wire = [s \in Conns |-> <<>>]

StateActive(s) == cpc[s] = "open"
CtxDone(s) == cpc[s] \in {"drain", "conn", "closed"}
ConnClosed(s) == cpc[s] = "closed"

-----------------------------------------------------------------------------
(* Release drops one reference of a cast; a Send entry carries no frame. *)
Release(m) == refs' = IF m \in Casts THEN [refs EXCEPT ![m] = @ - 1] ELSE refs

(* Broadcast: one frame, with a reference for every session of the snapshot. *)
Broadcast(m) ==
  /\ m \in Casts
  /\ at[m] = "idle"
  /\ refs' = [refs EXCEPT ![m] = Cardinality(Conns)]
  /\ at' = [at EXCEPT ![m] = "state"]
  /\ UNCHANGED <<config, todo, to, cpc, writeCh, loopVars, sent>>

(* A Send call begins. *)
Send(m) ==
  /\ m \in Unicasts
  /\ at[m] = "idle"
  /\ at' = [at EXCEPT ![m] = "state"]
  /\ UNCHANGED <<config, refs, todo, to, cpc, writeCh, loopVars, sent>>

(* One call is over: on to the next session of a broadcast, or done. *)
CallReturns(m) ==
  /\ at' = [at EXCEPT ![m] = IF todo[m] = {to[m]} THEN "done" ELSE "state"]
  /\ todo' = [todo EXCEPT ![m] = @ \ {to[m]}]
  /\ to' = [to EXCEPT ![m] = None]

(* A failed SendShared leaves the reference with Broadcast, which drops it. *)
CallFails(m) == Release(m) /\ CallReturns(m)

(* The State check, on the next session in the snapshot's order. *)
CheckState(m) ==
  /\ at[m] = "state"
  /\ \E s \in todo[m] :
       IF StateActive(s)
         THEN /\ to' = [to EXCEPT ![m] = s]
              /\ at' = [at EXCEPT ![m] = IF m \in Casts THEN "water" ELSE "precheck"]
              /\ UNCHANGED <<refs, todo>>
         ELSE /\ Release(m)
              /\ at' = [at EXCEPT ![m] = IF todo[m] = {s} THEN "done" ELSE "state"]
              /\ todo' = [todo EXCEPT ![m] = @ \ {s}]
              /\ UNCHANGED to
  /\ UNCHANGED <<config, cpc, writeCh, loopVars, sent>>

(* High-water back-pressure.  Send checks once before it copies, enqueue     *)
(* checks again.                                                             *)
Threshold == LET n == (WriteQueue * HighWaterPct) \div 100
             IN IF n < 1 THEN 1 ELSE n

OverHighWater(s) == HighWaterPct > 0 /\ Len(writeCh[s]) >= Threshold

CheckHighWater(m) ==
  /\ at[m] \in {"precheck", "water"}
  /\ IF OverHighWater(to[m])
       THEN CallFails(m)
       ELSE /\ at' = [at EXCEPT ![m] = IF @ = "precheck" THEN "water" ELSE "select"]
            /\ UNCHANGED <<refs, todo, to>>
  /\ UNCHANGED <<config, cpc, writeCh, loopVars, sent>>

(* enqueue's select: any ready case, default only when neither is. *)
Enqueue(m) ==
  LET s == to[m]
      room == Len(writeCh[s]) < WriteQueue
  IN /\ at[m] = "select"
     /\ \/ /\ room
           /\ writeCh' = [writeCh EXCEPT ![s] = Append(@, m)]
           /\ sent' = [sent EXCEPT ![s] = Append(@, m)]
           /\ CallReturns(m)
           /\ UNCHANGED refs
        \/ /\ CtxDone(s) \/ ~room
           /\ CallFails(m)
           /\ UNCHANGED <<writeCh, sent>>
     /\ UNCHANGED <<config, cpc, loopVars>>

-----------------------------------------------------------------------------
(* Close: mark the state, cancel the context, release what is queued, close *)
(* the conn.                                                                *)
CloseBegin(s) ==
  /\ cpc[s] = "open"
  /\ cpc' = [cpc EXCEPT ![s] = "cancel"]
  /\ UNCHANGED <<config, refs, sendVars, writeCh, loopVars, sent>>

CloseCancel(s) ==
  /\ cpc[s] = "cancel"
  /\ cpc' = [cpc EXCEPT ![s] = "drain"]
  /\ UNCHANGED <<config, refs, sendVars, writeCh, loopVars, sent>>

(* Mutation of ReleaseQueuedFrames: the entries are dropped, not released. *)
ReleaseQueuedFramesNot(s) ==
  /\ cpc[s] = "drain"
  /\ cpc' = [cpc EXCEPT ![s] = "conn"]
  /\ writeCh' = [writeCh EXCEPT ![s] = <<>>]
  /\ UNCHANGED <<config, refs, sendVars, loopVars, sent>>

ReleaseQueuedFrames(s) ==
  /\ cpc[s] = "drain"
  /\ IF writeCh[s] = <<>>
       THEN /\ cpc' = [cpc EXCEPT ![s] = "conn"]
            /\ UNCHANGED <<refs, writeCh>>
       ELSE /\ Release(Head(writeCh[s]))
            /\ writeCh' = [writeCh EXCEPT ![s] = Tail(@)]
            /\ UNCHANGED cpc
  /\ UNCHANGED <<config, sendVars, loopVars, sent>>

CloseConn(s) ==
  /\ cpc[s] = "conn"
  /\ cpc' = [cpc EXCEPT ![s] = "closed"]
  /\ UNCHANGED <<config, refs, sendVars, writeCh, loopVars, sent>>

-----------------------------------------------------------------------------
(* Mutation of LoopTakes: the newest entry first. *)
LoopTakesLast(s) ==
  /\ wpc[s] = "select"
  /\ writeCh[s] # <<>>
  /\ whand' = [whand EXCEPT ![s] = writeCh[s][Len(writeCh[s])]]
  /\ writeCh' = [writeCh EXCEPT ![s] = SubSeq(@, 1, Len(@) - 1)]
  /\ wpc' = [wpc EXCEPT ![s] = "deadline"]
  /\ UNCHANGED <<config, refs, sendVars, cpc, wbuf, sent, wire>>

(* writeLoop's select. *)
LoopTakes(s) ==
  /\ wpc[s] = "select"
  /\ writeCh[s] # <<>>
  /\ whand' = [whand EXCEPT ![s] = Head(writeCh[s])]
  /\ writeCh' = [writeCh EXCEPT ![s] = Tail(@)]
  /\ wpc' = [wpc EXCEPT ![s] = "deadline"]
  /\ UNCHANGED <<config, refs, sendVars, cpc, wbuf, sent, wire>>

(* Mutation of LoopSeesDone: the context is only looked at with an entry queued. *)
LoopSeesDoneBusy(s) ==
  /\ wpc[s] = "select"
  /\ CtxDone(s)
  /\ writeCh[s] # <<>>
  /\ wpc' = [wpc EXCEPT ![s] = "exit"]
  /\ UNCHANGED <<config, refs, sendVars, cpc, writeCh, whand, wbuf, sent, wire>>

LoopSeesDone(s) ==
  /\ wpc[s] = "select"
  /\ CtxDone(s)
  /\ wpc' = [wpc EXCEPT ![s] = "exit"]
  /\ UNCHANGED <<config, refs, sendVars, cpc, writeCh, whand, wbuf, sent, wire>>

(* writeBatch starts: SetWriteDeadline fails on a closed conn, and writeBatch *)
(* returns without having written the entry it was given.                     *)
SetWriteDeadline(s) ==
  /\ wpc[s] = "deadline"
  /\ IF config.timeout /\ ConnClosed(s)
       THEN /\ wpc' = [wpc EXCEPT ![s] = "exit"]
            /\ whand' = [whand EXCEPT ![s] = None]
       ELSE /\ wpc' = [wpc EXCEPT ![s] = "write"]
            /\ UNCHANGED whand
  /\ UNCHANGED <<config, refs, sendVars, cpc, writeCh, wbuf, sent, wire>>

(* writeOne: whatever WriteFrame reports, the frame is released.  An         *)
(* unbuffered write succeeds only on an open conn; a buffered one may also   *)
(* succeed after that, into the buffer.  When the entry does not fit, bufio  *)
(* writes out what it holds before it takes the entry.                       *)
WriteOne(s) ==
  /\ wpc[s] = "write"
  /\ Release(whand[s])
  /\ whand' = [whand EXCEPT ![s] = None]
  /\ \/ /\ ~config.buffer
        /\ ~ConnClosed(s)
        /\ wire' = [wire EXCEPT ![s] = Append(@, whand[s])]
        /\ wpc' = [wpc EXCEPT ![s] = "select"]
        /\ UNCHANGED wbuf
     \/ /\ config.buffer
        /\ wbuf' = [wbuf EXCEPT ![s] = Append(@, whand[s])]
        /\ wpc' = [wpc EXCEPT ![s] = "more"]
        /\ UNCHANGED wire
     \/ /\ config.buffer
        /\ ~ConnClosed(s)
        /\ wbuf[s] # <<>>
        /\ wire' = [wire EXCEPT ![s] = @ \o wbuf[s]]
        /\ wbuf' = [wbuf EXCEPT ![s] = <<whand[s]>>]
        /\ wpc' = [wpc EXCEPT ![s] = "more"]
     \/ /\ wpc' = [wpc EXCEPT ![s] = "exit"]
        /\ UNCHANGED <<wbuf, wire>>
  /\ UNCHANGED <<config, sendVars, cpc, writeCh, sent>>

(* The batch loop looks at len(writeCh) ... *)
BatchMore(s) ==
  /\ wpc[s] = "more"
  /\ wpc' = [wpc EXCEPT ![s] = IF writeCh[s] # <<>> THEN "recv" ELSE "flush"]
  /\ UNCHANGED <<config, refs, sendVars, cpc, writeCh, whand, wbuf, sent, wire>>

(* ... and then receives, with nothing else to wake it. *)
BatchReceive(s) ==
  /\ wpc[s] = "recv"
  /\ writeCh[s] # <<>>
  /\ whand' = [whand EXCEPT ![s] = Head(writeCh[s])]
  /\ writeCh' = [writeCh EXCEPT ![s] = Tail(@)]
  /\ wpc' = [wpc EXCEPT ![s] = "write"]
  /\ UNCHANGED <<config, refs, sendVars, cpc, wbuf, sent, wire>>

Flush(s) ==
  /\ wpc[s] = "flush"
  /\ \/ /\ ~ConnClosed(s)
        /\ wire' = [wire EXCEPT ![s] = @ \o wbuf[s]]
        /\ wbuf' = [wbuf EXCEPT ![s] = <<>>]
        /\ wpc' = [wpc EXCEPT ![s] = "select"]
     \/ /\ wpc' = [wpc EXCEPT ![s] = "exit"]
        /\ UNCHANGED <<wbuf, wire>>
  /\ UNCHANGED <<config, refs, sendVars, cpc, writeCh, whand, sent>>

(* writeLoop's deferred Close: it runs Close, or waits for the one running. *)
LoopCloses(s) ==
  /\ wpc[s] = "exit"
  /\ CloseBegin(s)

LoopGone(s) ==
  /\ wpc[s] = "exit"
  /\ cpc[s] = "closed"
  /\ wpc' = [wpc EXCEPT ![s] = "gone"]
  /\ UNCHANGED <<config, refs, sendVars, cpc, writeCh, whand, wbuf, sent, wire>>

-----------------------------------------------------------------------------
SendStep(m) ==
  \/ Broadcast(m)
  \/ Send(m)
  \/ CheckState(m)
  \/ CheckHighWater(m)
  \/ Enqueue(m)

CloseStep(s) == CloseCancel(s) \/ ReleaseQueuedFrames(s) \/ CloseConn(s)

WriteLoop(s) ==
  \/ LoopTakes(s)
  \/ LoopSeesDone(s)
  \/ SetWriteDeadline(s)
  \/ WriteOne(s)
  \/ BatchMore(s)
  \/ BatchReceive(s)
  \/ Flush(s)
  \/ LoopCloses(s)
  \/ LoopGone(s)

(* Every send is over and every session is closed: nothing is left to run.  *)
Quiescent ==
  /\ \A m \in Msgs : at[m] = "done"
  /\ \A s \in Conns : cpc[s] = "closed" /\ wpc[s] = "gone"

SessionsOver == Quiescent /\ UNCHANGED sessionVars

SessionNext ==
  \/ \E m \in Msgs : SendStep(m)
  \/ \E s \in Conns : CloseBegin(s) \/ CloseStep(s) \/ WriteLoop(s)
  \/ SessionsOver

SessionSpec == SessionInit /\ [][SessionNext]_sessionVars

(* Goroutines run, but a write to a peer that does not read ends only with   *)
(* its deadline or with the conn.  Nobody has to close a session or to send. *)
SessionFairness ==
  /\ \A m \in Msgs : WF_sessionVars(SendStep(m) /\ at[m] # "idle")
  /\ \A s \in Conns :
       /\ WF_sessionVars(CloseStep(s))
       /\ WF_sessionVars(WriteLoop(s) /\ (wpc[s] \in {"write", "flush"} =>
                                   config.timeout \/ ConnClosed(s)))

FairSessions == SessionSpec /\ SessionFairness

-----------------------------------------------------------------------------
(* Who still holds a reference to cast m: the sessions the broadcast has not *)
(* reached or is sending to, the queues it waits in, and the write loops     *)
(* that are writing it.                                                      *)
Unsent(m) == IF at[m] = "idle" THEN {} ELSE todo[m]
QueuedIn(m) == {s \in Conns : \E i \in 1..Len(writeCh[s]) : writeCh[s][i] = m}
WritingIn(m) == {s \in Conns : whand[s] = m}
Holders(m) ==
  Cardinality(Unsent(m)) + Cardinality(QueuedIn(m)) + Cardinality(WritingIn(m))

(* A frame is never released while somebody may still write it: the count    *)
(* covers every holder, so it cannot reach zero early or go negative.        *)
NeverReleasedEarly == \A m \in Casts : refs[m] >= Holders(m)

(* Without a write timeout the count is exact: a reference nobody holds has  *)
(* been released, whoever raced Close.                                       *)
RefsExact == ~config.timeout => \A m \in Casts : refs[m] = Holders(m)

(* "every path that enqueues a frame must also release it -- including the   *)
(* failure paths (queue full, session closed before the write)": when every  *)
(* send is over and every session closed, no reference is left.              *)
EveryFrameReleased == Quiescent => \A m \in Casts : refs[m] = 0

(* "writeLoop is the only receiver on writeCh, so a non-empty channel here   *)
(* cannot be stolen": when the batch loop is about to receive, there is an   *)
(* entry to receive.                                                         *)
BatchNotStolen == \A s \in Conns : wpc[s] = "recv" => writeCh[s] # <<>>

(* The peer sees messages in the order enqueue accepted them, each at most   *)
(* once, whatever Close removed from between them.                           *)
WireInOrder ==
  \A s \in Conns : \A i, j \in 1..Len(wire[s]) :
    i < j => \E k, l \in 1..Len(sent[s]) :
               k < l /\ sent[s][k] = wire[s][i] /\ sent[s][l] = wire[s][j]

(* Without a write buffer a closed session's write loop ends, so             *)
(* CloseSessions' wait on connWG does too.                                   *)
WriteLoopEnds ==
  \A s \in Conns : cpc[s] = "closed" /\ ~config.buffer ~> wpc[s] = "gone"

(* With a write timeout, buffered or not, a message enqueue accepted reaches *)
(* the kernel unless the session closes.                                     *)
AcceptedWritten ==
  \A s \in Conns, m \in Msgs :
    s \in QueuedIn(m) /\ config.timeout
      ~> (\E i \in DOMAIN wire[s] : wire[s][i] = m) \/ cpc[s] # "open"

(* The reference count of a shared frame covers everybody who may still      *)
(* write it, and without a write timeout nobody else (core.Frame, Release).  *)
FramesCounted == SessionTypeOK /\ NeverReleasedEarly /\ RefsExact

(* The write loop does what it is there for: it writes what was queued and   *)
(* ends when the session is closed.                                          *)
WritesEnd == WriteLoopEnds /\ AcceptedWritten
=============================================================================
