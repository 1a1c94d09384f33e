------------------------------ MODULE PoolCore ------------------------------
(***************************************************************************)
(* The part of the handler pools that WorkerPool and ScalablePool share:   *)
(* the task queue, the submit path with its three back-pressure policies,  *)
(* the handler boundary and the shutdown handshake on submitMu             *)
(* (internal/transport/shared/pool_core.go).                               *)
(*                                                                         *)
(* A task is one Submit call: its read loop submits it at most once.  A    *)
(* payload is never looked at by the pool, so a task is a model value and  *)
(* only the session it belongs to is kept.                                 *)
(***************************************************************************)
EXTENDS Integers, Sequences, FiniteSets

CONSTANTS
  Tasks,      \* the Submit calls made by the transports' read loops
  Sessions,   \* the sessions those calls are made for
  Owner,      \* Owner[t] is the session of task t
  Workers,    \* the worker goroutines the pool may run
  Stoppers,   \* the goroutines that call Stop
  QueueCap,   \* cap(queue)
  Policies,   \* the back-pressure policies the pool may be built with
  NoTask      \* "no task in hand"

ASSUME OwnerAssumption == Owner \in [Tasks -> Sessions]
ASSUME QueueCapAssumption == QueueCap \in Nat \ {0}
ASSUME PoliciesAssumption == Policies \subseteq {"block", "drop", "close"}
ASSUME NoTaskAssumption == NoTask \notin Tasks
ASSUME ActorsDisjoint == Workers \cap Stoppers = {}
ASSUME WorkersFinite == IsFiniteSet(Workers)

VARIABLES
  policy,     \* FullPolicy, fixed at construction
  queue,      \* the buffered channel
  closed,     \* closed atomic.Bool
  done,       \* TRUE once the done channel is closed
  spc,        \* progress of each Submit call; its result once it returned
  gone,       \* sessions whose context is cancelled
  apc,        \* progress of each worker and of each Stop call
  hand,       \* the task whose handler an actor is running
  handled     \* how many times the handler finished for a task

coreVars == <<policy, queue, closed, done, spc, gone, apc, hand, handled>>

Actors == Workers \cup Stoppers
Results == {"ok", "full", "closed", "sessionClosed"}
SubmitStates == {"idle", "sending"} \cup Results
ActorStates == {"off", "run", "drain", "exited",
                "closing", "purge", "lock", "pending", "wait", "returned"}

CoreTypeOK ==
  /\ policy \in Policies
  /\ queue \in Seq(Tasks)
  /\ Len(queue) <= QueueCap
  /\ closed \in BOOLEAN
  /\ done \in BOOLEAN
  /\ spc \in [Tasks -> SubmitStates]
  /\ gone \in SUBSET Sessions
  /\ apc \in [Actors -> ActorStates]
  /\ hand \in [Actors -> Tasks \cup {NoTask}]
  /\ handled \in [Tasks -> Nat]

CoreInit ==
  /\ policy \in Policies
  /\ queue = <<>>
  /\ closed = FALSE
  /\ done = FALSE
  /\ spc = [t \in Tasks |-> "idle"]
  /\ gone = {}
  /\ apc = [a \in Actors |-> "off"]
  /\ hand = [a \in Actors |-> NoTask]
  /\ handled = [t \in Tasks |-> 0]

(* Start has launched the workers; it is the server's first call to its pool. *)
Started == \E w \in Workers : apc[w] # "off"

-----------------------------------------------------------------------------
(* submitMu.  Go's RWMutex makes new readers wait as soon as a writer is   *)
(* pending, and grants the write lock once the earlier readers are gone.   *)

ReadersInside == {t \in Tasks : spc[t] = "sending"}
WriterAtGate == \E s \in Stoppers : apc[s] \in {"pending", "wait", "drain"}

(* submit, up to its select: take the read lock, give up when closed. *)
SubmitEnter(t) ==
  /\ spc[t] = "idle"
  /\ ~WriterAtGate
  /\ spc' = [spc EXCEPT ![t] = IF closed THEN "closed" ELSE "sending"]
  /\ UNCHANGED <<policy, queue, closed, done, gone, apc, hand, handled>>

(* Every policy's first case: the queue has room.  The deferred RUnlock is  *)
(* part of the step, as in each of the other returns.                       *)
SubmitEnqueue(t) ==
  /\ spc[t] = "sending"
  /\ Len(queue) < QueueCap
  /\ queue' = Append(queue, t)
  /\ spc' = [spc EXCEPT ![t] = "ok"]
  /\ UNCHANGED <<policy, closed, done, gone, apc, hand, handled>>

(* PolicyDrop and PolicyClose: the queue is full. *)
SubmitFull(t) ==
  /\ spc[t] = "sending"
  /\ policy \in {"drop", "close"}
  /\ Len(queue) = QueueCap
  /\ spc' = [spc EXCEPT ![t] = "full"]
  /\ gone' = IF policy = "close" THEN gone \cup {Owner[t]} ELSE gone
  /\ UNCHANGED <<policy, queue, closed, done, apc, hand, handled>>

(* Mutation of SubmitAbort: the select has no done case. *)
SubmitAbortDeaf(t) ==
  /\ spc[t] = "sending"
  /\ policy = "block"
  /\ Owner[t] \in gone
  /\ spc' = [spc EXCEPT ![t] = "sessionClosed"]
  /\ UNCHANGED <<policy, queue, closed, done, gone, apc, hand, handled>>

(* PolicyBlock: pool stop, or the session's own end, releases the caller.   *)
(* The select picks any ready case, so this may happen with room left.      *)
SubmitAbort(t) ==
  /\ spc[t] = "sending"
  /\ policy = "block"
  /\ \/ done /\ spc' = [spc EXCEPT ![t] = "closed"]
     \/ Owner[t] \in gone /\ spc' = [spc EXCEPT ![t] = "sessionClosed"]
  /\ UNCHANGED <<policy, queue, closed, done, gone, apc, hand, handled>>

(* A session's context is cancelled from outside the pool. *)
SessionEnds(s) ==
  /\ s \notin gone
  /\ gone' = gone \cup {s}
  /\ UNCHANGED <<policy, queue, closed, done, spc, apc, hand, handled>>

-----------------------------------------------------------------------------
(* The consumer side: a worker's select loop and drainQueue both take the   *)
(* head of the queue and run handle on it.                                  *)

(* Mutation of TakeTask: a second task before the first is handled. *)
TakeTaskOver(a) ==
  /\ apc[a] \in {"run", "drain"}
  /\ queue # <<>>
  /\ hand' = [hand EXCEPT ![a] = Head(queue)]
  /\ queue' = Tail(queue)
  /\ UNCHANGED <<policy, closed, done, spc, gone, apc, handled>>

TakeTask(a) ==
  /\ apc[a] \in {"run", "drain"}
  /\ hand[a] = NoTask
  /\ queue # <<>>
  /\ hand' = [hand EXCEPT ![a] = Head(queue)]
  /\ queue' = Tail(queue)
  /\ UNCHANGED <<policy, closed, done, spc, gone, apc, handled>>

(* handle: the handler returns; an error or a recovered panic closes the    *)
(* session.                                                                 *)
Handle(a) ==
  /\ hand[a] # NoTask
  /\ hand' = [hand EXCEPT ![a] = NoTask]
  /\ handled' = [handled EXCEPT ![hand[a]] = @ + 1]
  /\ gone' \in {gone, gone \cup {Owner[hand[a]]}}
  /\ UNCHANGED <<policy, queue, closed, done, spc, apc>>

(* A worker's select may notice done even while tasks are queued. *)
WorkerSeesDone(w) ==
  /\ apc[w] = "run"
  /\ hand[w] = NoTask
  /\ done
  /\ apc' = [apc EXCEPT ![w] = "drain"]
  /\ UNCHANGED <<policy, queue, closed, done, spc, gone, hand, handled>>

(* Mutation of DrainEnds: leave without looking at the queue. *)
DrainEndsEarly(a) ==
  /\ apc[a] = "drain"
  /\ hand[a] = NoTask
  /\ apc' = [apc EXCEPT ![a] = IF a \in Stoppers THEN "returned" ELSE "exited"]
  /\ UNCHANGED <<policy, queue, closed, done, spc, gone, hand, handled>>

(* drainQueue's default case: nothing left.  A worker's goroutine ends, a   *)
(* Stop call unlocks submitMu and returns.                                  *)
DrainEnds(a) ==
  /\ apc[a] = "drain"
  /\ hand[a] = NoTask
  /\ queue = <<>>
  /\ apc' = [apc EXCEPT ![a] = IF a \in Stoppers THEN "returned" ELSE "exited"]
  /\ UNCHANGED <<policy, queue, closed, done, spc, gone, hand, handled>>

-----------------------------------------------------------------------------
(* beginClose is a compare-and-swap followed by close(done): a submitter can *)
(* run between the two.                                                      *)
BeginClose(s, next) ==
  /\ apc[s] = "off"
  /\ closed' = TRUE
  /\ apc' = [apc EXCEPT ![s] = IF closed THEN next ELSE "closing"]
  /\ UNCHANGED <<policy, queue, done, spc, gone, hand, handled>>

CloseDone(s, next) ==
  /\ apc[s] = "closing"
  /\ done' = TRUE
  /\ apc' = [apc EXCEPT ![s] = next]
  /\ UNCHANGED <<policy, queue, closed, spc, gone, hand, handled>>

(* submitMu.Lock in two steps: become the pending writer, then wait for the *)
(* readers inside to leave.                                                 *)
LockPending(s) ==
  /\ apc[s] = "lock"
  /\ ~WriterAtGate
  /\ apc' = [apc EXCEPT ![s] = "pending"]
  /\ UNCHANGED <<policy, queue, closed, done, spc, gone, hand, handled>>

(* Mutation of LockGranted: Stop does not wait for the readers inside. *)
LockGrantedEarly(s) ==
  /\ apc[s] = "pending"
  /\ apc' = [apc EXCEPT ![s] = "wait"]
  /\ UNCHANGED <<policy, queue, closed, done, spc, gone, hand, handled>>

LockGranted(s) ==
  /\ apc[s] = "pending"
  /\ ReadersInside = {}
  /\ apc' = [apc EXCEPT ![s] = "wait"]
  /\ UNCHANGED <<policy, queue, closed, done, spc, gone, hand, handled>>

(* wg.Wait returns once every started worker has exited; the final sweep    *)
(* follows.                                                                 *)
WaitWorkers(s) ==
  /\ apc[s] = "wait"
  /\ \A w \in Workers : apc[w] \in {"off", "exited"}
  /\ apc' = [apc EXCEPT ![s] = "drain"]
  /\ UNCHANGED <<policy, queue, closed, done, spc, gone, hand, handled>>

-----------------------------------------------------------------------------
(* What both pools promise. *)

Accepted(t) == spc[t] = "ok"
InQueue(t) == \E i \in 1..Len(queue) : queue[i] = t
InHand(t) == \E a \in Actors : hand[a] = t
StopReturned == \E s \in Stoppers : apc[s] = "returned"

(* Every accepted task is in exactly one place - queued, in the hands of    *)
(* one goroutine, or handled once - and a refused one is nowhere: no        *)
(* interleaving of Submit, the workers and Stop's sweep loses a task or runs *)
(* its handler twice.                                                       *)
EachTaskOnce ==
  /\ \A i, j \in 1..Len(queue) : queue[i] = queue[j] => i = j
  /\ \A a, b \in Actors : hand[a] = hand[b] /\ hand[a] # NoTask => a = b
  /\ \A t \in Tasks :
       /\ handled[t] <= 1
       /\ Accepted(t) <=> InQueue(t) \/ InHand(t) \/ handled[t] = 1
       /\ ~(InQueue(t) /\ InHand(t))
       /\ handled[t] = 1 => ~InQueue(t) /\ ~InHand(t)

(* "Stop terminates the workers after draining everything already accepted":*)
(* when any Stop has returned, every task Submit said yes to has been       *)
(* handled, no handler is still running, and no submitter can still enqueue.*)
StopDrains ==
  StopReturned =>
    /\ \A t \in Tasks : Accepted(t) => handled[t] = 1
    /\ \A a \in Actors : hand[a] = NoTask
    /\ ReadersInside = {}

(* Nothing starts or finishes once a Stop has returned: from then on the    *)
(* pool accepts no task and touches no session.                             *)
QuietAfterStop ==
  [][StopReturned => UNCHANGED <<queue, hand, handled>>]_coreVars

(* The pool seen as a TaskDispatch. *)
StatusOf(t) ==
  IF handled[t] > 0 THEN "done"
  ELSE IF InHand(t) THEN "running"
  ELSE IF Accepted(t) THEN "accepted"
  ELSE IF spc[t] \in {"idle", "sending"} THEN "new" ELSE "refused"

Dispatch == INSTANCE TaskDispatch WITH
  status <- [t \in Tasks |-> StatusOf(t)],
  stopped <- StopReturned

(* The pool, with its queue, its lock, its workers and its sweep, does      *)
(* nothing a TaskDispatch could not do.                                     *)
ImplementsDispatch == Dispatch!Spec
=============================================================================
