----------------------------- MODULE WorkerPool -----------------------------
(***************************************************************************)
(* The fixed-size handler pool of internal/transport/shared/worker_pool.go: *)
(* a set of workers launched once by Start, and Stop, which any number of   *)
(* goroutines may call.                                                     *)
(*                                                                          *)
(* The server calls Start while it is being started, before it accepts a    *)
(* connection, and Gateway.startMu keeps Start and Stop apart, so Start is  *)
(* the first step of every behaviour.                                       *)
(***************************************************************************)
EXTENDS PoolCore

(* Start launches every worker. *)
StartWorkers ==
  /\ \A a \in Actors : apc[a] = "off"
  /\ \A t \in Tasks : spc[t] = "idle"
  /\ apc' = [a \in Actors |-> IF a \in Workers THEN "run" ELSE "off"]
  /\ UNCHANGED <<policy, queue, closed, done, spc, gone, hand, handled>>

PoolSubmit(t) ==
  \/ Started /\ SubmitEnter(t)
  \/ SubmitEnqueue(t)
  \/ SubmitFull(t)
  \/ SubmitAbort(t)

(* run: the select loop of one worker. *)
PoolRun(w) == TakeTask(w) \/ Handle(w) \/ WorkerSeesDone(w) \/ DrainEnds(w)

PoolStop(s) ==
  \/ Started /\ BeginClose(s, "lock")
  \/ CloseDone(s, "lock")
  \/ LockPending(s)
  \/ LockGranted(s)
  \/ WaitWorkers(s)
  \/ TakeTask(s)
  \/ Handle(s)
  \/ DrainEnds(s)

(* Every submitted call has returned and every Stop has too. *)
PoolFinished ==
  /\ \A s \in Stoppers : apc[s] = "returned"
  /\ \A t \in Tasks : spc[t] \in Results
  /\ UNCHANGED coreVars

PoolNext ==
  \/ StartWorkers
  \/ \E t \in Tasks : PoolSubmit(t)
  \/ \E w \in Workers : PoolRun(w)
  \/ \E s \in Stoppers : PoolStop(s)
  \/ \E s \in Sessions : SessionEnds(s)
  \/ PoolFinished

PoolSpec == CoreInit /\ [][PoolNext]_coreVars

(***************************************************************************)
(* The Go scheduler runs every runnable goroutine eventually, and handlers  *)
(* return: weak fairness of each goroutine's steps.  Nobody has to call     *)
(* Stop and no session has to end, so BeginClose and SessionEnds get none.  *)
(***************************************************************************)
PoolFairness ==
  /\ WF_coreVars(StartWorkers)
  /\ \A t \in Tasks : WF_coreVars(PoolSubmit(t))
  /\ \A w \in Workers : WF_coreVars(PoolRun(w))
  /\ \A s \in Stoppers : WF_coreVars(PoolStop(s) /\ apc[s] # "off")

FairPool == PoolSpec /\ PoolFairness

(* A Submit call always returns, also one blocked on a full queue and also  *)
(* while Stop is taking the write lock behind it: the read lock it holds    *)
(* never deadlocks against Stop.                                            *)
SubmitReturns == \A t \in Tasks : spc[t] = "sending" ~> spc[t] \in Results

(* A Stop call that has begun returns, whoever else stops or submits.       *)
StopReturns == \A s \in Stoppers : apc[s] = "closing" ~> apc[s] = "returned"

(* A task Submit accepted is handled, whether or not the pool is stopped.   *)
AcceptedHandled == \A t \in Tasks : Accepted(t) ~> handled[t] = 1

(* What is begun is completed: every Submit and every Stop returns, and      *)
(* every task Submit accepted is handled, whoever waits for whom.            *)
CallsComplete == SubmitReturns /\ StopReturns /\ AcceptedHandled
=============================================================================
