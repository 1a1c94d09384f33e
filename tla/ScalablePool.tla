---------------------------- MODULE ScalablePool ----------------------------
(***************************************************************************)
(* The elastic handler pool of internal/transport/shared/pool_scalable.go.  *)
(* It is the same poolCore with a worker set that every ScaleInterval-th    *)
(* Submit may grow or shrink after it has released submitMu.                *)
(*                                                                          *)
(* maybeScale is several atomic reads and two critical sections on mu, run  *)
(* by any number of submitters at once, so it is one action per section.    *)
(* Workers is a supply of fresh worker ids: nextID never hands one out      *)
(* twice, and MCScalablePool gives one id for each addWorker call.          *)
(***************************************************************************)
EXTENDS PoolCore

CONSTANTS
  MinWorker, MaxWorker,   \* the configured bounds, after NewScalablePool
  ScaleUpPct,             \* scaleUpRatio, in percent
  ScaleDownPct,           \* scaleDownRatio, in percent
  ScaleDownHold,          \* scaleDownHold
  ScaleInterval,          \* scaleCheckInterval
  NoWorker

ASSUME BoundsAssumption ==
  /\ MinWorker \in Nat \ {0}
  /\ MaxWorker \in Nat
  /\ MinWorker <= MaxWorker
ASSUME RatioAssumption ==
  /\ ScaleUpPct \in 1..100
  /\ ScaleDownPct \in 1..(ScaleUpPct - 1)
ASSUME ScaleAssumption ==
  /\ ScaleDownHold \in Nat \ {0}
  /\ ScaleInterval \in Nat \ {0}
ASSUME NoWorkerAssumption == NoWorker \notin Workers

VARIABLES
  workers,      \* the ids in the workers map
  retire,       \* how often each worker's retire channel was closed
  downStreak,
  submitTick,
  mpc,          \* progress of the maybeScale that follows each Submit
  victim        \* the worker a retireOneWorker has taken out of the map

scaleVars == <<workers, retire, downStreak, submitTick, mpc, victim>>
elasticVars == <<coreVars, scaleVars>>

ScaleStates == {"none", "check", "low", "mid", "high",
                "add", "reset", "pick", "close", "end"}

ElasticTypeOK ==
  /\ CoreTypeOK
  /\ workers \in SUBSET Workers
  /\ retire \in [Workers -> Nat]
  /\ downStreak \in Nat
  /\ submitTick \in Nat
  /\ mpc \in [Tasks -> ScaleStates]
  /\ victim \in [Tasks -> Workers \cup {NoWorker}]

ElasticInit ==
  /\ CoreInit
  /\ workers = {}
  /\ retire = [w \in Workers |-> 0]
  /\ downStreak = 0
  /\ submitTick = 0
  /\ mpc = [t \in Tasks |-> "none"]
  /\ victim = [t \in Tasks |-> NoWorker]

-----------------------------------------------------------------------------
(* Start: addWorker, MinWorker times. *)
Launch ==
  /\ \A a \in Actors : apc[a] = "off"
  /\ \E W \in SUBSET Workers :
       /\ Cardinality(W) = MinWorker
       /\ workers' = W
       /\ apc' = [a \in Actors |-> IF a \in W THEN "run" ELSE "off"]
  /\ UNCHANGED <<policy, queue, closed, done, spc, gone, hand, handled,
                 retire, downStreak, submitTick, mpc, victim>>

ElasticSubmit(t) ==
  /\ \/ Started /\ SubmitEnter(t)
     \/ SubmitEnqueue(t)
     \/ SubmitFull(t)
     \/ SubmitAbort(t)
  /\ UNCHANGED scaleVars

(* The tail of Submit, on every return path: one tick, and every            *)
(* ScaleInterval-th call goes on into maybeScale.                           *)
Tick(t) ==
  /\ spc[t] \in Results
  /\ mpc[t] = "none"
  /\ submitTick' = submitTick + 1
  /\ mpc' = [mpc EXCEPT ![t] =
               IF submitTick' % ScaleInterval = 0 THEN "check" ELSE "end"]
  /\ UNCHANGED <<coreVars, workers, retire, downStreak, victim>>

(* maybeScale reads closed and the queue's occupancy ... *)
Occupancy ==
  IF 100 * Len(queue) >= ScaleUpPct * QueueCap THEN "high"
  ELSE IF 100 * Len(queue) <= ScaleDownPct * QueueCap THEN "low" ELSE "mid"

ScaleObserve(t) ==
  /\ mpc[t] = "check"
  /\ mpc' = [mpc EXCEPT ![t] = IF closed THEN "end" ELSE Occupancy]
  /\ UNCHANGED <<coreVars, workers, retire, downStreak, submitTick, victim>>

(* ... then counts the workers and judges. *)
ScaleJudge(t) ==
  LET n == Cardinality(workers)
      grow == mpc[t] = "high" /\ n < MaxWorker
      shrink == ~grow /\ mpc[t] = "low" /\ n > MinWorker
  IN /\ mpc[t] \in {"low", "mid", "high"}
     /\ downStreak' = IF shrink THEN downStreak + 1 ELSE 0
     /\ mpc' = [mpc EXCEPT ![t] =
                  IF grow THEN "add"
                  ELSE IF shrink /\ downStreak' >= ScaleDownHold THEN "reset"
                  ELSE "end"]
     /\ UNCHANGED <<coreVars, workers, retire, submitTick, victim>>

(* Mutation of AddWorker: closed is not looked at again under mu. *)
AddWorkerUnchecked(t) ==
  /\ mpc[t] = "add"
  /\ mpc' = [mpc EXCEPT ![t] = "end"]
  /\ IF Cardinality(workers) >= MaxWorker
       THEN UNCHANGED <<workers, apc>>
       ELSE \E w \in Workers :
              /\ apc[w] = "off"
              /\ workers' = workers \cup {w}
              /\ apc' = [apc EXCEPT ![w] = "run"]
  /\ UNCHANGED <<policy, queue, closed, done, spc, gone, hand, handled,
                 retire, downStreak, submitTick, victim>>

(* addWorker, under mu: refused when closed or at the ceiling. *)
AddWorker(t) ==
  /\ mpc[t] = "add"
  /\ mpc' = [mpc EXCEPT ![t] = "end"]
  /\ IF closed \/ Cardinality(workers) >= MaxWorker
       THEN UNCHANGED <<workers, apc>>
       ELSE \E w \in Workers :
              /\ apc[w] = "off"
              /\ workers' = workers \cup {w}
              /\ apc' = [apc EXCEPT ![w] = "run"]
  /\ UNCHANGED <<policy, queue, closed, done, spc, gone, hand, handled,
                 retire, downStreak, submitTick, victim>>

(* The shrink path: reset the streak, take a victim out of the map under mu, *)
(* close its retire channel after mu is released.                            *)
RetireReset(t) ==
  /\ mpc[t] = "reset"
  /\ downStreak' = 0
  /\ mpc' = [mpc EXCEPT ![t] = "pick"]
  /\ UNCHANGED <<coreVars, workers, retire, submitTick, victim>>

RetirePick(t) ==
  /\ mpc[t] = "pick"
  /\ \/ /\ workers = {}
        /\ mpc' = [mpc EXCEPT ![t] = "end"]
        /\ UNCHANGED <<workers, victim>>
     \/ \E w \in workers :
          /\ workers' = workers \ {w}
          /\ victim' = [victim EXCEPT ![t] = w]
          /\ mpc' = [mpc EXCEPT ![t] = "close"]
  /\ UNCHANGED <<coreVars, retire, downStreak, submitTick>>

(* Mutation of RetireClose: the channel is never closed. *)
RetireCloseNot(t) ==
  /\ mpc[t] = "close"
  /\ mpc' = [mpc EXCEPT ![t] = "end"]
  /\ UNCHANGED <<coreVars, workers, retire, downStreak, submitTick, victim>>

RetireClose(t) ==
  /\ mpc[t] = "close"
  /\ retire' = [retire EXCEPT ![victim[t]] = @ + 1]
  /\ mpc' = [mpc EXCEPT ![t] = "end"]
  /\ UNCHANGED <<coreVars, workers, downStreak, submitTick, victim>>

MaybeScale(t) ==
  \/ Tick(t)
  \/ ScaleObserve(t)
  \/ ScaleJudge(t)
  \/ AddWorker(t)
  \/ RetireReset(t)
  \/ RetirePick(t)
  \/ RetireClose(t)

-----------------------------------------------------------------------------
(* run's retire case: leave without touching the queue. *)
WorkerRetires(w) ==
  /\ apc[w] = "run"
  /\ hand[w] = NoTask
  /\ retire[w] > 0
  /\ apc' = [apc EXCEPT ![w] = "exited"]
  /\ workers' = workers \ {w}
  /\ UNCHANGED <<policy, queue, closed, done, spc, gone, hand, handled,
                 retire, downStreak, submitTick, mpc, victim>>

ElasticRun(w) ==
  \/ (TakeTask(w) \/ Handle(w) \/ WorkerSeesDone(w)) /\ UNCHANGED scaleVars
  \/ WorkerRetires(w)
  \/ /\ DrainEnds(w)
     /\ workers' = workers \ {w}
     /\ UNCHANGED <<retire, downStreak, submitTick, mpc, victim>>

(* Stop, between beginClose and submitMu.Lock: retire every mapped worker,   *)
(* in one critical section on mu.                                            *)
Purge(s) ==
  /\ apc[s] = "purge"
  /\ retire' = [w \in Workers |-> IF w \in workers THEN retire[w] + 1
                                  ELSE retire[w]]
  /\ workers' = {}
  /\ apc' = [apc EXCEPT ![s] = "lock"]
  /\ UNCHANGED <<policy, queue, closed, done, spc, gone, hand, handled,
                 downStreak, submitTick, mpc, victim>>

ElasticStop(s) ==
  \/ /\ \/ Started /\ BeginClose(s, "purge")
        \/ CloseDone(s, "purge")
        \/ LockPending(s)
        \/ LockGranted(s)
        \/ WaitWorkers(s)
        \/ TakeTask(s)
        \/ Handle(s)
        \/ DrainEnds(s)
     /\ UNCHANGED scaleVars
  \/ Purge(s)

ElasticFinished ==
  /\ \A s \in Stoppers : apc[s] = "returned"
  /\ \A t \in Tasks : mpc[t] = "end"
  /\ UNCHANGED elasticVars

ElasticNext ==
  \/ Launch
  \/ \E t \in Tasks : ElasticSubmit(t) \/ MaybeScale(t)
  \/ \E w \in Workers : ElasticRun(w)
  \/ \E s \in Stoppers : ElasticStop(s)
  \/ \E s \in Sessions : SessionEnds(s) /\ UNCHANGED scaleVars
  \/ ElasticFinished

ElasticSpec == ElasticInit /\ [][ElasticNext]_elasticVars

-----------------------------------------------------------------------------
(* Closing a closed channel panics.  retireOneWorker closes outside mu, two  *)
(* of them and Stop may run together: no retire channel is closed twice.     *)
RetireClosedOnce == \A w \in Workers : retire[w] <= 1

(* "starting now would leave a goroutine nobody waits for": once a Stop has  *)
(* purged the map, no addWorker starts another worker, so wg.Wait covers     *)
(* them all.                                                                 *)
NoWorkerAfterPurge ==
  [][(\E s \in Stoppers : apc[s] \in {"lock", "pending", "wait", "drain", "returned"})
       => \A w \in Workers : apc[w] = "off" => apc'[w] = "off"]_elasticVars

(* A worker out of the map is on its way out: its retire channel is closed   *)
(* or the maybeScale that removed it is about to close it.  The only other   *)
(* way out of the map is the worker's own exit.                              *)
NoOrphanWorker ==
  \A w \in Workers \ workers :
    apc[w] \in {"run", "drain"} =>
      retire[w] = 1 \/ \E t \in Tasks : mpc[t] = "close" /\ victim[t] = w

(* However maybeScale, retireOneWorker and Stop interleave, a worker leaves  *)
(* the map on its way out and its retire channel is closed at most once.     *)
WorkersAccounted == ElasticTypeOK /\ RetireClosedOnce /\ NoOrphanWorker
=============================================================================
