---------------------------- MODULE TaskDispatch ----------------------------
(***************************************************************************)
(* What a handler pool promises the transport that owns it, with no queue,  *)
(* lock or worker in sight: a submitted task is either refused or accepted, *)
(* an accepted task is run exactly once, and once the pool is stopped       *)
(* nothing is accepted and nothing is running or waiting to run.            *)
(*                                                                          *)
(* The promise is the one the comments of pool_core.go (submitMu, submit)   *)
(* and worker_pool.go (Stop) make; WorkerPool and ScalablePool implement it.*)
(***************************************************************************)
CONSTANT Tasks

VARIABLES
  status,    \* "new", "accepted", "running", "done" or "refused"
  stopped    \* TRUE once a Stop call has returned

dispatchVars == <<status, stopped>>

Init ==
  /\ status = [t \in Tasks |-> "new"]
  /\ stopped = FALSE

Accept(t) ==
  /\ ~stopped
  /\ status[t] = "new"
  /\ status' = [status EXCEPT ![t] = "accepted"]
  /\ UNCHANGED stopped

Refuse(t) ==
  /\ status[t] = "new"
  /\ status' = [status EXCEPT ![t] = "refused"]
  /\ UNCHANGED stopped

Run(t) ==
  /\ ~stopped
  /\ status[t] = "accepted"
  /\ status' = [status EXCEPT ![t] = "running"]
  /\ UNCHANGED stopped

Finish(t) ==
  /\ ~stopped
  /\ status[t] = "running"
  /\ status' = [status EXCEPT ![t] = "done"]
  /\ UNCHANGED stopped

Stop ==
  /\ \A t \in Tasks : status[t] \notin {"accepted", "running"}
  /\ stopped' = TRUE
  /\ UNCHANGED status

Next ==
  \/ \E t \in Tasks : Accept(t) \/ Refuse(t) \/ Run(t) \/ Finish(t)
  \/ Stop

Spec == Init /\ [][Next]_dispatchVars
=============================================================================
