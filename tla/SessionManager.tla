--------------------------- MODULE SessionManager ---------------------------
(***************************************************************************)
(* The process-wide session index (internal/runtime/session_manager.go) in  *)
(* the metrics decorator every gateway wraps it in (session_metrics.go).    *)
(*                                                                          *)
(* Each session has one transport goroutine, which registers it, serves it  *)
(* and unregisters it from its deferred cleanup.  Sweepers run CloseAll,    *)
(* broadcasters run Broadcast; both walk the shards one at a time.  A shard *)
(* mutex is held across the claim of a slot and the insert, so the two are  *)
(* separate steps that shut out the shard's other users; Unregister lowers  *)
(* the counter only after it has unlocked.                                  *)
(***************************************************************************)
EXTENDS Integers, FiniteSets

CONSTANTS
  Ids,           \* session ids, from NextID: every session has its own
  Sharers,       \* the sessions that implement SharedSender (TCP)
  Shards,        \* the number of shards
  MaxSessions,   \* m.max; not positive means no ceiling
  Sweepers,      \* goroutines that call CloseAll
  Casters        \* goroutines that call Broadcast

ASSUME IdsAssumption == Ids \subseteq Nat /\ IsFiniteSet(Ids)
ASSUME SharersAssumption == Sharers \subseteq Ids
ASSUME ShardsAssumption == Shards \in Nat \ {0}
ASSUME MaxAssumption == MaxSessions \in Int
ASSUME WalkersAssumption ==
  /\ IsFiniteSet(Sweepers) /\ IsFiniteSet(Casters)
  /\ Sweepers \cap Casters = {} /\ (Sweepers \cup Casters) \cap Ids = {}

VARIABLES
  table,      \* the ids in the shard maps
  count,      \* count atomic.Int64
  ended,      \* the sessions Close was called on
  pc,         \* progress of each transport, sweeper and broadcaster
  walk,       \* walk[x]: the shard a walker visits next
  seen,       \* seen[x]: what its snapshot holds so far / has still to do
  goal,       \* goal[x]: the session a sweeper is closing
  before,     \* before[x]: what was registered when CloseAll was called
  got,        \* got[x][id]: how often Broadcast x called Send/SendShared on id
  accepted,   \* sessions_accepted_total
  removed,    \* sessions_closed_total
  gauge,      \* sessions_active
  read        \* read[a]: the Count() an actor is about to store in the gauge

vars == <<table, count, ended, pc, walk, seen, goal, before, got,
          accepted, removed, gauge, read>>
walkVars == <<walk, seen, goal, before, got>>
metricVars == <<accepted, removed, gauge, read>>

Walkers == Sweepers \cup Casters
Actors == Ids \cup Walkers
Shard(id) == id % Shards
InShard(k) == {id \in table : Shard(id) = k}

(* The shard's write lock is held from the claim to the insert. *)
Locked(k) == \E id \in Ids : pc[id] = "insert" /\ Shard(id) = k

TransportStates == {"new", "insert", "opened", "openGauge", "live", "refused",
                    "dec", "closed", "closeGauge", "gone"}
WalkStates == {"idle", "top", "walk", "send", "close", "remove",
               "dec", "closed", "closeGauge", "returned", "timedOut"}

TypeOK ==
  /\ table \subseteq Ids
  /\ count \in Int
  /\ ended \subseteq Ids
  /\ pc \in [Actors -> TransportStates \cup WalkStates]
  /\ walk \in [Walkers -> 0..Shards]
  /\ seen \in [Walkers -> SUBSET Ids]
  /\ goal \in [Sweepers -> Ids \cup {-1}]
  /\ before \in [Sweepers -> SUBSET Ids]
  /\ got \in [Casters -> [Ids -> Nat]]
  /\ accepted \in Nat /\ removed \in Nat
  /\ gauge \in Int
  /\ read \in [Actors -> Int]

Init ==
  /\ table = {}
  /\ count = 0
  /\ ended = {}
  /\ pc = [a \in Actors |-> IF a \in Ids THEN "new" ELSE "idle"]
  /\ walk = [x \in Walkers |-> 0]
  /\ seen = [x \in Walkers |-> {}]
  /\ goal = [x \in Sweepers |-> -1]
  /\ before = [x \in Sweepers |-> {}]
  /\ got = [x \in Casters |-> [id \in Ids |-> 0]]
  /\ accepted = 0 /\ removed = 0
  /\ gauge = 0
  /\ read = [a \in Actors |-> 0]

Goto(a, l) == pc' = [pc EXCEPT ![a] = l]

-----------------------------------------------------------------------------
(* Register: under the shard lock, duplicate before capacity, then the slot  *)
(* is claimed on the global counter.                                         *)
AtCapacity == MaxSessions > 0 /\ count >= MaxSessions

RegisterClaim(id) ==
  /\ pc[id] = "new"
  /\ ~Locked(Shard(id))
  /\ IF id \in table \/ AtCapacity
       THEN Goto(id, "refused") /\ UNCHANGED count
       ELSE Goto(id, "insert") /\ count' = count + 1
  /\ UNCHANGED <<table, ended, walkVars, metricVars>>

RegisterInsert(id) ==
  /\ pc[id] = "insert"
  /\ table' = table \cup {id}
  /\ Goto(id, "opened")
  /\ UNCHANGED <<count, ended, walkVars, metricVars>>

(* The decorator's Register: count the session, then Count() and SetGauge.   *)
RegisterCounts(id) ==
  /\ pc[id] = "opened"
  /\ accepted' = accepted + 1
  /\ read' = [read EXCEPT ![id] = count]
  /\ Goto(id, "openGauge")
  /\ UNCHANGED <<table, count, ended, walkVars, removed, gauge>>

RegisterGauge(id) ==
  /\ pc[id] = "openGauge"
  /\ gauge' = read[id]
  /\ read' = [read EXCEPT ![id] = 0]
  /\ Goto(id, "live")
  /\ UNCHANGED <<table, count, ended, walkVars, accepted, removed>>

(* Mutation of Unregister: counted whether or not the session was there. *)
UnregisterAlways(a, id, next) ==
  /\ ~Locked(Shard(id))
  /\ table' = table \ {id}
  /\ Goto(a, "dec")
  /\ UNCHANGED <<count, ended, walkVars, metricVars>>

(* Unregister by actor a, who carries on at label next when there was        *)
(* nothing to remove.                                                        *)
Unregister(a, id, next) ==
  /\ ~Locked(Shard(id))
  /\ table' = table \ {id}
  /\ Goto(a, IF id \in table THEN "dec" ELSE next)
  /\ UNCHANGED <<count, ended, walkVars, metricVars>>

UnregisterDec(a) ==
  /\ pc[a] = "dec"
  /\ count' = count - 1
  /\ Goto(a, "closed")
  /\ UNCHANGED <<table, ended, walkVars, metricVars>>

UnregisterCounts(a) ==
  /\ pc[a] = "closed"
  /\ removed' = removed + 1
  /\ read' = [read EXCEPT ![a] = count]
  /\ Goto(a, "closeGauge")
  /\ UNCHANGED <<table, count, ended, walkVars, accepted, gauge>>

UnregisterGauge(a) ==
  /\ pc[a] = "closeGauge"
  /\ gauge' = read[a]
  /\ read' = [read EXCEPT ![a] = 0]
  /\ Goto(a, IF a \in Ids THEN "gone" ELSE "close")
  /\ UNCHANGED <<table, count, ended, walkVars, accepted, removed>>

(* The transport's deferred cleanup, after a refused Register too. *)
TransportEnds(id) ==
  /\ pc[id] \in {"live", "refused"}
  /\ Unregister(id, id, "gone")

-----------------------------------------------------------------------------
(* Snapshot, one shard per step. *)
StartWalk(x) ==
  /\ walk' = [walk EXCEPT ![x] = 0]
  /\ seen' = [seen EXCEPT ![x] = {}]
  /\ Goto(x, "walk")

VisitShard(x) ==
  /\ pc[x] = "walk"
  /\ walk[x] < Shards
  /\ ~Locked(walk[x])
  /\ seen' = [seen EXCEPT ![x] = @ \cup InShard(walk[x])]
  /\ walk' = [walk EXCEPT ![x] = @ + 1]
  /\ UNCHANGED <<table, count, ended, pc, goal, before, got, metricVars>>

(* CloseAll is called. *)
CloseAll(x) ==
  /\ pc[x] = "idle"
  /\ before' = [before EXCEPT ![x] = table]
  /\ Goto(x, "top")
  /\ UNCHANGED <<table, count, ended, walk, seen, goal, got, metricVars>>

(* The head of its loop: give up when the stage's context has expired. *)
CloseAllTop(x) ==
  /\ pc[x] = "top"
  /\ \/ StartWalk(x)
     \/ Goto(x, "timedOut") /\ UNCHANGED <<walk, seen>>
  /\ UNCHANGED <<table, count, ended, goal, before, got, metricVars>>

(* An empty snapshot ends it; otherwise close and unregister each session. *)
CloseAllSnapshot(x) ==
  /\ pc[x] = "walk"
  /\ walk[x] = Shards
  /\ Goto(x, IF seen[x] = {} THEN "returned" ELSE "close")
  /\ UNCHANGED <<table, count, ended, walkVars, metricVars>>

CloseAllNext(x) ==
  /\ pc[x] = "close"
  /\ \/ /\ seen[x] = {}
        /\ Goto(x, "top")
        /\ UNCHANGED <<ended, seen, goal>>
     \/ \E id \in seen[x] :
          /\ ended' = ended \cup {id}
          /\ seen' = [seen EXCEPT ![x] = @ \ {id}]
          /\ goal' = [goal EXCEPT ![x] = id]
          /\ Goto(x, "remove")
  /\ UNCHANGED <<table, count, walk, before, got, metricVars>>

CloseAllRemove(x) ==
  /\ pc[x] = "remove"
  /\ Unregister(x, goal[x], "close")

-----------------------------------------------------------------------------
(* Broadcast: snapshot, split by capability, one shared frame when more than *)
(* one session can share it, the copying path for the rest.                  *)
Broadcast(x) ==
  /\ pc[x] = "idle"
  /\ StartWalk(x)
  /\ UNCHANGED <<table, count, ended, goal, before, got, metricVars>>

BroadcastSend(x) ==
  LET shared == seen[x] \cap Sharers
      plain == seen[x] \ Sharers
      byFrame(id) == IF Cardinality(shared) > 1 /\ id \in shared THEN 1 ELSE 0
      again == IF Cardinality(shared) > 1 THEN {} ELSE seen[x]
      byCopy(id) == (IF id \in plain THEN 1 ELSE 0) + (IF id \in again THEN 1 ELSE 0)
  IN /\ pc[x] = "walk"
     /\ walk[x] = Shards
     /\ got' = [got EXCEPT ![x] = [id \in Ids |-> @[id] + byFrame(id) + byCopy(id)]]
     /\ Goto(x, "returned")
     /\ UNCHANGED <<table, count, ended, walk, seen, goal, before, metricVars>>

-----------------------------------------------------------------------------
Transport(id) ==
  \/ RegisterClaim(id)
  \/ RegisterInsert(id)
  \/ RegisterCounts(id)
  \/ RegisterGauge(id)
  \/ TransportEnds(id)

Removal(a) == UnregisterDec(a) \/ UnregisterCounts(a) \/ UnregisterGauge(a)

Sweep(x) ==
  \/ CloseAll(x)
  \/ CloseAllTop(x)
  \/ VisitShard(x)
  \/ CloseAllSnapshot(x)
  \/ CloseAllNext(x)
  \/ CloseAllRemove(x)

Cast(x) == Broadcast(x) \/ VisitShard(x) \/ BroadcastSend(x)

Finished ==
  /\ \A id \in Ids : pc[id] \in {"live", "gone"}
  /\ \A x \in Walkers : pc[x] \in {"returned", "timedOut"}
  /\ UNCHANGED vars

Next ==
  \/ \E id \in Ids : Transport(id)
  \/ \E a \in Ids \cup Sweepers : Removal(a)
  \/ \E x \in Sweepers : Sweep(x)
  \/ \E x \in Casters : Cast(x)
  \/ Finished

Spec == Init /\ [][Next]_vars

(* A goroutine that can run does.  A session need not end and nobody has to  *)
(* call CloseAll or Broadcast, or to register.                               *)
Fairness ==
  /\ \A id \in Ids : WF_vars(Transport(id) /\ pc[id] \notin {"new", "live"})
  /\ \A a \in Ids \cup Sweepers : WF_vars(Removal(a))
  /\ \A x \in Sweepers : WF_vars(Sweep(x) /\ pc[x] # "idle")
  /\ \A x \in Casters : WF_vars(Cast(x) /\ pc[x] # "idle")

FairSpec == Spec /\ Fairness

-----------------------------------------------------------------------------
Claimed == {id \in Ids : pc[id] = "insert"}
Owing == {a \in Ids \cup Sweepers : pc[a] = "dec"}

(* The counter is the table plus the slots claimed and not yet filled plus   *)
(* the removals not yet subtracted: registering and unregistering from any   *)
(* number of goroutines and shards loses no update and subtracts none twice. *)
CountExact ==
  count = Cardinality(table) + Cardinality(Claimed) + Cardinality(Owing)

(* "two shards must not each admit a session that together exceed it": the   *)
(* shards together never hold more than MaxSessions sessions.                *)
WithinCapacity == MaxSessions > 0 => Cardinality(table) <= MaxSessions

(* sessions_closed_total counts real removals only, although the transport's *)
(* cleanup and CloseAll both unregister: the two counters differ by what is  *)
(* registered, give or take the updates in flight.                           *)
MetricsAddUp ==
  LET uncounted == {id \in Ids : pc[id] = "opened"}
      uncountedRemovals == {a \in Ids \cup Sweepers : pc[a] \in {"dec", "closed"}}
  IN accepted + Cardinality(uncounted)
       = removed + Cardinality(uncountedRemovals) + Cardinality(table)

(* A CloseAll that was not timed out leaves no session registered that was   *)
(* registered when it was called, and each of those was closed by a sweep or *)
(* is being dropped by its own transport, although the snapshots are not     *)
(* taken at one point in time and transports unregister behind its back.     *)
CloseAllClears ==
  \A x \in Sweepers : pc[x] = "returned" =>
    \A id \in before[x] :
      /\ id \notin table
      /\ id \in ended \/ pc[id] \in {"dec", "closed", "closeGauge", "gone"}

(* The index as Register, Unregister and CloseAll promise it: an exact       *)
(* count within the ceiling, metrics that add up, and a CloseAll that clears *)
(* what it found.                                                            *)
IndexExact == TypeOK /\ CountExact /\ WithinCapacity /\ MetricsAddUp /\ CloseAllClears

(* CloseAll returns: sessions that come and go do not keep it looping.       *)
CloseAllReturns ==
  \A x \in Sweepers : pc[x] = "top" ~> pc[x] \in {"returned", "timedOut"}

(* "for _, s := range snapshot { s.Send(data) }": a broadcast reaches every  *)
(* session of its snapshot once.                                             *)
BroadcastOnce == \A x \in Casters, id \in Ids : got[x][id] <= 1

=============================================================================
