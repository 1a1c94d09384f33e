--------------------------- MODULE SessionsProofs ---------------------------
(***************************************************************************)
(* The counters of the session index for any number of sessions, shards,    *)
(* sweepers and broadcasters, and what a finished CloseAll guarantees; and   *)
(* the servers whose sessions last for one request.                         *)
(***************************************************************************)
EXTENDS SessionManager, RequestServer, FiniteSetTheorems, TLAPS

Serving == {"opened", "openGauge", "live"}
Uncounted == {id \in Ids : pc[id] = "opened"}
UncountedRemovals == {a \in Ids \cup Sweepers : pc[a] \in {"dec", "closed"}}

(* A session is in the table only while its transport serves it. *)
TableServed == \A id \in table : pc[id] \in Serving

(* The ceiling, as the counter sees it. *)
CountBounded == MaxSessions > 0 => count <= MaxSessions

CountInv == TypeOK /\ TableServed /\ CountExact /\ CountBounded /\ MetricsAddUp

-----------------------------------------------------------------------------
LEMMA Finite ==
  /\ IsFiniteSet(Ids \cup Sweepers)
  /\ \A S \in SUBSET (Ids \cup Sweepers) : IsFiniteSet(S) /\ Cardinality(S) \in Nat
<1>1. IsFiniteSet(Ids \cup Sweepers)
  BY IdsAssumption, WalkersAssumption, FS_Union, Zenon
<1>2. \A S \in SUBSET (Ids \cup Sweepers) : IsFiniteSet(S)
  BY <1>1, FS_Subset, Zenon
<1> QED
  BY <1>1, <1>2, FS_CardinalityType, Zenon

(* Adding a new element to a set of actors, or taking one out. *)
LEMMA AddOne ==
  ASSUME NEW S \in SUBSET (Ids \cup Sweepers), NEW a \in (Ids \cup Sweepers) \ S
  PROVE  Cardinality(S \cup {a}) = Cardinality(S) + 1
BY Finite, FS_AddElement, Zenon

LEMMA TakeOne ==
  ASSUME NEW S \in SUBSET (Ids \cup Sweepers), NEW a \in S
  PROVE  Cardinality(S \ {a}) = Cardinality(S) - 1
BY Finite, FS_RemoveElement, Zenon

(* Every step keeps every variable in its type. *)
LEMMA TypeStep == TypeOK /\ [Next]_vars => TypeOK'
<1> SUFFICES ASSUME TypeOK, [Next]_vars PROVE TypeOK'
  BY Zenon
<1> USE ShardsAssumption DEF TypeOK, walkVars, metricVars, Actors, Walkers, Goto, TransportStates, WalkStates
<1>1. ASSUME NEW id \in Ids, Transport(id) PROVE TypeOK'
  <2>1. CASE RegisterClaim(id) BY <2>1 DEF RegisterClaim
  <2>2. CASE RegisterInsert(id) BY <2>2, Zenon DEF RegisterInsert
  <2>3. CASE RegisterCounts(id) BY <2>3 DEF RegisterCounts
  <2>4. CASE RegisterGauge(id) BY <2>4 DEF RegisterGauge
  <2>5. CASE TransportEnds(id) BY <2>5, Zenon DEF TransportEnds, Unregister
  <2> QED BY <1>1, <2>1, <2>2, <2>3, <2>4, <2>5, Zenon DEF Transport
<1>2. ASSUME NEW a \in Ids \cup Sweepers, Removal(a) PROVE TypeOK'
  <2>1. CASE UnregisterDec(a) BY <2>1 DEF UnregisterDec
  <2>2. CASE UnregisterCounts(a) BY <2>2 DEF UnregisterCounts
  <2>3. CASE UnregisterGauge(a) BY <2>3 DEF UnregisterGauge
  <2> QED BY <1>2, <2>1, <2>2, <2>3, Zenon DEF Removal
<1>3. ASSUME NEW x \in Walkers, VisitShard(x) PROVE TypeOK'
  BY <1>3 DEF VisitShard, InShard
<1>4. ASSUME NEW x \in Sweepers, Sweep(x) PROVE TypeOK'
  <2>1. CASE CloseAll(x) BY <2>1, Zenon DEF CloseAll
  <2>2. CASE CloseAllTop(x)
    <3>1. CASE StartWalk(x) BY <2>2, <3>1 DEF CloseAllTop, StartWalk
    <3>2. CASE UNCHANGED <<walk, seen>> /\ Goto(x, "timedOut") BY <2>2, <3>2, Zenon DEF CloseAllTop
    <3> QED BY <2>2, <3>1, <3>2, Zenon DEF CloseAllTop
  <2>3. CASE CloseAllSnapshot(x) BY <2>3, Zenon DEF CloseAllSnapshot
  <2>4. CASE CloseAllNext(x) BY <2>4 DEF CloseAllNext
  <2>5. CASE CloseAllRemove(x) BY <2>5, Zenon DEF CloseAllRemove, Unregister
  <2> QED BY <1>3, <1>4, <2>1, <2>2, <2>3, <2>4, <2>5, Zenon DEF Sweep
<1>5. ASSUME NEW x \in Casters, Cast(x) PROVE TypeOK'
  <2>1. CASE Broadcast(x) BY <2>1 DEF Broadcast, StartWalk
  <2>2. CASE BroadcastSend(x) BY <2>2 DEF BroadcastSend
  <2> QED BY <1>3, <1>5, <2>1, <2>2, Zenon DEF Cast
<1>6. CASE UNCHANGED vars BY <1>6, Zenon DEF vars
<1> QED BY <1>1, <1>2, <1>4, <1>5, <1>6, Zenon DEF Next, Finished

(* No step loses or repeats a change of the counters.  The steps that matter *)
(* are the claim, the insert, the removal and the two delayed updates; every *)
(* other step leaves the table, the counters and the sets alone.             *)
CountVars == <<table, count, accepted, removed, Claimed, Owing, Uncounted, UncountedRemovals>>

LEMMA CountKept ==
  ASSUME CountInv, UNCHANGED CountVars, TypeOK', TableServed'
  PROVE  CountInv'
BY Zenon DEF CountInv, CountVars, CountExact, CountBounded, MetricsAddUp, Uncounted, UncountedRemovals

LEMMA CountStep == CountInv /\ [Next]_vars => CountInv'
<1> SUFFICES ASSUME CountInv, [Next]_vars PROVE CountInv'
  BY Zenon
<1>0. TypeOK'
  BY TypeStep, Zenon DEF CountInv
<1>A. Ids \cap Walkers = {} /\ Ids \cup Sweepers \subseteq Actors
  BY WalkersAssumption, Zenon DEF Actors, Walkers
<1>B. /\ Claimed \in SUBSET (Ids \cup Sweepers) /\ Owing \in SUBSET (Ids \cup Sweepers)
      /\ Uncounted \in SUBSET (Ids \cup Sweepers)
      /\ UncountedRemovals \in SUBSET (Ids \cup Sweepers) /\ table \in SUBSET (Ids \cup Sweepers)
  BY Zenon DEF Claimed, Owing, Uncounted, UncountedRemovals, CountInv, TypeOK
<1>C. /\ Cardinality(Claimed) \in Nat /\ Cardinality(Owing) \in Nat /\ Cardinality(Uncounted) \in Nat
      /\ Cardinality(UncountedRemovals) \in Nat /\ Cardinality(table) \in Nat
  BY <1>B, Finite, Zenon
<1>D. /\ count \in Int /\ accepted \in Nat /\ removed \in Nat /\ MaxSessions \in Int
      /\ pc \in [Actors -> TransportStates \cup WalkStates]
  BY MaxAssumption, Zenon DEF CountInv, TypeOK
<1>E. /\ count = Cardinality(table) + Cardinality(Claimed) + Cardinality(Owing)
      /\ accepted + Cardinality(Uncounted)
           = removed + Cardinality(UncountedRemovals) + Cardinality(table)
  BY Zenon DEF CountInv, CountExact, MetricsAddUp, Uncounted, UncountedRemovals
<1> DEFINE Goal == CountInv'
<1>F. ASSUME TableServed',
             count' = Cardinality(table') + Cardinality(Claimed') + Cardinality(Owing'),
             accepted' + Cardinality(Uncounted')
               = removed' + Cardinality(UncountedRemovals') + Cardinality(table'),
             MaxSessions > 0 => count' <= MaxSessions
      PROVE  Goal
  BY <1>0, <1>F, Zenon DEF CountInv, CountExact, CountBounded, MetricsAddUp, Uncounted, UncountedRemovals
<1>G. ASSUME UNCHANGED CountVars, TableServed' PROVE Goal
  BY <1>G, <1>0, CountKept, Zenon
<1> HIDE DEF Goal
<1> USE DEF Goto, walkVars, metricVars
<1>1. ASSUME NEW id \in Ids, RegisterClaim(id) PROVE Goal
  <2>1. CASE id \in table \/ AtCapacity
    <3>1. pc' = [pc EXCEPT ![id] = "refused"] /\ UNCHANGED <<table, count, accepted, removed>>
      BY <1>1, <2>1, Zenon DEF RegisterClaim
    <3>2. pc[id] = "new" /\ id \notin table
      BY <1>1, Zenon DEF RegisterClaim, CountInv, TableServed, Serving
    <3>3. UNCHANGED CountVars
      BY <3>1, <3>2, <1>A, <1>D, Zenon DEF CountVars, Claimed, Owing, Uncounted, UncountedRemovals
    <3>4. TableServed'
      BY <3>1, <3>2, <1>A, <1>D, Zenon DEF CountInv, TableServed, TypeOK
    <3> QED BY <3>3, <3>4, <1>G, Zenon
  <2>2. CASE ~(id \in table \/ AtCapacity)
    <3>1. /\ pc' = [pc EXCEPT ![id] = "insert"] /\ count' = count + 1
          /\ UNCHANGED <<table, accepted, removed>> /\ pc[id] = "new"
      BY <1>1, <2>2, Zenon DEF RegisterClaim
    <3>2. Claimed' = Claimed \cup {id} /\ id \notin Claimed
      BY <3>1, <1>A, <1>D, Zenon DEF Claimed
    <3>3. UNCHANGED <<Owing, Uncounted, UncountedRemovals>>
      BY <3>1, <1>A, <1>D, Zenon DEF Owing, Uncounted, UncountedRemovals
    <3>4. Cardinality(Claimed') = Cardinality(Claimed) + 1
      BY <3>2, <1>B, AddOne, Zenon
    <3>5. TableServed'
      BY <3>1, <2>2, <1>A, <1>D, Zenon DEF CountInv, TableServed, TypeOK
    <3>6. MaxSessions > 0 => count' <= MaxSessions
      BY <2>2, <3>1, <1>D DEF AtCapacity
    <3> QED BY <3>1, <3>3, <3>4, <3>5, <3>6, <1>C, <1>D, <1>E, <1>F
  <2> QED BY <2>1, <2>2, Zenon
<1>2. ASSUME NEW id \in Ids, RegisterInsert(id) PROVE Goal
  <2>1. /\ pc' = [pc EXCEPT ![id] = "opened"] /\ table' = table \cup {id}
        /\ UNCHANGED <<count, accepted, removed>> /\ pc[id] = "insert"
    BY <1>2, Zenon DEF RegisterInsert
  <2>2. id \notin table
    BY <2>1, Zenon DEF CountInv, TableServed, Serving
  <2>3. Claimed' = Claimed \ {id} /\ id \in Claimed
    BY <2>1, <1>A, <1>D, Zenon DEF Claimed
  <2>4. Uncounted' = Uncounted \cup {id} /\ id \notin Uncounted
    BY <2>1, <1>A, <1>D, Zenon DEF Uncounted
  <2>5. UNCHANGED <<Owing, UncountedRemovals>>
    BY <2>1, <1>A, <1>D, Zenon DEF Owing, UncountedRemovals
  <2>6. /\ Cardinality(table') = Cardinality(table) + 1
        /\ Cardinality(Claimed') = Cardinality(Claimed) - 1
        /\ Cardinality(Uncounted') = Cardinality(Uncounted) + 1
    <3>1. Cardinality(table \cup {id}) = Cardinality(table) + 1
      BY <2>2, <1>B, AddOne, Zenon
    <3>2. Cardinality(Claimed \ {id}) = Cardinality(Claimed) - 1
      BY <2>3, <1>B, TakeOne, Zenon
    <3>3. Cardinality(Uncounted \cup {id}) = Cardinality(Uncounted) + 1
      BY <2>4, <1>B, AddOne, Zenon
    <3> QED BY <2>1, <2>3, <2>4, <3>1, <3>2, <3>3, Zenon
  <2>7. TableServed'
    BY <2>1, <1>A, <1>D, Zenon DEF CountInv, TableServed, TypeOK, Serving
  <2>8. MaxSessions > 0 => count' <= MaxSessions
    BY <2>1, Zenon DEF CountInv, CountBounded
  <2> QED BY <2>1, <2>5, <2>6, <2>7, <2>8, <1>C, <1>D, <1>E, <1>F
<1>3. ASSUME NEW id \in Ids, RegisterCounts(id) PROVE Goal
  <2>1. /\ pc' = [pc EXCEPT ![id] = "openGauge"] /\ accepted' = accepted + 1
        /\ UNCHANGED <<table, count, removed>> /\ pc[id] = "opened"
    BY <1>3, Zenon DEF RegisterCounts
  <2>2. Uncounted' = Uncounted \ {id} /\ id \in Uncounted
    BY <2>1, <1>A, <1>D, Zenon DEF Uncounted
  <2>3. UNCHANGED <<Claimed, Owing, UncountedRemovals>>
    BY <2>1, <1>A, <1>D, Zenon DEF Claimed, Owing, UncountedRemovals
  <2>4. Cardinality(Uncounted') = Cardinality(Uncounted) - 1
    BY <2>2, <1>B, TakeOne, Zenon
  <2>5. TableServed'
    BY <2>1, <1>A, <1>D, Zenon DEF CountInv, TableServed, TypeOK, Serving
  <2>6. MaxSessions > 0 => count' <= MaxSessions
    BY <2>1, Zenon DEF CountInv, CountBounded
  <2> QED BY <2>1, <2>3, <2>4, <2>5, <2>6, <1>C, <1>D, <1>E, <1>F
<1>4. ASSUME NEW a \in Ids \cup Sweepers, NEW id \in Ids \cup {-1}, NEW l \in {"gone", "close"}, Unregister(a, id, l),
             pc[a] \in {"live", "refused", "remove"}, a \in Sweepers \/ a = id
      PROVE  Goal
  <2>0. UNCHANGED <<count, accepted, removed>> /\ pc[a] \in {"live", "refused", "remove"}
    BY <1>4, Zenon DEF Unregister
  <2>1. CASE id \in table
    <3>1. pc' = [pc EXCEPT ![a] = "dec"] /\ table' = table \ {id}
      BY <1>4, <2>1, Zenon DEF Unregister
    <3>2. Owing' = Owing \cup {a} /\ a \notin Owing
      BY <3>1, <2>0, <1>A, <1>D, Zenon DEF Owing
    <3>3. UncountedRemovals' = UncountedRemovals \cup {a} /\ a \notin UncountedRemovals
      BY <3>1, <2>0, <1>A, <1>D, Zenon DEF UncountedRemovals
    <3>4. UNCHANGED <<Claimed, Uncounted>>
      BY <3>1, <2>0, <1>A, <1>D, Zenon DEF Claimed, Uncounted
    <3>5. /\ Cardinality(table') = Cardinality(table) - 1
          /\ Cardinality(Owing') = Cardinality(Owing) + 1
          /\ Cardinality(UncountedRemovals') = Cardinality(UncountedRemovals) + 1
      <4>1. Cardinality(table \ {id}) = Cardinality(table) - 1
        BY <2>1, <1>B, TakeOne, Zenon
      <4>2. Cardinality(Owing \cup {a}) = Cardinality(Owing) + 1
        BY <3>2, <1>B, AddOne, Zenon
      <4>3. Cardinality(UncountedRemovals \cup {a}) = Cardinality(UncountedRemovals) + 1
        BY <3>3, <1>B, AddOne, Zenon
      <4> QED BY <3>1, <3>2, <3>3, <4>1, <4>2, <4>3, Zenon
    <3>6. TableServed'
      BY <3>1, <1>4, <1>A, <1>D, Zenon DEF CountInv, TableServed, TypeOK, Walkers
    <3>7. MaxSessions > 0 => count' <= MaxSessions
      BY <2>0, Zenon DEF CountInv, CountBounded
    <3> QED BY <2>0, <3>4, <3>5, <3>6, <3>7, <1>C, <1>D, <1>E, <1>F
  <2>2. CASE id \notin table
    <3>1. pc' = [pc EXCEPT ![a] = l] /\ table' = table
      BY <1>4, <2>2, Zenon DEF Unregister
    <3>2. UNCHANGED CountVars
      BY <3>1, <2>0, <1>A, <1>D, Zenon DEF CountVars, Claimed, Owing, Uncounted, UncountedRemovals
    <3>3. TableServed'
      BY <3>1, <1>4, <2>2, <1>A, <1>D, Zenon DEF CountInv, TableServed, TypeOK, Walkers
    <3> QED BY <3>2, <3>3, <1>G, Zenon
  <2> QED BY <2>1, <2>2, Zenon
<1>5. ASSUME NEW a \in Ids \cup Sweepers, UnregisterDec(a) PROVE Goal
  <2>1. /\ pc' = [pc EXCEPT ![a] = "closed"] /\ count' = count - 1
        /\ UNCHANGED <<table, accepted, removed>> /\ pc[a] = "dec"
    BY <1>5, Zenon DEF UnregisterDec
  <2>2. Owing' = Owing \ {a} /\ a \in Owing
    BY <2>1, <1>A, <1>D, Zenon DEF Owing
  <2>3. UNCHANGED <<Claimed, Uncounted, UncountedRemovals>>
    BY <2>1, <1>A, <1>D, Zenon DEF Claimed, Uncounted, UncountedRemovals
  <2>4. Cardinality(Owing') = Cardinality(Owing) - 1
    BY <2>2, <1>B, TakeOne, Zenon
  <2>5. TableServed'
    BY <2>1, <1>A, <1>D, Zenon DEF CountInv, TableServed, TypeOK, Serving
  <2>6. MaxSessions > 0 => count' <= MaxSessions
    BY <2>1, <1>D DEF CountInv, CountBounded
  <2> QED BY <2>1, <2>3, <2>4, <2>5, <2>6, <1>C, <1>D, <1>E, <1>F
<1>6. ASSUME NEW a \in Ids \cup Sweepers, UnregisterCounts(a) PROVE Goal
  <2>1. /\ pc' = [pc EXCEPT ![a] = "closeGauge"] /\ removed' = removed + 1
        /\ UNCHANGED <<table, count, accepted>> /\ pc[a] = "closed"
    BY <1>6, Zenon DEF UnregisterCounts
  <2>2. UncountedRemovals' = UncountedRemovals \ {a} /\ a \in UncountedRemovals
    BY <2>1, <1>A, <1>D, Zenon DEF UncountedRemovals
  <2>3. UNCHANGED <<Claimed, Owing, Uncounted>>
    BY <2>1, <1>A, <1>D, Zenon DEF Claimed, Owing, Uncounted
  <2>4. Cardinality(UncountedRemovals') = Cardinality(UncountedRemovals) - 1
    BY <2>2, <1>B, TakeOne, Zenon
  <2>5. TableServed'
    BY <2>1, <1>A, <1>D, Zenon DEF CountInv, TableServed, TypeOK, Serving
  <2>6. MaxSessions > 0 => count' <= MaxSessions
    BY <2>1, Zenon DEF CountInv, CountBounded
  <2> QED BY <2>1, <2>3, <2>4, <2>5, <2>6, <1>C, <1>D, <1>E, <1>F
(* The steps that touch neither the table nor a counter. *)
<1>7. ASSUME NEW a \in Actors, NEW l \in {"live", "gone", "close", "walk", "top", "timedOut", "returned", "remove"},
             pc' = [pc EXCEPT ![a] = l], UNCHANGED <<table, count, accepted, removed>>,
             \/ a \in Walkers /\ pc[a] \in {"idle", "top", "walk", "close", "closeGauge"}
             \/ a \in Ids /\ pc[a] = "openGauge" /\ l = "live"
             \/ a \in Ids /\ pc[a] = "closeGauge"
      PROVE  Goal
  <2>1. UNCHANGED CountVars
    BY <1>7, <1>A, <1>D, Zenon DEF CountVars, Claimed, Owing, Uncounted, UncountedRemovals
  <2>2. TableServed'
    BY <1>7, <1>A, <1>D, Zenon DEF CountInv, TableServed, TypeOK, Serving
  <2> QED BY <2>1, <2>2, <1>G, Zenon
<1>8. ASSUME UNCHANGED <<table, count, accepted, removed, pc>> PROVE Goal
  <2>1. UNCHANGED CountVars
    BY <1>8, Zenon DEF CountVars, Claimed, Owing, Uncounted, UncountedRemovals
  <2>2. TableServed'
    BY <1>8, Zenon DEF CountInv, TableServed
  <2> QED BY <2>1, <2>2, <1>G, Zenon
<1>9. ASSUME NEW id \in Ids, Transport(id) PROVE Goal
  <2>1. CASE RegisterGauge(id)
    BY <2>1, <1>7, Zenon DEF RegisterGauge, Actors
  <2>2. CASE TransportEnds(id)
    <3>1. /\ id \in Ids \cup Sweepers /\ id \in Ids \cup {-1}
          /\ pc[id] \in {"live", "refused", "remove"} /\ Unregister(id, id, "gone")
      BY <2>2, Zenon DEF TransportEnds
    <3> QED BY ONLY <3>1, <1>4, Zenon
  <2> QED BY <1>9, <1>1, <1>2, <1>3, <2>1, <2>2, Zenon DEF Transport
<1>10. ASSUME NEW a \in Ids \cup Sweepers, Removal(a) PROVE Goal
  <2>1. CASE UnregisterGauge(a)
    <3>1. a \in Actors /\ (a \in Ids \/ a \in Walkers)
      BY Zenon DEF Actors, Walkers
    <3>2. PICK l \in {"gone", "close"} : pc' = [pc EXCEPT ![a] = l]
      BY <2>1, Zenon DEF UnregisterGauge
    <3> QED BY <2>1, <3>1, <3>2, <1>7, Zenon DEF UnregisterGauge
  <2> QED BY <1>10, <1>5, <1>6, <2>1, Zenon DEF Removal
<1>11. ASSUME NEW x \in Walkers, VisitShard(x) PROVE Goal
  BY <1>11, <1>8, Zenon DEF VisitShard
<1>12. ASSUME NEW x \in Sweepers, Sweep(x) PROVE Goal
  <2>0. x \in Walkers /\ x \in Actors
    BY Zenon DEF Actors, Walkers
  <2>1. CASE CloseAll(x)
    BY <2>0, <2>1, <1>7, Zenon DEF CloseAll
  <2>2. CASE CloseAllTop(x)
    BY <2>0, <2>2, <1>7, Zenon DEF CloseAllTop, StartWalk
  <2>3. CASE CloseAllSnapshot(x)
    <3>1. PICK l \in {"returned", "close"} : pc' = [pc EXCEPT ![x] = l]
      BY <2>3, Zenon DEF CloseAllSnapshot
    <3> QED BY <2>0, <2>3, <3>1, <1>7, Zenon DEF CloseAllSnapshot
  <2>4. CASE CloseAllNext(x)
    BY <2>0, <2>4, <1>7, Zenon DEF CloseAllNext
  <2>5. CASE CloseAllRemove(x)
    <3>1. goal[x] \in Ids \cup {-1} /\ pc[x] = "remove" /\ Unregister(x, goal[x], "close")
      BY <2>5, Zenon DEF CloseAllRemove, CountInv, TypeOK
    <3> QED BY <3>1, <1>4, Zenon
  <2> QED BY <1>12, <1>11, <2>0, <2>1, <2>2, <2>3, <2>4, <2>5, Zenon DEF Sweep
<1>13. ASSUME NEW x \in Casters, Cast(x) PROVE Goal
  <2>0. x \in Walkers /\ x \in Actors
    BY Zenon DEF Actors, Walkers
  <2>1. CASE Broadcast(x)
    BY <2>0, <2>1, <1>7, Zenon DEF Broadcast, StartWalk
  <2>2. CASE BroadcastSend(x)
    <3>1. pc[x] = "walk" /\ pc' = [pc EXCEPT ![x] = "returned"] /\ UNCHANGED <<table, count, accepted, removed>>
      BY <2>2, Zenon DEF BroadcastSend
    <3> QED BY <2>0, <3>1, <1>7, Zenon
  <2> QED BY <1>13, <1>11, <2>0, <2>1, <2>2, Zenon DEF Cast
<1>14. ASSUME UNCHANGED vars PROVE Goal
  BY <1>14, <1>8, Zenon DEF vars
<1> QED
  <2>1. Goal
    BY <1>9, <1>10, <1>12, <1>13, <1>14, Zenon DEF Next, Finished
  <2> QED BY <2>1, Zenon DEF Goal

LEMMA CountInit == Init => CountInv
<1> SUFFICES ASSUME Init PROVE CountInv
  BY Zenon
<1>1. TypeOK
  BY ShardsAssumption DEF Init, TypeOK, Actors, Walkers, TransportStates, WalkStates
<1>2. table = {} /\ Claimed = {} /\ Owing = {} /\ Uncounted = {} /\ UncountedRemovals = {}
  BY WalkersAssumption, Zenon DEF Init, Claimed, Owing, Uncounted, UncountedRemovals, Actors, Walkers
<1>3. Cardinality({}) = 0
  BY FS_EmptySet, Zenon
<1>4. count = 0 /\ accepted = 0 /\ removed = 0
  BY Zenon DEF Init
<1>5. TableServed /\ CountExact /\ CountBounded
  BY <1>2, <1>3, <1>4, MaxAssumption DEF TableServed, CountExact, CountBounded
<1>6. accepted + Cardinality(Uncounted) = removed + Cardinality(UncountedRemovals) + Cardinality(table)
  BY <1>2, <1>3, <1>4
<1> QED
  BY <1>1, <1>5, <1>6, Zenon DEF CountInv, MetricsAddUp, Uncounted, UncountedRemovals

LEMMA CountInvariance == Spec => []CountInv
BY CountInit, CountStep, PTL DEF Spec

(* Register and Unregister keep the counter exact: it is the table plus the  *)
(* claims and removals in flight, for any number of shards and goroutines.   *)
THEOREM CountIsExact == Spec => []CountExact
<1>1. CountInv => CountExact
  BY Zenon DEF CountInv
<1> QED BY <1>1, CountInvariance, PTL

(* Register's claim on the shared counter keeps all shards together within   *)
(* MaxSessions.                                                              *)
THEOREM CapacityHolds == Spec => []WithinCapacity
<1>1. CountInv => WithinCapacity
  <2> SUFFICES ASSUME CountInv, MaxSessions > 0 PROVE Cardinality(table) <= MaxSessions
    BY Zenon DEF WithinCapacity
  <2>1. table \in SUBSET (Ids \cup Sweepers) /\ Claimed \in SUBSET (Ids \cup Sweepers)
        /\ Owing \in SUBSET (Ids \cup Sweepers)
    BY Zenon DEF CountInv, TypeOK, Claimed, Owing
  <2>2. Cardinality(table) \in Nat /\ Cardinality(Claimed) \in Nat /\ Cardinality(Owing) \in Nat
    BY <2>1, Finite, Zenon
  <2> QED BY <2>2, MaxAssumption DEF CountInv, CountExact, CountBounded
<1> QED BY <1>1, CountInvariance, PTL

(* The metrics decorator counts every accepted session and every removal     *)
(* once, although transports and CloseAll unregister the same sessions.      *)
THEOREM MetricsHold == Spec => []MetricsAddUp
<1>1. CountInv => MetricsAddUp
  BY Zenon DEF CountInv
<1> QED BY <1>1, CountInvariance, PTL

-----------------------------------------------------------------------------
(* What CloseAll relies on: whoever takes a session out of the table is its  *)
(* own transport or has closed it first; a session that was registered once  *)
(* never registers again; and the shards a sweep has visited hold no session *)
(* of `before' that it did not see.                                          *)
Dropped == {"dec", "closed", "closeGauge", "gone"}

SweepRest ==
  /\ TableServed
  /\ \A id \in Ids : id \notin table /\ pc[id] \in Serving => id \in ended
  /\ \A x \in Sweepers : pc[x] = "remove" => goal[x] \in ended
  /\ \A x \in Sweepers : \A id \in before[x] : pc[id] \in Serving \cup Dropped
  /\ \A x \in Sweepers : pc[x] = "walk" =>
       \A id \in before[x] \cap table : Shard(id) < walk[x] => id \in seen[x]
  /\ \A x \in Sweepers : pc[x] = "returned" => before[x] \cap table = {}

SweepInv == TypeOK /\ SweepRest

LEMMA ShardRange == \A id \in Ids : Shard(id) \in Nat /\ Shard(id) < Shards
BY IdsAssumption, ShardsAssumption DEF Shard

LEMMA NextAfter == ASSUME NEW a \in Nat, NEW b \in Nat, a < b + 1 PROVE a < b \/ a = b
OBVIOUS

LEMMA SweepInit == Init => SweepInv
BY CountInit, WalkersAssumption, Zenon DEF CountInv, Init, SweepInv, SweepRest, Serving, Actors, Walkers

LEMMA SweepStep == SweepInv /\ [Next]_vars => SweepInv'
<1> SUFFICES ASSUME TypeOK, TypeOK', SweepRest, [Next]_vars PROVE SweepRest'
  BY TypeStep, Zenon DEF SweepInv
<1> DEFINE Goal == SweepRest'
<1>0. /\ table \subseteq Ids /\ pc \in [Actors -> TransportStates \cup WalkStates]
      /\ walk \in [Walkers -> 0..Shards] /\ seen \in [Walkers -> SUBSET Ids]
      /\ goal \in [Sweepers -> Ids \cup {-1}] /\ before \in [Sweepers -> SUBSET Ids]
  BY Zenon DEF TypeOK
<1>A. Ids \cap Walkers = {} /\ Sweepers \cap Casters = {} /\ Sweepers \subseteq Walkers
  BY WalkersAssumption, Zenon DEF Walkers
<1> USE DEF Goto, walkVars, metricVars, SweepRest, TableServed, Actors, Serving, Dropped
<1>1. ASSUME NEW id \in Ids, Transport(id) PROVE Goal
  <2>1. CASE RegisterClaim(id) BY <1>0, <1>A, <2>1 DEF RegisterClaim
  <2>2. CASE RegisterInsert(id) BY <1>0, <1>A, <2>2 DEF RegisterInsert
  <2>3. CASE RegisterCounts(id) BY <1>0, <1>A, <2>3, Zenon DEF RegisterCounts
  <2>4. CASE RegisterGauge(id) BY <1>0, <1>A, <2>4, Zenon DEF RegisterGauge
  <2>5. CASE TransportEnds(id) BY <1>0, <1>A, <2>5, Zenon DEF TransportEnds, Unregister
  <2> QED BY <1>1, <2>1, <2>2, <2>3, <2>4, <2>5, Zenon DEF Transport
<1>2. ASSUME NEW a \in Ids \cup Sweepers, Removal(a) PROVE Goal
  <2>1. CASE UnregisterDec(a) BY <1>0, <1>A, <2>1, Zenon DEF UnregisterDec
  <2>2. CASE UnregisterCounts(a) BY <1>0, <1>A, <2>2, Zenon DEF UnregisterCounts
  <2>3. CASE UnregisterGauge(a) BY <1>0, <1>A, <2>3 DEF UnregisterGauge
  <2> QED BY <1>2, <2>1, <2>2, <2>3, Zenon DEF Removal
<1>3. ASSUME NEW x \in Walkers, VisitShard(x) PROVE Goal
  <2>1. /\ UNCHANGED <<table, ended, pc, goal, before>>
        /\ walk' = [walk EXCEPT ![x] = @ + 1]
        /\ seen' = [seen EXCEPT ![x] = @ \cup InShard(walk[x])]
    BY <1>3, Zenon DEF VisitShard
  <2>2. ASSUME NEW y \in Sweepers, pc'[y] = "walk", NEW id \in before'[y] \cap table', Shard(id) < walk'[y]
        PROVE  id \in seen'[y]
    <3>1. id \in Ids /\ id \in before[y] \cap table /\ pc[y] = "walk" /\ y \in Walkers
      BY <1>0, <2>1, <2>2, <1>A, Zenon
    <3>2. Shard(id) \in Nat /\ walk[y] \in Nat
      BY <1>0, <3>1, ShardRange, ShardsAssumption
    <3>3. CASE y # x
      BY <2>1, <2>2, <3>1, <3>3
    <3>4. CASE y = x
      <4>1. Shard(id) < walk[x] + 1
        BY <1>0, <2>1, <2>2, <3>1, <3>4, Zenon
      <4>2. CASE Shard(id) < walk[x]
        BY <2>1, <3>1, <3>4, <4>2
      <4>3. CASE Shard(id) = walk[x]
        BY <1>0, <2>1, <3>1, <3>4, <4>3, Zenon DEF InShard
      <4>4. Shard(id) < walk[x] \/ Shard(id) = walk[x]
        BY <3>2, <3>4, <4>1, NextAfter, Zenon
      <4> QED BY <4>2, <4>3, <4>4, Zenon
    <3> QED BY <3>3, <3>4, Zenon
  <2> QED
    BY <1>0, <2>1, <2>2, Zenon
<1>4. ASSUME NEW x \in Sweepers, Sweep(x) PROVE Goal
  <2>1. CASE CloseAll(x) BY <1>0, <1>A, <2>1 DEF CloseAll
  <2>2. CASE CloseAllTop(x)
    <3>1. CASE StartWalk(x)
      <4>1. /\ UNCHANGED <<table, ended, goal, before>> /\ pc[x] = "top"
            /\ pc' = [pc EXCEPT ![x] = "walk"]
            /\ walk' = [walk EXCEPT ![x] = 0]
            /\ seen' = [seen EXCEPT ![x] = {}]
        BY <2>2, <3>1, Zenon DEF CloseAllTop, StartWalk
      <4>2. ASSUME NEW y \in Sweepers, pc'[y] = "walk", NEW id \in before'[y] \cap table', Shard(id) < walk'[y]
            PROVE  id \in seen'[y]
        <5>1. CASE y # x
          BY <1>A, <4>1, <4>2, <5>1
        <5>2. CASE y = x
          <6>1. walk'[y] = 0
            BY <1>0, <1>A, <4>1, <5>2, Zenon
          <6>2. Shard(id) \in Nat
            BY <1>0, <4>1, ShardRange, Zenon
          <6> QED BY <4>2, <6>1, <6>2
        <5> QED BY <5>1, <5>2, Zenon
      <4> QED BY <1>0, <1>A, <4>1, <4>2, Zenon
    <3>2. CASE Goto(x, "timedOut") /\ UNCHANGED <<walk, seen>>
      BY <1>0, <1>A, <2>2, <3>2, Zenon DEF CloseAllTop
    <3> QED BY <2>2, <3>1, <3>2, Zenon DEF CloseAllTop
  <2>3. CASE CloseAllSnapshot(x) BY <1>0, <1>A, <2>3, ShardRange, Zenon DEF CloseAllSnapshot
  <2>4. CASE CloseAllNext(x) BY <1>0, <1>A, <2>4 DEF CloseAllNext
  <2>5. CASE CloseAllRemove(x) BY <1>0, <1>A, <2>5 DEF CloseAllRemove, Unregister
  <2> QED BY <1>A, <1>3, <1>4, <2>1, <2>2, <2>3, <2>4, <2>5, Zenon DEF Sweep
<1>5. ASSUME NEW x \in Casters, Cast(x) PROVE Goal
  <2>1. CASE Broadcast(x) BY <1>0, <1>A, <2>1 DEF Broadcast, StartWalk, Walkers
  <2>2. CASE BroadcastSend(x) BY <1>0, <1>A, <2>2 DEF BroadcastSend, Walkers
  <2> QED BY <1>3, <1>5, <2>1, <2>2, Zenon DEF Cast, Walkers
<1>6. ASSUME UNCHANGED vars PROVE Goal
  BY <1>0, <1>6, Zenon DEF vars
<1> QED BY <1>1, <1>2, <1>4, <1>5, <1>6, Zenon DEF Next, Finished

(* A CloseAll that returns before its deadline leaves none of the sessions   *)
(* registered that were registered when it was called, and each of them was  *)
(* closed or is being dropped by its transport.                              *)
THEOREM CloseAllIsComplete == Spec => []CloseAllClears
<1>1. SweepInv => CloseAllClears
  BY Zenon DEF SweepInv, SweepRest, CloseAllClears, TypeOK, Serving, Dropped
<1> QED BY <1>1, SweepInit, SweepStep, PTL DEF Spec

(* Register, Unregister and CloseAll keep every promise the run checks       *)
(* together.                                                                 *)
THEOREM IndexIsExact == Spec => []IndexExact
<1>1. CountInv => TypeOK
  BY Zenon DEF CountInv
<1>2. TypeOK /\ CountExact /\ WithinCapacity /\ MetricsAddUp /\ CloseAllClears => IndexExact
  BY Zenon DEF IndexExact
<1> QED
  BY <1>1, <1>2, CountInvariance, CountIsExact, CapacityHolds, MetricsHold, CloseAllIsComplete, PTL

-----------------------------------------------------------------------------
(* RequestServer. *)
Words == {"503", "405", "413", "400", "403", "204", "500", "text", "data", "frame", "trailer0", "trailer13"}

ReqTypes ==
  /\ rKind \in {"http", "grpcweb"} /\ limit \in Limits /\ (rKind = "http" => framed = {})
  /\ rPc \in [Requests -> {"new", "body", "register", "onAccept", "onMessage",
                          "handler", "result", "deferred", "served", "end"}]
  /\ out \in [Requests -> Seq(Words)]
  /\ framed \subseteq Requests /\ released \subseteq Requests /\ rRegistered \subseteq Requests
  /\ rLive \subseteq Requests /\ rAccepted \subseteq Requests /\ failed \subseteq Requests
  /\ rOnClosed \in [Requests -> {0, 1}] /\ sends \in [Requests -> 0..limit.sends]

(* The requests in their handlers hold a slot. *)
InHandlers == {r \in Requests : rPc[r] \notin {"new", "end"}}
ReqSlots == rSlots = Cardinality(InHandlers) /\ rSlots <= limit.conns

(* What the handler's Send calls wrote, and what the client can tell.        *)
Sent(r) == \A i \in 1..Len(out[r]) : out[r][i] = IF r \in framed THEN "frame" ELSE "data"

Told(r) ==
  out[r] # << >> =>
    LET n == Len(out[r]) IN
    IF r \in framed /\ r \in rAccepted /\ out[r][n] \notin {"204", "400"}
    THEN /\ out[r][n] = IF r \in failed THEN "trailer13" ELSE "trailer0"
         /\ \A i \in 1..(n - 1) : out[r][i] = "frame"
    ELSE /\ \A i \in 1..n : out[r][i] \notin Trailers
         /\ Head(out[r]) # "data" => n = 1
         /\ rKind = "http" /\ r \in failed => out[r][n] \in {"500", "text"}

(* What is known of a request: before OnAccept nothing was promised to a     *)
(* plugin and nothing written; once the deferred calls ran, all is settled.  *)
ReqOf(r) ==
  /\ rPc[r] \in {"new", "body", "register"} => r \notin rRegistered /\ r \notin rLive
  /\ rPc[r] \in {"new", "body", "register", "onAccept"} => r \notin rAccepted
  /\ rPc[r] \in {"new", "body", "register", "onAccept", "onMessage"} => out[r] = << >>
  /\ rPc[r] \in {"new", "body", "register", "onAccept", "onMessage", "handler"} => r \notin failed
  /\ rPc[r] \notin {"served", "end"} => rOnClosed[r] = 0
  /\ rPc[r] \in {"onMessage", "handler", "result"} => r \in rAccepted
  /\ rPc[r] \in {"handler", "result"} => Sent(r)
  /\ rPc[r] \in {"deferred", "served", "end"} => Told(r)
  /\ rPc[r] \in {"served", "end"} => /\ r \notin rRegistered /\ r \notin rLive
                                     /\ rOnClosed[r] = IF r \in rAccepted THEN 1 ELSE 0
  /\ rPc[r] # "end" => r \notin released

ReqInv == ReqTypes /\ ReqSlots /\ \A r \in Requests : ReqOf(r)

LEMMA ReqLimit ==
  ASSUME ReqTypes
  PROVE limit.conns \in Nat /\ limit.sends \in Nat
BY RequestsAssumption, Zenon DEF ReqTypes

LEMMA ReqInitInv == RequestInit => ReqInv
<1> SUFFICES ASSUME RequestInit PROVE ReqInv
  BY Zenon
<1>0. limit.conns \in Nat /\ limit.sends \in Nat
  BY RequestsAssumption, Zenon DEF RequestInit
<1>1. ReqTypes
  <2>1. out \in [Requests -> Seq(Words)]
    BY DEF RequestInit
  <2>2. sends \in [Requests -> 0..limit.sends]
    BY <1>0 DEF RequestInit
  <2> QED
    BY <2>1, <2>2, Zenon DEF RequestInit, ReqTypes
<1>2. InHandlers = {}
  BY Zenon DEF RequestInit, InHandlers
<1>3. ReqSlots
  BY <1>0, <1>2, FS_EmptySet DEF RequestInit, ReqSlots
<1>4. ASSUME NEW r \in Requests PROVE ReqOf(r)
  BY Zenon DEF RequestInit, ReqOf
<1> QED
  BY <1>1, <1>3, <1>4, Zenon DEF ReqInv

-----------------------------------------------------------------------------
LEMMA ReqFinite == IsFiniteSet(InHandlers) /\ Cardinality(InHandlers) \in Nat
<1>1. InHandlers \subseteq Requests
  BY Zenon DEF InHandlers
<1> QED
  BY <1>1, FS_Subset, FS_CardinalityType, RequestsAssumption, Zenon

LEMMA ReqSame ==
  ASSUME ReqSlots, rSlots' = rSlots, limit' = limit,
         \A d \in Requests : rPc'[d] \in {"new", "end"} <=> rPc[d] \in {"new", "end"}
  PROVE ReqSlots'
<1>1. InHandlers' = InHandlers
  BY Zenon DEF InHandlers
<1> QED
  BY <1>1, Zenon DEF ReqSlots

LEMMA ReqMore ==
  ASSUME ReqTypes, ReqSlots, NEW r \in Requests, rSlots' = rSlots + 1, rSlots < limit.conns, limit' = limit,
         rPc[r] = "new", rPc' = [rPc EXCEPT ![r] = "body"]
  PROVE ReqSlots'
<1>1. InHandlers' = InHandlers \cup {r} /\ r \notin InHandlers
  BY Zenon DEF InHandlers, ReqTypes
<1>2. Cardinality(InHandlers') = Cardinality(InHandlers) + 1
  BY <1>1, ReqFinite, FS_AddElement, Zenon
<1>3. Cardinality(InHandlers)' = Cardinality(InHandlers')
  BY Zenon
<1> QED
  BY <1>2, <1>3, ReqFinite, ReqLimit DEF ReqSlots

LEMMA ReqLess ==
  ASSUME ReqTypes, ReqSlots, NEW r \in Requests, rSlots' = rSlots - 1, limit' = limit,
         rPc[r] = "served", rPc' = [rPc EXCEPT ![r] = "end"]
  PROVE ReqSlots'
<1>1. InHandlers' = InHandlers \ {r} /\ r \in InHandlers
  BY Zenon DEF InHandlers, ReqTypes
<1>2. Cardinality(InHandlers') = Cardinality(InHandlers) - 1
  BY <1>1, ReqFinite, FS_RemoveElement, Zenon
<1>3. Cardinality(InHandlers)' = Cardinality(InHandlers')
  BY Zenon
<1> QED
  BY <1>2, <1>3, ReqFinite, ReqLimit DEF ReqSlots

-----------------------------------------------------------------------------
(* What a write appends. *)
LEMMA WriteAppends ==
  ASSUME ReqTypes, NEW r \in Requests, NEW w \in Words, out' = [out EXCEPT ![r] = Append(@, w)]
  PROVE /\ out' \in [Requests -> Seq(Words)] /\ out'[r] # << >>
        /\ Len(out[r]) \in Nat /\ Len(out'[r]) = Len(out[r]) + 1 /\ out'[r][Len(out'[r])] = w
        /\ \A i \in 1..Len(out[r]) : out'[r][i] = out[r][i]
        /\ Head(out'[r]) = out'[r][1]
        /\ \A d \in Requests : d # r => out'[d] = out[d]
<1>1. out[r] \in Seq(Words)
  BY Zenon DEF ReqTypes
<1>2. out'[r] = Append(out[r], w) /\ \A d \in Requests : d # r => out'[d] = out[d]
  BY Zenon DEF ReqTypes
<1>3. Append(out[r], w) \in Seq(Words)
  BY <1>1
<1>4. out' \in [Requests -> Seq(Words)]
  BY <1>3, Zenon DEF ReqTypes
<1> QED
  BY <1>1, <1>2, <1>3, <1>4

LEMMA StatusFirst ==
  ASSUME ReqTypes, NEW r \in Requests, NEW code \in Words, out[r] = << >>, Status(r, code)
  PROVE /\ out' \in [Requests -> Seq(Words)] /\ out'[r] # << >> /\ Len(out'[r]) = 1 /\ out'[r][1] = code
        /\ Head(out'[r]) = code /\ \A d \in Requests : d # r => out'[d] = out[d]
<1>1. out' = [out EXCEPT ![r] = Append(@, code)]
  BY Zenon DEF Status, ReqTypes
<1>2. Len(out[r]) = 0
  OBVIOUS
<1>3. /\ out' \in [Requests -> Seq(Words)] /\ out'[r] # << >>
      /\ Len(out'[r]) = Len(out[r]) + 1 /\ out'[r][Len(out'[r])] = code
      /\ Head(out'[r]) = out'[r][1] /\ \A d \in Requests : d # r => out'[d] = out[d]
  BY <1>1, WriteAppends, Zenon
<1>4. Len(out'[r]) = 1
  BY <1>2, <1>3
<1> QED
  BY <1>3, <1>4, Zenon

-----------------------------------------------------------------------------
(* What the step of one request leaves alone of the others. *)
LEMMA ReqKeeps ==
  ASSUME NEW d \in Requests, ReqOf(d), framed' = framed, rKind' = rKind, rPc'[d] = rPc[d], out'[d] = out[d],
         d \in rAccepted' <=> d \in rAccepted, d \in failed' <=> d \in failed,
         d \in rRegistered' <=> d \in rRegistered, d \in rLive' => d \in rLive,
         d \in released' <=> d \in released, rOnClosed'[d] = rOnClosed[d]
  PROVE ReqOf(d)'
<1>1. Sent(d) => Sent(d)'
  BY Zenon DEF Sent
<1>2. Told(d) => Told(d)'
  BY Zenon DEF Told
<1> QED
  BY <1>1, <1>2, Zenon DEF ReqOf

(* A refusal before the handler is one status, told at once. *)
LEMMA ReqRefused ==
  ASSUME ReqTypes, NEW r \in Requests, NEW code \in {"503", "405", "413", "400", "403", "204"}, out[r] = << >>,
         Status(r, code), r \notin failed', r \in rAccepted' => code \in {"204", "400"}
  PROVE Told(r)' /\ out' \in [Requests -> Seq(Words)] /\ \A d \in Requests : d # r => out'[d] = out[d]
<1>1. code \in Words
  BY Zenon DEF Words
<1>2. /\ out' \in [Requests -> Seq(Words)] /\ out'[r] # << >> /\ Len(out'[r]) = 1 /\ out'[r][1] = code
      /\ Head(out'[r]) = code /\ \A d \in Requests : d # r => out'[d] = out[d]
  BY <1>1, StatusFirst, Zenon
<1>3. Told(r)'
  BY <1>2 DEF Told, Trailers
<1> QED
  BY <1>2, <1>3, Zenon

(* The steps up to the handler. *)
LEMMA ReqOpenStep ==
  ASSUME ReqInv, NEW r \in Requests, Admit(r) \/ ReadBody(r) \/ RequestRegister(r) \/ RequestOnAccept(r) \/ OnMessage(r)
  PROVE ReqInv'
<1> USE DEF Go, built, books
<1>0. ReqTypes /\ ReqSlots /\ ReqOf(r) /\ \A d \in Requests : ReqOf(d)
  BY Zenon DEF ReqInv
<1>1. /\ rKind' = rKind /\ limit' = limit /\ framed' = framed /\ released' = released /\ rOnClosed' = rOnClosed
      /\ failed' = failed /\ sends' = sends
  BY Zenon DEF Admit, ReadBody, RequestRegister, RequestOnAccept, OnMessage
<1>2. rPc[r] \in {"new", "body", "register", "onAccept", "onMessage"} /\ out[r] = << >> /\ r \notin failed
  BY <1>0, Zenon DEF Admit, ReadBody, RequestRegister, RequestOnAccept, OnMessage, ReqOf
<1>3. PICK to \in {"body", "register", "onAccept", "onMessage", "handler", "deferred", "served", "end"} :
        rPc' = [rPc EXCEPT ![r] = to]
  BY Zenon DEF Admit, ReadBody, RequestRegister, RequestOnAccept, OnMessage
<1>4. rPc'[r] = to /\ rPc' \in [Requests -> {"new", "body", "register", "onAccept", "onMessage",
                                            "handler", "result", "deferred", "served", "end"}]
        /\ \A d \in Requests : d # r => rPc'[d] = rPc[d]
  BY <1>0, <1>3, Zenon DEF ReqTypes
<1>5. /\ rRegistered' \subseteq Requests /\ rLive' \subseteq Requests /\ rAccepted' \subseteq Requests
      /\ \A d \in Requests : d # r => /\ d \in rRegistered' <=> d \in rRegistered
                                      /\ d \in rLive' <=> d \in rLive
                                      /\ d \in rAccepted' <=> d \in rAccepted
  <2>1. /\ rRegistered' = rRegistered \/ rRegistered' = rRegistered \cup {r}
        /\ rLive' = rLive \/ rLive' = rLive \cup {r}
        /\ rAccepted' = rAccepted \/ rAccepted' = rAccepted \cup {r}
    BY Zenon DEF Admit, ReadBody, RequestRegister, RequestOnAccept, OnMessage
  <2> QED
    BY <1>0, <2>1, Zenon DEF ReqTypes
<1>6. \/ to \in {"body", "register", "onAccept", "onMessage", "handler"} /\ out' = out
      \/ /\ to \in {"deferred", "served", "end"} /\ rAccepted' = rAccepted
         /\ \E code \in {"503", "405", "413", "400", "403", "204"} :
              Status(r, code) /\ (r \in rAccepted' => code \in {"204", "400"})
  BY <1>0, <1>4, Zenon DEF ReqOf, Admit, ReadBody, RequestRegister, RequestOnAccept, OnMessage
<1>7. /\ out' \in [Requests -> Seq(Words)] /\ \A d \in Requests : d # r => out'[d] = out[d]
      /\ to \in {"deferred", "served", "end"} => Told(r)'
      /\ to \in {"body", "register", "onAccept", "onMessage", "handler"} => out'[r] = << >>
  <2>1. CASE to \in {"body", "register", "onAccept", "onMessage", "handler"} /\ out' = out
    BY <1>0, <1>2, <2>1, Zenon DEF ReqTypes
  <2>2. ASSUME to \in {"deferred", "served", "end"}, NEW code \in {"503", "405", "413", "400", "403", "204"},
               Status(r, code), r \in rAccepted' => code \in {"204", "400"}
        PROVE /\ out' \in [Requests -> Seq(Words)] /\ Told(r)' /\ \A d \in Requests : d # r => out'[d] = out[d]
    BY <1>0, <1>1, <1>2, <2>2, ReqRefused, Zenon
  <2> QED
    BY <1>6, <2>1, <2>2, Zenon
<1>8. ReqTypes'
  BY <1>0, <1>1, <1>4, <1>5, <1>7, Zenon DEF ReqTypes
<1>9. ReqSlots'
  <2>1. CASE Admit(r) /\ rSlots' = rSlots + 1
    <3>1. rSlots < limit.conns /\ rPc[r] = "new" /\ rPc' = [rPc EXCEPT ![r] = "body"]
      BY <1>0, <2>1, ReqFinite DEF Admit, ReqSlots
    <3> QED
      BY <1>0, <1>1, <2>1, <3>1, ReqMore, Zenon
  <2>2. CASE ~(Admit(r) /\ rSlots' = rSlots + 1)
    <3>1. rSlots' = rSlots /\ (to = "end" <=> rPc[r] = "new")
      BY <1>4, <2>2, Zenon DEF Admit, ReadBody, RequestRegister, RequestOnAccept, OnMessage
    <3>2. \A d \in Requests : rPc'[d] \in {"new", "end"} <=> rPc[d] \in {"new", "end"}
      BY <1>2, <1>4, <3>1, Zenon
    <3> QED
      BY <1>0, <1>1, <3>1, <3>2, ReqSame, Zenon
  <2> QED
    BY <2>1, <2>2, Zenon
<1>10. ReqOf(r)'
  <2>1. /\ to \in {"body", "register"} => rRegistered' = rRegistered /\ rLive' = rLive
        /\ to \in {"body", "register", "onAccept"} => r \notin rAccepted'
        /\ to \in {"onMessage", "handler"} => r \in rAccepted'
        /\ to \in {"served", "end"} => r \notin rRegistered' /\ r \notin rLive' /\ r \notin rAccepted'
        /\ to \in {"body", "register"} => rPc[r] \in {"new", "body"}
    BY <1>0, <1>4, Zenon DEF ReqOf, Admit, ReadBody, RequestRegister, RequestOnAccept, OnMessage
  <2>2. to = "handler" => Sent(r)'
    BY <1>7 DEF Sent
  <2> QED
    BY <1>0, <1>1, <1>2, <1>4, <1>7, <2>1, <2>2, Zenon DEF ReqOf
<1>11. ASSUME NEW d \in Requests PROVE ReqOf(d)'
  <2>1. CASE d = r
    BY <1>10, <2>1, Zenon
  <2>2. CASE d # r
    <3>1. ReqOf(d) /\ rPc'[d] = rPc[d] /\ out'[d] = out[d]
      BY <1>0, <1>4, <1>7, <2>2, Zenon
    <3> QED
      BY <1>1, <1>5, <2>2, <3>1, ReqKeeps, Zenon
  <2> QED
    BY <2>1, <2>2, Zenon
<1> QED
  BY <1>8, <1>9, <1>11, Zenon DEF ReqInv

(* The handler's writes, and how its result is told. *)
LEMMA ReqSends ==
  ASSUME ReqTypes, NEW r \in Requests, Sent(r), framed' = framed,
         Wrote(r, IF r \in framed THEN "frame" ELSE "data")
  PROVE Sent(r)' /\ out' \in [Requests -> Seq(Words)] /\ \A d \in Requests : d # r => out'[d] = out[d]
<1> DEFINE w == IF r \in framed THEN "frame" ELSE "data"
<1>1. w \in Words /\ out' = [out EXCEPT ![r] = Append(@, w)]
  BY Zenon DEF Words, Wrote
<1> HIDE DEF w
<1>2. /\ out' \in [Requests -> Seq(Words)] /\ Len(out[r]) \in Nat /\ Len(out'[r]) = Len(out[r]) + 1
      /\ out'[r][Len(out'[r])] = w /\ \A i \in 1..Len(out[r]) : out'[r][i] = out[r][i]
      /\ \A d \in Requests : d # r => out'[d] = out[d]
  BY <1>1, WriteAppends, Zenon
<1>3. \A i \in 1..Len(out[r]) : out[r][i] = w
  BY Zenon DEF Sent, w
<1>4. \A i \in 1..Len(out'[r]) : out'[r][i] = w
  BY <1>2, <1>3
<1> QED
  BY <1>2, <1>4, Zenon DEF Sent, w

LEMMA ReqTells ==
  ASSUME ReqTypes, NEW r \in Requests, Sent(r), r \in rAccepted,
         framed' = framed, rKind' = rKind, rAccepted' = rAccepted, failed' = failed,
         IF r \in framed THEN Wrote(r, IF r \in failed THEN "trailer13" ELSE "trailer0")
         ELSE IF r \in failed /\ rKind = "http" THEN Status(r, "500") ELSE UNCHANGED out
  PROVE Told(r)' /\ out' \in [Requests -> Seq(Words)] /\ \A d \in Requests : d # r => out'[d] = out[d]
<1>0. out \in [Requests -> Seq(Words)] /\ out[r] \in Seq(Words) /\ Len(out[r]) \in Nat
  BY DEF ReqTypes
<1>1. CASE r \in framed
  <2> DEFINE w == IF r \in failed THEN "trailer13" ELSE "trailer0"
  <2>1. w \in Words /\ out' = [out EXCEPT ![r] = Append(@, w)] /\ w \notin {"204", "400"}
    BY <1>1, Zenon DEF Words, Wrote
  <2> HIDE DEF w
  <2>2. /\ out' \in [Requests -> Seq(Words)] /\ Len(out'[r]) = Len(out[r]) + 1
        /\ out'[r][Len(out'[r])] = w /\ \A i \in 1..Len(out[r]) : out'[r][i] = out[r][i]
        /\ \A d \in Requests : d # r => out'[d] = out[d]
    BY <2>1, WriteAppends, Zenon
  <2>3. \A i \in 1..Len(out[r]) : out[r][i] = "frame"
    BY <1>1, Zenon DEF Sent
  <2>4. \A i \in 1..(Len(out'[r]) - 1) : out'[r][i] = "frame"
    BY <1>0, <2>2, <2>3
  <2>5. Told(r)'
    BY <1>1, <2>1, <2>2, <2>4, Zenon DEF Told, w
  <2> QED
    BY <2>2, <2>5, Zenon
<1>2. CASE r \notin framed /\ r \in failed /\ rKind = "http"
  <2> DEFINE w == IF out[r] = << >> THEN "500" ELSE "text"
  <2>1. w \in Words /\ out' = [out EXCEPT ![r] = Append(@, w)] /\ w \notin Trailers
    BY <1>0, <1>2, Zenon DEF Words, Status, Trailers
  <2>2. /\ out' \in [Requests -> Seq(Words)] /\ Len(out'[r]) = Len(out[r]) + 1
        /\ out'[r][Len(out'[r])] = w /\ \A i \in 1..Len(out[r]) : out'[r][i] = out[r][i]
        /\ Head(out'[r]) = out'[r][1] /\ \A d \in Requests : d # r => out'[d] = out[d]
    <3> HIDE DEF w
    <3> QED
      BY <2>1, WriteAppends, Zenon
  <2>3. \A i \in 1..Len(out[r]) : out[r][i] = "data"
    BY <1>2, Zenon DEF Sent
  <2>4. \A i \in 1..Len(out'[r]) : out'[r][i] \notin Trailers
    <3> HIDE DEF w
    <3>1. "data" \notin Trailers
      BY Zenon DEF Trailers
    <3> QED
      BY <1>0, <2>1, <2>2, <2>3, <3>1
  <2>5. Head(out'[r]) # "data" => Len(out'[r]) = 1
    <3> HIDE DEF w
    <3>1. CASE Len(out[r]) = 0
      BY <2>2, <3>1
    <3>2. CASE Len(out[r]) # 0
      <4>1. 1 \in 1..Len(out[r])
        BY <1>0, <3>2
      <4> QED
        BY <2>2, <2>3, <4>1, Zenon
    <3> QED
      BY <3>1, <3>2, Zenon
  <2>6. out'[r][Len(out'[r])] \in {"500", "text"}
    BY <2>2, Zenon DEF w
  <2>7. Told(r)'
    <3> HIDE DEF w
    <3> QED
      BY <1>2, <2>4, <2>5, <2>6, Zenon DEF Told
  <2> QED
    BY <2>2, <2>7, Zenon
<1>3. CASE r \notin framed /\ ~(r \in failed /\ rKind = "http")
  <2>1. out' = out /\ \A i \in 1..Len(out[r]) : out[r][i] = "data"
    BY <1>3, Zenon DEF Sent
  <2>2. \A i \in 1..Len(out[r]) : out[r][i] \notin Trailers
    BY <2>1, Zenon DEF Trailers
  <2>3. out[r] # << >> => Head(out[r]) = "data"
    <3>1. out[r] # << >> => 1 \in 1..Len(out[r]) /\ Head(out[r]) = out[r][1]
      BY <1>0
    <3> QED
      BY <2>1, <3>1, Zenon
  <2>4. Told(r)'
    BY <1>3, <2>1, <2>2, <2>3, Zenon DEF Told
  <2> QED
    BY <1>0, <2>1, <2>4, Zenon
<1> QED
  BY <1>1, <1>2, <1>3, Zenon

(* The user's handler. *)
LEMMA ReqHandlerStep ==
  ASSUME ReqInv, NEW r \in Requests, Send(r) \/ CallHandler(r) \/ Result(r)
  PROVE ReqInv'
<1>0. ReqTypes /\ ReqSlots /\ ReqOf(r) /\ \A d \in Requests : ReqOf(d)
  BY Zenon DEF ReqInv
<1>1. /\ rKind' = rKind /\ limit' = limit /\ framed' = framed /\ released' = released /\ rOnClosed' = rOnClosed
      /\ rRegistered' = rRegistered /\ rLive' = rLive /\ rAccepted' = rAccepted /\ rSlots' = rSlots
  BY Zenon DEF Send, CallHandler, Result, built, books
<1>2. /\ rPc[r] \in {"handler", "result"} /\ r \in rAccepted /\ rOnClosed[r] = 0 /\ Sent(r) /\ r \notin released
      /\ rPc[r] = "handler" => r \notin failed
  BY <1>0, Zenon DEF Send, CallHandler, Result, Go, ReqOf
<1>3. PICK to \in {"handler", "result", "deferred"} : rPc' = [rPc EXCEPT ![r] = to]
  <2>1. Send(r) => rPc' = [rPc EXCEPT ![r] = "handler"]
    BY <1>0, Zenon DEF Send, ReqTypes
  <2> QED
    BY <2>1, Zenon DEF CallHandler, Result, Go
<1>4. /\ rPc'[r] = to /\ \A d \in Requests : d # r => rPc'[d] = rPc[d]
      /\ rPc' \in [Requests -> {"new", "body", "register", "onAccept", "onMessage",
                               "handler", "result", "deferred", "served", "end"}]
  BY <1>0, <1>3, Zenon DEF ReqTypes
<1>5. /\ failed' \subseteq Requests /\ (\A d \in Requests : d # r => (d \in failed' <=> d \in failed))
      /\ to = "handler" => r \notin failed'
  BY <1>0, <1>2, <1>4, Zenon DEF ReqTypes, Send, CallHandler, Result, Go
<1>6. sends' \in [Requests -> 0..limit.sends]
  <2>1. sends \in [Requests -> 0..limit.sends] /\ limit.sends \in Nat
    BY <1>0, ReqLimit, Zenon DEF ReqTypes
  <2>2. sends' = sends \/ (sends[r] < limit.sends /\ sends' = [sends EXCEPT ![r] = @ + 1])
    BY Zenon DEF Send, CallHandler, Result
  <2> QED
    BY <2>1, <2>2
<1>7. /\ out' \in [Requests -> Seq(Words)] /\ \A d \in Requests : d # r => out'[d] = out[d]
      /\ to \in {"handler", "result"} => Sent(r)'
      /\ to = "deferred" => Told(r)'
  <2>1. CASE UNCHANGED out /\ to # "deferred"
    BY <1>0, <1>1, <1>2, <2>1, Zenon DEF Sent, ReqTypes
  <2>2. CASE Send(r) /\ ~UNCHANGED out
    <3>1. Wrote(r, IF r \in framed THEN "frame" ELSE "data") /\ to = "handler"
      BY <1>0, <1>4, <2>2, Zenon DEF Send
    <3> QED
      BY <1>0, <1>1, <1>2, <3>1, ReqSends, Zenon
  <2>3. CASE Result(r)
    <3>1. failed' = failed /\ to = "deferred"
      BY <1>0, <1>4, <2>3, Zenon DEF Result, Go, ReqTypes
    <3>2. IF r \in framed THEN Wrote(r, IF r \in failed THEN "trailer13" ELSE "trailer0")
          ELSE IF r \in failed /\ rKind = "http" THEN Status(r, "500") ELSE UNCHANGED out
      BY <2>3, Zenon DEF Result
    <3>3. Told(r)' /\ out' \in [Requests -> Seq(Words)] /\ \A d \in Requests : d # r => out'[d] = out[d]
      BY <1>0, <1>1, <1>2, <3>1, <3>2, ReqTells, Zenon
    <3> QED
      BY <3>1, <3>3, Zenon
  <2> QED
    BY <1>0, <1>4, <2>1, <2>2, <2>3, Zenon DEF Send, CallHandler, Go, ReqTypes
<1>8. ReqTypes'
  BY <1>0, <1>1, <1>4, <1>5, <1>6, <1>7, Zenon DEF ReqTypes
<1>9. ReqSlots'
  <2>1. \A d \in Requests : rPc'[d] \in {"new", "end"} <=> rPc[d] \in {"new", "end"}
    BY <1>2, <1>4, Zenon
  <2> QED
    BY <1>0, <1>1, <2>1, ReqSame, Zenon
<1>10. ReqOf(r)'
  BY <1>1, <1>2, <1>4, <1>5, <1>7, Zenon DEF ReqOf
<1>11. ASSUME NEW d \in Requests PROVE ReqOf(d)'
  <2>1. CASE d = r
    BY <1>10, <2>1, Zenon
  <2>2. CASE d # r
    <3>1. ReqOf(d) /\ rPc'[d] = rPc[d] /\ out'[d] = out[d]
      BY <1>0, <1>4, <1>7, <2>2, Zenon
    <3> QED
      BY <1>1, <1>5, <2>2, <3>1, ReqKeeps, Zenon
  <2> QED
    BY <2>1, <2>2, Zenon
<1> QED
  BY <1>8, <1>9, <1>11, Zenon DEF ReqInv

(* The deferred calls, and closes. *)
LEMMA ReqEndStep ==
  ASSUME ReqInv, NEW r \in Requests, Deferred(r) \/ CloseConn(r) \/ CloseOutside(r)
  PROVE ReqInv'
<1>0. ReqTypes /\ ReqSlots /\ ReqOf(r) /\ \A d \in Requests : ReqOf(d)
  BY Zenon DEF ReqInv
<1>1. /\ rKind' = rKind /\ limit' = limit /\ framed' = framed /\ out' = out /\ rAccepted' = rAccepted
      /\ failed' = failed /\ sends' = sends
  BY Zenon DEF Deferred, CloseConn, CloseOutside, built
<1>2. /\ rPc' \in [Requests -> {"new", "body", "register", "onAccept", "onMessage",
                               "handler", "result", "deferred", "served", "end"}]
      /\ \A d \in Requests : d # r => rPc'[d] = rPc[d]
  BY <1>0, Zenon DEF ReqTypes, Deferred, CloseConn, CloseOutside, Go
<1>3. /\ rRegistered' \subseteq Requests /\ rLive' \subseteq Requests /\ released' \subseteq Requests
      /\ rOnClosed' \in [Requests -> {0, 1}]
      /\ \A d \in Requests : d # r => /\ d \in rRegistered' <=> d \in rRegistered
                                      /\ d \in rLive' => d \in rLive
                                      /\ d \in released' <=> d \in released
                                      /\ rOnClosed'[d] = rOnClosed[d]
  <2>1. /\ rRegistered' = rRegistered \/ rRegistered' = rRegistered \ {r}
        /\ rLive' = rLive \/ rLive' = rLive \ {r}
        /\ released' = released \/ released' = released \cup {r}
        /\ rOnClosed' = rOnClosed \/ (rPc[r] = "deferred" /\ rOnClosed' = [rOnClosed EXCEPT ![r] = @ + 1])
    BY Zenon DEF Deferred, CloseConn, CloseOutside, Go
  <2>2. rOnClosed' \in [Requests -> {0, 1}] /\ \A d \in Requests : d # r => rOnClosed'[d] = rOnClosed[d]
    <3>1. rOnClosed \in [Requests -> {0, 1}] /\ (rPc[r] = "deferred" => rOnClosed[r] = 0)
      BY <1>0, Zenon DEF ReqTypes, ReqOf
    <3> QED
      BY <2>1, <3>1
  <2> QED
    BY <1>0, <2>1, <2>2, Zenon DEF ReqTypes
<1>4. ReqTypes'
  BY <1>0, <1>1, <1>2, <1>3, Zenon DEF ReqTypes
<1>5. (Sent(r) => Sent(r)') /\ (Told(r) => Told(r)')
  BY <1>1, Zenon DEF Sent, Told
<1>6. ReqSlots' /\ ReqOf(r)'
  <2>1. CASE Deferred(r)
    <3>1. \A d \in Requests : rPc'[d] \in {"new", "end"} <=> rPc[d] \in {"new", "end"}
      BY <1>0, <2>1, Zenon DEF Deferred, Go, ReqTypes
    <3>2. ReqSlots'
      BY <1>0, <1>1, <2>1, <3>1, ReqSame, Zenon DEF Deferred
    <3>3. /\ rPc[r] = "deferred" /\ rPc'[r] = "served" /\ r \notin rRegistered' /\ r \notin rLive'
          /\ released' = released /\ rOnClosed'[r] = IF r \in rAccepted THEN 1 ELSE 0
      BY <1>0, <2>1 DEF Deferred, Go, ReqTypes, ReqOf
    <3>4. ReqOf(r)'
      BY <1>0, <1>1, <1>5, <3>3, Zenon DEF ReqOf
    <3> QED
      BY <3>2, <3>4, Zenon
  <2>2. CASE CloseConn(r)
    <3>1. /\ rPc'[r] = "end" /\ rRegistered' = rRegistered /\ rLive' = rLive /\ rOnClosed' = rOnClosed
      BY <1>0, <2>2, Zenon DEF CloseConn, ReqTypes
    <3>2. ReqOf(r)'
      BY <1>0, <1>1, <1>5, <2>2, <3>1, Zenon DEF ReqOf, CloseConn
    <3>3. CASE rPc[r] = "served"
      <4>1. r \notin released
        BY <1>0, <3>3, Zenon DEF ReqOf
      <4>2. rSlots' = rSlots - 1 /\ rPc' = [rPc EXCEPT ![r] = "end"]
        BY <2>2, <4>1, Zenon DEF CloseConn
      <4> QED
        BY <1>0, <1>1, <3>2, <3>3, <4>2, ReqLess, Zenon
    <3>4. CASE rPc[r] = "end"
      <4>1. rSlots' = rSlots /\ \A d \in Requests : rPc'[d] \in {"new", "end"} <=> rPc[d] \in {"new", "end"}
        BY <1>0, <1>2, <2>2, <3>1, <3>4, Zenon DEF CloseConn
      <4> QED
        BY <1>0, <1>1, <3>2, <4>1, ReqSame, Zenon
    <3> QED
      BY <2>2, <3>3, <3>4, Zenon DEF CloseConn
  <2>3. CASE CloseOutside(r)
    <3>1. /\ rPc' = rPc /\ rRegistered' = rRegistered /\ rOnClosed' = rOnClosed /\ released' = released
          /\ rSlots' = rSlots /\ r \notin rLive'
      BY <2>3, Zenon DEF CloseOutside
    <3>2. ReqSlots'
      BY <1>0, <1>1, <3>1, ReqSame, Zenon
    <3>3. ReqOf(r)'
      BY <1>0, <1>1, <1>5, <3>1, Zenon DEF ReqOf
    <3> QED
      BY <3>2, <3>3, Zenon
  <2> QED
    BY <2>1, <2>2, <2>3, Zenon
<1>7. ASSUME NEW d \in Requests PROVE ReqOf(d)'
  <2>1. CASE d = r
    BY <1>6, <2>1, Zenon
  <2>2. CASE d # r
    <3>1. ReqOf(d) /\ rPc'[d] = rPc[d] /\ out'[d] = out[d]
      BY <1>0, <1>1, <1>2, <2>2, Zenon
    <3> QED
      BY <1>1, <1>3, <2>2, <3>1, ReqKeeps, Zenon
  <2> QED
    BY <2>1, <2>2, Zenon
<1> QED
  BY <1>4, <1>6, <1>7, Zenon DEF ReqInv

LEMMA ReqSettled == ReqInv => RequestsSettled
<1> SUFFICES ASSUME ReqInv PROVE RequestsSettled
  BY Zenon
<1>0. ReqTypes /\ ReqSlots /\ \A d \in Requests : ReqOf(d)
  BY Zenon DEF ReqInv
<1>1. RequestTypeOK
  <2>1. rSlots \in 0..limit.conns /\ {0, 1} = 0..1
    BY <1>0, ReqLimit, ReqFinite DEF ReqSlots
  <2> QED
    BY <1>0, <2>1, Zenon DEF RequestTypeOK, ReqTypes
<1>2. RequestBooks
  BY <1>0, Zenon DEF RequestBooks, ReqSlots, InHandlers, ReqOf
<1>3. OutcomeTold
  BY <1>0, Zenon DEF OutcomeTold, ReqOf, Told
<1> QED
  BY <1>1, <1>2, <1>3, Zenon DEF RequestsSettled

(* handleWithSession, handle, gatedConn.Close, for any number of requests    *)
(* and any limits: however a request ends, its session is unregistered and   *)
(* closed, OnClose ran if and only if OnAccept had succeeded, its slot is    *)
(* given back once, and the client can tell the outcome from what was        *)
(* written.                                                                  *)
THEOREM RequestsSettledAlways == RequestSpec => []RequestsSettled
<1>1. ReqInv /\ [RequestNext]_requestVars => ReqInv'
  <2> SUFFICES ASSUME ReqInv, [RequestNext]_requestVars PROVE ReqInv'
    BY Zenon
  <2>1. CASE UNCHANGED requestVars \/ Shutdown
    <3>1. /\ rKind' = rKind /\ limit' = limit /\ framed' = framed /\ rPc' = rPc /\ out' = out /\ rSlots' = rSlots
          /\ released' = released /\ rRegistered' = rRegistered /\ rLive' = rLive /\ rAccepted' = rAccepted
          /\ rOnClosed' = rOnClosed /\ failed' = failed /\ sends' = sends
      BY <2>1, Zenon DEF requestVars, Shutdown, built, books
    <3>2. ReqTypes /\ ReqSlots /\ \A d \in Requests : ReqOf(d)
      BY Zenon DEF ReqInv
    <3>3. ReqTypes'
      BY <3>1, <3>2, Zenon DEF ReqTypes
    <3>4. ReqSlots'
      BY <3>1, <3>2, ReqSame, Zenon
    <3>5. ASSUME NEW d \in Requests PROVE ReqOf(d)'
      BY <3>1, <3>2, ReqKeeps, Zenon
    <3> QED
      BY <3>3, <3>4, <3>5, Zenon DEF ReqInv
  <2>2. ASSUME NEW r \in Requests,
               \/ Admit(r) \/ ReadBody(r) \/ RequestRegister(r) \/ RequestOnAccept(r) \/ OnMessage(r) \/ Send(r)
               \/ CallHandler(r) \/ Result(r) \/ Deferred(r) \/ CloseConn(r) \/ CloseOutside(r)
        PROVE ReqInv'
    BY <2>2, ReqOpenStep, ReqHandlerStep, ReqEndStep, Zenon
  <2> QED
    BY <2>1, <2>2, Zenon DEF RequestNext
<1> QED
  BY <1>1, ReqInitInv, ReqSettled, PTL DEF RequestSpec

=============================================================================
