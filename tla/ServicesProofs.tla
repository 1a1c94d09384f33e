--------------------------- MODULE ServicesProofs ---------------------------
(***************************************************************************)
(* Proofs about the services around the transports: the limiters, the       *)
(* stores and the clients that dial out, the heartbeat plugin's lifecycle,  *)
(* the certificate cache and the application's reloads, for any number of   *)
(* peers, calls, sessions, keys, goroutines, sockets, documents, rotations  *)
(* and cycles.                                                              *)
(***************************************************************************)
EXTENDS Limiters, Stores, Clients, App, Heartbeat, TLAPS

USE SMTT(30)

(* Bans.  A ban never reaches further than one given now would. *)
BanInv ==
  /\ aNow \in 0..MaxBanTime
  /\ counts \in [Peers -> [count : 1..(threshold - 1), last : Nat] \cup {NoBan}]
  /\ banned \in [Peers -> Nat \cup {NoBan}]
  /\ \A k \in Peers : banned[k] # NoBan => banned[k] <= aNow + banDuration

LEMMA BanStarts == BanInit => BanInv
  BY BanAssumption DEF BanInit, BanInv

LEMMA BanStep == BanInv /\ [BanNext]_banVars => BanInv'
<1> SUFFICES ASSUME BanInv, [BanNext]_banVars PROVE BanInv'
  BY Zenon
<1> USE BanAssumption DEF BanInv
<1>1. ASSUME NEW k \in Peers, Record(k) PROVE BanInv'
  <2> DEFINE n == (IF counts[k] = NoBan THEN 0 ELSE counts[k].count) + 1
  <2>1. n \in Nat /\ n >= 1
    OBVIOUS
  <2>2. CASE n >= threshold
    BY <1>1, <2>2 DEF Record
  <2>3. CASE ~(n >= threshold)
    <3>1. n \in 1..(threshold - 1)
      BY <2>1, <2>3
    <3>2. counts' = [counts EXCEPT ![k] = [count |-> n, last |-> aNow]] /\ UNCHANGED <<banned, aNow>>
      BY <1>1, <2>3, Zenon DEF Record
    <3> HIDE DEF n
    <3> QED
      BY <3>1, <3>2
  <2> QED
    BY <2>2, <2>3, Zenon
<1>2. ASSUME NEW k \in Peers, LookUp(k) PROVE BanInv'
  BY <1>2, Zenon DEF LookUp
<1>3. CASE BanSweep
  BY <1>3, Zenon DEF BanSweep
<1>4. CASE BanTick
  BY <1>4 DEF BanTick
<1>5. CASE UNCHANGED banVars
  BY <1>5, Zenon DEF banVars
<1> QED
  BY <1>1, <1>2, <1>3, <1>4, <1>5, Zenon DEF BanNext

LEMMA BanForgives == BanInv /\ [BanNext]_banVars => [ForgivesInTime]_banVars
<1> SUFFICES ASSUME BanInv, BanNext, NEW k \in Peers
             PROVE  /\ counts[k] # NoBan /\ counts'[k] = NoBan =>
                         \/ aNow - counts[k].last > banDuration
                         \/ banned'[k] # NoBan /\ banned'[k] = aNow + banDuration
                    /\ banned[k] # NoBan /\ aNow < banned[k] => banned'[k] # NoBan /\ banned'[k] >= banned[k]
  BY Zenon DEF ForgivesInTime
<1> DEFINE Kept == banned[k] # NoBan /\ aNow < banned[k] => banned'[k] # NoBan /\ banned'[k] >= banned[k]
           Ended == \/ aNow - counts[k].last > banDuration
                    \/ banned'[k] # NoBan /\ banned'[k] = aNow + banDuration
<1> USE BanAssumption DEF BanInv
<1>1. ASSUME NEW j \in Peers, Record(j) PROVE Kept /\ (counts[k] # NoBan /\ counts'[k] = NoBan => Ended)
  <2> DEFINE n == (IF counts[j] = NoBan THEN 0 ELSE counts[j].count) + 1
  <2>1. CASE n >= threshold
    BY <1>1, <2>1 DEF Record
  <2>2. CASE ~(n >= threshold)
    <3>1. n \in Nat
      OBVIOUS
    <3>2. counts' = [counts EXCEPT ![j] = [count |-> n, last |-> aNow]] /\ UNCHANGED <<banned, aNow>>
      BY <1>1, <2>2, Zenon DEF Record
    <3> HIDE DEF n
    <3>3. [count |-> n, last |-> aNow] \in [count : Nat, last : Nat]
      BY <3>1
    <3> QED
      BY <3>2, <3>3
  <2> QED
    BY <2>1, <2>2, Zenon
<1>2. ASSUME NEW j \in Peers, LookUp(j) PROVE Kept /\ (counts[k] # NoBan /\ counts'[k] = NoBan => Ended)
  BY <1>2 DEF LookUp
<1>3. CASE BanSweep
  BY <1>3 DEF BanSweep
<1>4. CASE BanTick
  BY <1>4 DEF BanTick
<1> QED
  BY <1>1, <1>2, <1>3, <1>4, Zenon DEF BanNext

-----------------------------------------------------------------------------
(* The circuit breaker: NotWedged is inductive beside the types. *)
BreakerInv == BreakerTypeOK /\ bNow \in 0..MaxTime /\ NotWedged

LEMMA BreakerStarts == BreakerInit => BreakerInv
<1> SUFFICES ASSUME BreakerInit PROVE BreakerInv
  BY Zenon
<1>0. halfOpenActive \in BOOLEAN
  BY Zenon DEF BreakerInit
<1>1. BreakerTypeOK /\ bNow \in 0..MaxTime
  BY <1>0, BreakerAssumption DEF BreakerInit, BreakerTypeOK
<1>2. failures = 0 /\ failures < tripAfter /\ state = "closed" /\ ~halfOpenActive
  BY BreakerAssumption DEF BreakerInit
<1> QED
  BY <1>1, <1>2, Zenon DEF BreakerInv, NotWedged

LEMMA BreakerStep == BreakerInv /\ [BreakerNext]_breakerVars => BreakerInv'
<1> SUFFICES ASSUME BreakerInv, [BreakerNext]_breakerVars PROVE BreakerInv'
  BY Zenon
<1> USE BreakerAssumption DEF BreakerInv, BreakerTypeOK, NotWedged
<1>1. ASSUME NEW c \in Calls, Allow(c) PROVE BreakerInv'
  <2> USE <1>1 DEF Allow, Due
  <2>1. CASE Due
    <3>1. state' = "half-open" /\ halfOpenActive' = TRUE /\ call' = [call EXCEPT ![c] = "probe"]
      BY <2>1, Zenon
    <3> QED
      BY <2>1, <3>1, Zenon
  <2>2. CASE ~Due /\ state = "half-open" /\ ~halfOpenActive
    BY <2>2, Zenon
  <2>3. CASE ~Due /\ ~(state = "half-open" /\ ~halfOpenActive)
    BY <2>3, Zenon
  <2> QED
    BY <2>1, <2>2, <2>3, Zenon
<1>2. ASSUME NEW c \in Calls, Execute(c) PROVE BreakerInv'
  <2>0. call' \in [Calls -> {"idle", "running", "probe"}] /\ bNow' = bNow
    BY <1>2, Zenon DEF Execute
  <2>1. CASE state = "open"
    <3>1. UNCHANGED <<state, failures, openedAt, halfOpenActive>> /\ ~halfOpenActive
      BY <1>2, <2>1, Zenon DEF Execute, Success, Failure
    <3> QED
      BY <2>0, <2>1, <3>1, Zenon
  <2>2. CASE state # "open" /\ Success
    <3>1. failures' = 0 /\ state' = "closed" /\ halfOpenActive' = FALSE /\ openedAt' = openedAt
      BY <2>2, Zenon DEF Success
    <3>2. failures' \in Nat /\ failures' < tripAfter
      BY <3>1
    <3>3. BreakerTypeOK'
      BY <2>0, <3>1, <3>2, Zenon
    <3>4. NotWedged'
      BY <3>1, <3>2, Zenon
    <3> QED
      BY <2>0, <3>3, <3>4, Zenon
  <2>3. CASE state # "open" /\ Failure
    <3>1. failures' = failures + 1 /\ halfOpenActive' = FALSE
      BY <2>3, Zenon DEF Failure
    <3>2. openedAt' \in 0..MaxTime
      BY <2>3, Zenon DEF Failure
    <3>3. failures' \in Nat
      BY <3>1
    <3>4. state' = IF failures' >= tripAfter THEN "open" ELSE state
      BY <2>3, Zenon DEF Failure
    <3>5. state' # "closed" => failures' >= tripAfter
      BY <3>1, <3>4
    <3>6. state' = "closed" => failures' < tripAfter
      BY <3>3, <3>4
    <3> QED
      BY <2>0, <3>1, <3>2, <3>3, <3>4, <3>5, <3>6, Zenon
  <2> QED
    BY <1>2, <2>1, <2>2, <2>3, Zenon DEF Execute
<1>3. CASE BreakerTick
  BY <1>3 DEF BreakerTick
<1>4. CASE UNCHANGED breakerVars
  BY <1>4, Zenon DEF breakerVars
<1> QED
  BY <1>1, <1>2, <1>3, <1>4, Zenon DEF BreakerNext

LEMMA BreakerWindow == [BreakerNext]_breakerVars => [KeepsOpenWindow]_breakerVars
<1> SUFFICES ASSUME BreakerNext, state = "open", state' # "open" PROVE bNow - openedAt >= timeout
  BY Zenon DEF KeepsOpenWindow
<1>1. ASSUME NEW c \in Calls, Allow(c) PROVE bNow - openedAt >= timeout
  BY <1>1, Zenon DEF Allow, Due
<1>2. ASSUME NEW c \in Calls, Execute(c) PROVE FALSE
  BY <1>2, Zenon DEF Execute, Success, Failure
<1>3. ~BreakerTick
  BY Zenon DEF BreakerTick
<1> QED
  BY <1>1, <1>2, <1>3, Zenon DEF BreakerNext

-----------------------------------------------------------------------------
(* The session store.  While a listing loads, every snapshot that was there  *)
(* throughout is still to be loaded or was found, and no key is loaded twice.*)
Loading ==
  /\ always \subseteq Present /\ Stored \subseteq sSeen /\ result \subseteq sSeen
  /\ \A i \in always : <<"snap", i>> \in keys \/ i \in {r[1] : r \in result}
  /\ \A r \in result : <<"snap", r[1]>> \notin keys
  /\ \A r, q \in result : r[1] = q[1] => r = q

StoreInv ==
  /\ StoreTypeOK /\ saves \in 0..MaxSaves /\ result \subseteq SnapIds \X (1..MaxSaves)
  /\ lister = "load" => Loading
  /\ ListingFaithful

LEMMA StoreStarts == StoreInit => StoreInv
  BY StoreAssumption DEF StoreInit, StoreInv, StoreTypeOK, ListingFaithful

(* A change of the store, seen by the ghosts. *)
LEMMA StoreWatch ==
  ASSUME StoreInv, Watch, UNCHANGED <<lister, keys, result>>,
         snaps' \in [SnapIds -> (1..MaxSaves) \cup {None}]
  PROVE  (lister' = "load" => Loading') /\ ListingFaithful' /\ always' \subseteq SnapIds
<1>1. always' \subseteq always /\ always' \subseteq Present'
  BY Zenon DEF Watch, Present
<1>2. lister = "load" => sSeen' = sSeen \cup Stored'
  BY Zenon DEF Watch, Stored, Present
<1>3. lister # "load" => sSeen' = sSeen
  BY Zenon DEF Watch
<1>4. lister' = "load" => Loading'
  BY <1>1, <1>2, Zenon DEF StoreInv, Loading
<1>5. ListingFaithful'
  BY <1>1, <1>3, Zenon DEF StoreInv, ListingFaithful
<1> QED
  BY <1>1, <1>4, <1>5, Zenon DEF StoreInv, StoreTypeOK

LEMMA StoreStep == StoreInv /\ [StoreNext]_storeVars => StoreInv'
<1> SUFFICES ASSUME StoreInv, [StoreNext]_storeVars PROVE StoreInv'
  BY Zenon
<1> USE StoreAssumption
<1>1. ASSUME NEW i \in SnapIds, SaveSnapshot(i) PROVE StoreInv'
  <2>1. saves' \in 1..MaxSaves /\ UNCHANGED <<records, lister, keys, result>>
    BY <1>1 DEF SaveSnapshot, StoreInv
  <2>2. CASE snaps' = [snaps EXCEPT ![i] = saves'] /\ Watch
    <3>1. snaps' \in [SnapIds -> (1..MaxSaves) \cup {None}]
      BY <2>1, <2>2, Zenon DEF StoreInv, StoreTypeOK
    <3> QED
      BY <2>1, <2>2, <3>1, StoreWatch DEF StoreInv, StoreTypeOK
  <2>3. CASE UNCHANGED <<snaps, always, sSeen>>
    BY <2>1, <2>3 DEF StoreInv, StoreTypeOK, ListingFaithful, Loading, Present, Stored
  <2> QED
    BY <1>1, <2>2, <2>3, Zenon DEF SaveSnapshot
<1>2. ASSUME NEW i \in SnapIds, DeleteSnapshot(i) PROVE StoreInv'
  <2>1. Watch /\ UNCHANGED <<records, saves, lister, keys, result>>
    BY <1>2, Zenon DEF DeleteSnapshot
  <2>2. snaps' \in [SnapIds -> (1..MaxSaves) \cup {None}]
    BY <1>2, Zenon DEF DeleteSnapshot, StoreInv, StoreTypeOK
  <2> QED
    BY <2>1, <2>2, StoreWatch, Zenon DEF StoreInv, StoreTypeOK
<1>3. ASSUME NEW i \in SnapIds, OnAccept(i) \/ OnClose(i) PROVE StoreInv'
  <2>1. UNCHANGED <<snaps, saves, lister, keys, result, always, sSeen>>
    BY <1>3, Zenon DEF OnAccept, OnClose
  <2>2. records' \in [SnapIds -> {"none", "accepted", "closed"}]
    BY <1>3, Zenon DEF OnAccept, OnClose, StoreInv, StoreTypeOK
  <2> QED
    BY <2>1, <2>2 DEF StoreInv, StoreTypeOK, ListingFaithful, Loading, Present, Stored
<1>4. CASE ListSnapshots
  <2> USE <1>4 DEF ListSnapshots
  <2>1. lister' = "load" /\ result' = {} /\ always' = Present' /\ sSeen' = Stored'
    BY Zenon DEF Present, Stored
  <2>2. \A i \in always' : <<"snap", i>> \in keys'
    BY Zenon DEF Present
  <2> QED
    BY <2>1, <2>2, Zenon DEF StoreInv, StoreTypeOK, ListingFaithful, Loading, Present
<1>5. ASSUME NEW k \in keys, LoadSnapshot(k) PROVE StoreInv'
  <2> DEFINE Found == {s \in Stored : k = <<"snap", s[1]>>}
  <2>1. /\ lister = "load" /\ keys' = keys \ {k} /\ result' = result \cup Found
        /\ UNCHANGED <<snaps, records, saves, lister, always, sSeen>>
    BY <1>5, Zenon DEF LoadSnapshot
  <2>2. Stored \subseteq SnapIds \X (1..MaxSaves) /\ UNCHANGED <<Stored, Present>>
    BY <2>1 DEF Stored, Present, StoreInv, StoreTypeOK
  <2>3. \A s \in Found : k = <<"snap", s[1]>> /\ s = <<s[1], snaps[s[1]]>>
    BY DEF Stored
  <2>4. ASSUME NEW i \in Present, k = <<"snap", i>> PROVE i \in {r[1] : r \in Found}
    <3>1. <<i, snaps[i]>>[1] = i /\ <<i, snaps[i]>> \in Stored
      BY Zenon DEF Stored
    <3>2. <<i, snaps[i]>> \in Found
      BY <2>4, <3>1, Zenon
    <3> QED
      BY <3>1, <3>2, Zenon
  <2>5. Loading
    BY <2>1, Zenon DEF StoreInv
  <2> HIDE DEF Found
  <2>6. \A i \in always : <<"snap", i>> \in keys' \/ i \in {r[1] : r \in result'}
    BY <2>1, <2>4, <2>5, Zenon DEF Loading
  <2>7. \A r \in result' : <<"snap", r[1]>> \notin keys'
    BY <2>1, <2>3, <2>5, Zenon DEF Loading
  <2>8. \A r, q \in result' : r[1] = q[1] => r = q
    BY <2>1, <2>3, <2>5, <1>5 DEF Loading
  <2>9. Found \subseteq Stored
    BY Zenon DEF Found
  <2> QED
    BY <2>1, <2>2, <2>5, <2>6, <2>7, <2>8, <2>9, Zenon DEF StoreInv, StoreTypeOK, ListingFaithful, Loading
<1>6. CASE ListEnds
  <2>1. lister = "load" /\ UNCHANGED <<snaps, records, saves, keys, result, always, sSeen>>
    BY <1>6, Zenon DEF ListEnds
  <2>2. lister' = "failed" \/ (keys = {} /\ lister' = "done")
    BY <1>6, Zenon DEF ListEnds
  <2> QED
    BY <2>1, <2>2, Zenon DEF StoreInv, StoreTypeOK, ListingFaithful, Loading
<1>7. CASE UNCHANGED storeVars
  BY <1>7 DEF storeVars, StoreInv, StoreTypeOK, ListingFaithful, Loading, Present, Stored
<1> QED
  BY <1>1, <1>2, <1>3, <1>4, <1>5, <1>6, <1>7, Zenon DEF StoreNext

-----------------------------------------------------------------------------
(* The cache.  An entry that is not what the last Set left was swept, after  *)
(* it had expired.                                                           *)
Entry == [val : 1..MaxSets, exp : Nat]
Swept(k) == items[k] = None /\ want[k] # None /\ want[k].exp # 0 /\ clock > want[k].exp

CacheInv ==
  /\ clock \in 1..MaxClock /\ sets \in 0..MaxSets
  /\ sweepNow \in 1..MaxClock \cup {None} /\ (sweepNow # None => sweepNow <= clock)
  /\ items \in [Keys -> Entry \cup {None}] /\ want \in [Keys -> Entry \cup {None}]
  /\ writer \in [Writers -> [key : Keys, val : 1..MaxSets, exp : Nat] \cup {None}]
  /\ \A k \in Keys : items[k] = want[k] \/ Swept(k)

LEMMA CacheStarts == CacheInit => CacheInv
  BY CacheAssumption DEF CacheInit, CacheInv

LEMMA CacheFaithful == CacheInv => CacheTypeOK /\ LastSetUntilExpiry
  BY Zenon DEF CacheInv, Entry, Swept, CacheTypeOK, LastSetUntilExpiry, Get, Expired

LEMMA CacheStep == CacheInv /\ [CacheNext]_cacheVars => CacheInv'
<1> SUFFICES ASSUME CacheInv, [CacheNext]_cacheVars PROVE CacheInv'
  BY Zenon
<1> USE CacheAssumption DEF CacheInv
<1>1. ASSUME NEW w \in Writers, Set(w) PROVE CacheInv'
  <2>1. sets' \in 1..MaxSets /\ UNCHANGED <<clock, sweepNow>>
    BY <1>1 DEF Set
  <2>2. PICK k \in Keys, ttl \in Ttls :
          IF ttl < 0 THEN items' = [items EXCEPT ![k] = None] /\ want' = [want EXCEPT ![k] = None] /\ UNCHANGED writer
          ELSE /\ writer' = [writer EXCEPT ![w] = [key |-> k, val |-> sets', exp |-> IF ttl = 0 THEN 0 ELSE clock + ttl]]
               /\ UNCHANGED <<items, want>>
    BY <1>1, Zenon DEF Set
  <2>3. CASE ttl < 0
    BY <2>1, <2>2, <2>3 DEF Swept
  <2>4. CASE ~(ttl < 0)
    <3> DEFINE t == IF ttl = 0 THEN 0 ELSE clock + ttl
    <3>1. t \in Nat
      <4>1. ttl \in Int /\ clock \in Nat
        OBVIOUS
      <4>2. ttl \in Nat
        BY <4>1, <2>4
      <4> QED
        BY <4>1, <4>2
    <3>2. writer' = [writer EXCEPT ![w] = [key |-> k, val |-> sets', exp |-> t]] /\ UNCHANGED <<items, want>>
      BY <2>2, <2>4, Zenon
    <3> HIDE DEF t
    <3>3. writer' \in [Writers -> [key : Keys, val : 1..MaxSets, exp : Nat] \cup {None}]
      BY <2>1, <3>1, <3>2, Zenon
    <3> QED
      BY <2>1, <3>2, <3>3 DEF Swept
  <2> QED
    BY <2>3, <2>4, Zenon
<1>2. ASSUME NEW w \in Writers, SetStores(w) PROVE CacheInv'
  <2> DEFINE e == [val |-> writer[w].val, exp |-> writer[w].exp]
  <2>1. writer[w] \in [key : Keys, val : 1..MaxSets, exp : Nat]
    BY <1>2, Zenon DEF SetStores
  <2>2. e \in Entry /\ writer[w].key \in Keys
    BY <2>1, Zenon DEF Entry
  <2>3. /\ items' = [items EXCEPT ![writer[w].key] = e] /\ want' = [want EXCEPT ![writer[w].key] = e]
        /\ writer' = [writer EXCEPT ![w] = None] /\ UNCHANGED <<clock, sweepNow, sets>>
    BY <1>2, Zenon DEF SetStores
  <2> HIDE DEF e
  <2> QED
    BY <2>2, <2>3, Zenon DEF Swept
<1>3. ASSUME NEW k \in Keys, Delete(k) PROVE CacheInv'
  BY <1>3, Zenon DEF Delete, Swept
<1>4. CASE Clear
  BY <1>4, Zenon DEF Clear, Swept
<1>5. CASE SweepCall
  BY <1>5 DEF SweepCall, Swept
<1>6. CASE CacheSweep
  <2>1. sweepNow \in 1..MaxClock /\ sweepNow <= clock /\ UNCHANGED <<clock, writer, sets, want>> /\ sweepNow' = None
    BY <1>6, Zenon DEF CacheSweep
  <2>2. \A k \in Keys : items'[k] = items[k] \/ (items'[k] = None /\ items[k] # None /\ Expired(items[k], sweepNow))
    BY <1>6, Zenon DEF CacheSweep
  <2>3. items' \in [Keys -> Entry \cup {None}]
    BY <1>6, Zenon DEF CacheSweep
  <2>4. ASSUME NEW k \in Keys PROVE items'[k] = want'[k] \/ Swept(k)'
    BY <2>1, <2>2 DEF Swept, Expired, Entry
  <2> QED
    BY <2>1, <2>3, <2>4, Zenon
<1>7. CASE CacheTick
  BY <1>7 DEF CacheTick, Swept, Entry
<1>8. CASE UNCHANGED cacheVars
  BY <1>8, Zenon DEF cacheVars, Swept
<1> QED
  BY <1>1, <1>2, <1>3, <1>4, <1>5, <1>6, <1>7, <1>8, Zenon DEF CacheNext

-----------------------------------------------------------------------------
(* The MQTT adapter.  The client in use is that of a Start which is over, so *)
(* nothing changes the generation that Start noted; without this StopWins is *)
(* not inductive.                                                            *)
MqttInv ==
  /\ MqttTypeOK /\ StopWins /\ NoClientLeaked
  /\ client # NoClient => start[client].pc = "done"

LEMMA MqttStarts == MqttInit => MqttInv
  BY MqttAssumption DEF MqttInit, MqttInv, MqttTypeOK, StopWins, NoClientLeaked

LEMMA MqttTypes == MqttTypeOK /\ [MqttNext]_mqttVars => MqttTypeOK'
<1> SUFFICES ASSUME MqttTypeOK, [MqttNext]_mqttVars PROVE MqttTypeOK'
  BY Zenon
<1> USE MqttAssumption DEF MqttTypeOK
<1>1. ASSUME NEW s \in Starters, Start(s) PROVE MqttTypeOK'
  BY <1>1, Zenon DEF Start
<1>2. ASSUME NEW s \in Starters, Dialled(s) PROVE MqttTypeOK'
  BY <1>2 DEF Dialled
<1>3. ASSUME NEW s \in Starters, SubscribeTopic(s) PROVE MqttTypeOK'
  BY <1>3 DEF SubscribeTopic
<1>4. ASSUME NEW s \in Starters, Install(s) PROVE MqttTypeOK'
  BY <1>4, Zenon DEF Install
<1>5. ASSUME NEW s \in Starters, Flap(s) PROVE MqttTypeOK'
  BY <1>5, Zenon DEF Flap
<1>6. CASE Stop
  BY <1>6 DEF Stop
<1>7. CASE Take \/ Use \/ UNCHANGED mqttVars
  BY <1>7, Zenon DEF Take, Use, mqttVars
<1> QED
  BY <1>1, <1>2, <1>3, <1>4, <1>5, <1>6, <1>7, Zenon DEF MqttNext

LEMMA MqttStep == MqttInv /\ [MqttNext]_mqttVars => MqttInv'
<1> SUFFICES ASSUME MqttInv, [MqttNext]_mqttVars PROVE MqttInv'
  BY Zenon
<1>t. MqttTypeOK'
  BY MqttTypes, Zenon DEF MqttInv
<1> USE <1>t, MqttAssumption DEF MqttInv, MqttTypeOK, StopWins, NoClientLeaked
<1>1. ASSUME NEW s \in Starters, Start(s) PROVE MqttInv'
  BY <1>1 DEF Start
<1>2. ASSUME NEW s \in Starters, Dialled(s) PROVE MqttInv'
  <2>1. CASE start' = [start EXCEPT ![s].pc = "subscribe"] /\ link' = [link EXCEPT ![s] = "up"]
    BY <1>2, <2>1 DEF Dialled
  <2>2. CASE start' = [start EXCEPT ![s].pc = "done"] /\ link' = [link EXCEPT ![s] = "off"]
    BY <1>2, <2>2 DEF Dialled
  <2> QED
    BY <1>2, <2>1, <2>2, Zenon DEF Dialled
<1>3. ASSUME NEW s \in Starters, SubscribeTopic(s) PROVE MqttInv'
  BY <1>3 DEF SubscribeTopic
<1>4. ASSUME NEW s \in Starters, Install(s) PROVE MqttInv'
  BY <1>4 DEF Install
<1>5. ASSUME NEW s \in Starters, Flap(s) PROVE MqttInv'
  BY <1>5, Zenon DEF Flap
<1>6. CASE Stop
  BY <1>6, Zenon DEF Stop
<1>7. CASE Take \/ Use \/ UNCHANGED mqttVars
  BY <1>7, Zenon DEF Take, Use, mqttVars
<1> QED
  BY <1>1, <1>2, <1>3, <1>4, <1>5, <1>6, <1>7, Zenon DEF MqttNext

-----------------------------------------------------------------------------
(* The TCP client: ownership without counting.  Every open socket has an     *)
(* owner, the client or a goroutine in a swap or a close; nobody owns a      *)
(* closed one; and no socket has two owners.                                 *)
Holds(u, s) == upc[u] \in {"swap", "closePrev"} /\ hand[u] = s

ClientInv ==
  /\ ClientTypeOK
  /\ \A s \in open : conn = s \/ \E u \in Users : Holds(u, s)
  /\ conn # NoConn => conn \in open
  /\ \A u \in Users : upc[u] \in {"swap", "closePrev"} => hand[u] \in open /\ hand[u] # conn
  /\ \A u, v \in Users : u # v /\ upc[u] \in {"swap", "closePrev"} /\ upc[v] \in {"swap", "closePrev"}
                           => hand[u] # hand[v]

LEMMA ClientStarts == ClientInit => ClientInv
  BY Zenon DEF ClientInit, ClientInv, ClientTypeOK

LEMMA ClientStep == ClientInv /\ [ClientNext]_clientVars => ClientInv'
<1> SUFFICES ASSUME ClientInv, [ClientNext]_clientVars PROVE ClientInv'
  BY Zenon
<1> USE ClientAssumption DEF ClientInv, ClientTypeOK, Holds, UserAt
<1>1. ASSUME NEW u \in Users, NEW s \in Sockets, Dial(u, s) PROVE ClientInv'
  <2>1. CASE UNCHANGED <<open, upc, hand>>
    BY <1>1, <2>1, Zenon DEF Dial
  <2>2. CASE open' = open \cup {s} /\ UserAt(u, "swap", s)
    BY <1>1, <2>2 DEF Dial
  <2> QED
    BY <1>1, <2>1, <2>2, Zenon DEF Dial
<1>2. ASSUME NEW u \in Users, Swap(u) PROVE ClientInv'
  <2>1. CASE conn = NoConn
    BY <1>2, <2>1 DEF Swap
  <2>2. CASE conn # NoConn
    BY <1>2, <2>2 DEF Swap
  <2> QED
    BY <2>1, <2>2, Zenon
<1>3. ASSUME NEW u \in Users, Close(u) PROVE ClientInv'
  BY <1>3 DEF Close
<1>4. ASSUME NEW u \in Users, ClosePrev(u) PROVE ClientInv'
  BY <1>4, Zenon DEF ClosePrev
<1>5. ASSUME NEW u \in Users, SendReceive(u) PROVE ClientInv'
  BY <1>5 DEF SendReceive
<1>6. CASE UNCHANGED clientVars
  BY <1>6, Zenon DEF clientVars
<1> QED
  BY <1>1, <1>2, <1>3, <1>4, <1>5, <1>6, Zenon DEF ClientNext

LEMMA OneOwner == ClientInv => NoSocketLost
<1> SUFFICES ASSUME ClientInv, NEW s \in open
             PROVE \E o \in Users \cup {NoConn} :
                     {u \in Users : upc[u] \in {"swap", "closePrev"} /\ hand[u] = s}
                       \cup (IF conn = s THEN {NoConn} ELSE {}) = {o}
  BY Zenon DEF NoSocketLost, ClientInv
<1>1. CASE conn = s
  BY <1>1, Zenon DEF ClientInv
<1>2. CASE conn # s
  <2>1. PICK u \in Users : Holds(u, s)
    BY <1>2, Zenon DEF ClientInv
  <2> QED
    BY <1>2, <2>1 DEF ClientInv, Holds
<1> QED
  BY <1>1, <1>2, Zenon
-----------------------------------------------------------------------------
(* From any number of concurrent calls the breaker is never wedged: its      *)
(* half-open place is taken only while a probe is out, and the count of      *)
(* failures matches the state (circuitbreaker.go); a counter towards a ban   *)
(* stays below the threshold (autoban.go).                                   *)
THEOREM LimitersHoldAlways == BanSpec /\ BreakerSpec => []LimitersHold
<1>1. BanInv => BanTypeOK
  BY Zenon DEF BanInv, BanTypeOK
<1>2. BanInv /\ BreakerInv => LimitersHold
  BY <1>1, Zenon DEF BreakerInv, LimitersHold
<1> QED
  BY <1>2, BanStarts, BanStep, BreakerStarts, BreakerStep, PTL DEF BanSpec, BreakerSpec

(* No step forgets a counter or lifts a ban early, whatever lookups, sweeps  *)
(* and messages interleave (autoban.go), and no outcome, however late, ends  *)
(* the breaker's open window before its timeout (circuitbreaker.go).         *)
THEOREM NothingUndoneEarlyHolds == BanSpec /\ BreakerSpec => NothingUndoneEarly
  BY BanStarts, BanStep, BanForgives, BreakerWindow, PTL DEF BanSpec, BreakerSpec, NothingUndoneEarly

(* A listing that succeeds holds what was stored throughout and no ghosts,   *)
(* whatever is saved and deleted between its List and its Loads              *)
(* (session_store.go); Get answers with the last Set until its expiry, and a *)
(* sweep with an old clock reading takes no live entry away (cache.go).      *)
THEOREM StoresFaithfulHolds == StoreSpec /\ CacheSpec => []StoresFaithful
<1>1. StoreInv /\ CacheInv => StoresFaithful
  BY CacheFaithful, Zenon DEF StoreInv, StoresFaithful
<1> QED
  BY <1>1, StoreStarts, StoreStep, CacheStarts, CacheStep, PTL DEF StoreSpec, CacheSpec

(* Adapter.Start against Adapter.Stop, Client.Connect against Client.Close,  *)
(* from any number of goroutines: the MQTT client in use was asked for after *)
(* the last Stop, none that is connected is leaked, and every open socket of *)
(* the TCP client has one owner.                                             *)
THEOREM ClientsHeldAlways == MqttSpec /\ ClientSpec => []ClientsHeld
<1>1. ClientInv => ClientTypeOK
  BY Zenon DEF ClientInv
<1>2. MqttInv /\ ClientInv => ClientsHeld
  BY <1>1, OneOwner, Zenon DEF MqttInv, ClientsHeld
<1> QED
  BY <1>2, MqttStarts, MqttStep, ClientStarts, ClientStep, PTL DEF MqttSpec, ClientSpec

-----------------------------------------------------------------------------
(* The heartbeat plugin.  A cycle that has not begun has no goroutine and a  *)
(* channel nobody closed; the running one's is closed once it is marked so.  *)
BeatInv ==
  /\ BeatTypeOK
  /\ closes \in [Cycles -> 0..1]
  /\ \A c \in Cycles : c > cycle => loop[c] = "none" /\ closes[c] = 0
  /\ hStarted /\ ~closed => closes[cycle] = 0
  /\ hStarted => cycle \in Cycles /\ hRunning = cycle /\ cycle \in Live
  /\ \A c \in Live : hStarted /\ c = cycle

LEMMA BeatStarts == BeatInit => BeatInv
<1> SUFFICES ASSUME BeatInit PROVE BeatInv
  BY Zenon
<1> USE BeatAssumption DEF BeatInit, Cycles
<1>1. BeatTypeOK
  <2>1. hStarted \in BOOLEAN /\ closed \in BOOLEAN
    BY Zenon
  <2>2. cycle \in 0..MaxCycles /\ hRunning \in 0..MaxCycles
    OBVIOUS
  <2>3. loop \in [Cycles -> {"none", "wait", "sweep", "close", "done", "ended"}]
    BY Zenon
  <2>4. waits \in [Owners -> 0..MaxCycles]
    OBVIOUS
  <2> QED
    BY <2>1, <2>2, <2>3, <2>4, Zenon DEF BeatTypeOK
<1>2. Live = {}
  BY Zenon DEF Live
<1> QED
  BY <1>1, <1>2 DEF BeatInv

LEMMA BeatStep == BeatInv /\ [BeatNext]_beatVars => BeatInv'
<1> SUFFICES ASSUME BeatInv, [BeatNext]_beatVars PROVE BeatInv'
  BY Zenon
<1> USE BeatAssumption DEF BeatInv, BeatTypeOK, Cycles, Live, cycleVars
<1>1. ASSUME NEW u \in Owners, begin(u) PROVE BeatInv'
  <2> USE <1>1 DEF begin
  <2>1. cycle' = cycle + 1 /\ cycle' \in Cycles /\ cycle \in Nat
    OBVIOUS
  <2>2. loop' = [loop EXCEPT ![cycle'] = "wait"] /\ hStarted' /\ ~hStarted /\ ~closed'
    BY Zenon
  <2>3. BeatTypeOK'
    <3>1. hStarted' \in BOOLEAN /\ closed' \in BOOLEAN
      BY Zenon
    <3>2. cycle' \in 0..MaxCycles /\ hRunning' \in 0..MaxCycles
      OBVIOUS
    <3>3. loop' \in [Cycles -> {"none", "wait", "sweep", "close", "done", "ended"}]
      BY <2>1, <2>2, Zenon
    <3> QED
      BY <3>1, <3>2, <3>3, Zenon
  <2>4. \A c \in Cycles : c > cycle' => loop'[c] = "none" /\ closes'[c] = 0
    BY <2>1, <2>2
  <2>5. Live = {}
    BY <2>2, Zenon DEF Live
  <2>6. \A c \in Live' : c = cycle'
    BY <2>1, <2>2, <2>5, Zenon
  <2>7. closes'[cycle'] = 0 /\ cycle' \in Live'
    BY <2>1, <2>2
  <2> QED
    BY <2>1, <2>2, <2>3, <2>4, <2>6, <2>7, Zenon
<1>2. ASSUME NEW u \in Owners, shutdown(u) PROVE BeatInv'
  BY <1>2 DEF shutdown
<1>3. ASSUME NEW u \in Owners, WaitReturns(u) PROVE BeatInv'
  BY <1>3 DEF WaitReturns
<1>4. ASSUME NEW c \in Cycles, Sweep(c) PROVE BeatInv'
  BY <1>4, Zenon DEF Sweep
<1>5. ASSUME NEW c \in Cycles, SweepOne(c) PROVE BeatInv'
  BY <1>5, Zenon DEF SweepOne
<1>6. ASSUME NEW c \in Cycles, CloseEnds(c) PROVE BeatInv'
  BY <1>6, Zenon DEF CloseEnds
<1>7. ASSUME NEW c \in Cycles, done(c) PROVE BeatInv'
  <2>1. CASE loop[c] = "wait"
    <3> USE <1>7, <2>1 DEF done
    <3>1. c = cycle /\ loop' = [loop EXCEPT ![c] = "done"] /\ hStarted' = FALSE /\ hRunning' = 0
      BY Zenon
    <3>2. Live' = {}
      BY <3>1, Zenon
    <3>3. BeatTypeOK'
      <4>1. hStarted' \in BOOLEAN /\ closed' \in BOOLEAN
        BY <3>1, Zenon
      <4>2. hRunning' \in 0..MaxCycles
        BY <3>1
      <4>3. loop' \in [Cycles -> {"none", "wait", "sweep", "close", "done", "ended"}]
        BY <3>1, Zenon
      <4> QED
        BY <4>1, <4>2, <4>3, Zenon
    <3> QED
      BY <3>1, <3>2, <3>3, Zenon
  <2>2. CASE loop[c] = "done"
    BY <1>7, <2>2 DEF done
  <2> QED
    BY <1>7, <2>1, <2>2, Zenon DEF done
<1>8. ASSUME NEW s \in Sessions, Quiet(s) PROVE BeatInv'
  BY <1>8, Zenon DEF Quiet
<1>9. CASE UNCHANGED beatVars
  BY <1>9, Zenon DEF beatVars
<1> QED
  BY <1>1, <1>2, <1>3, <1>4, <1>5, <1>6, <1>7, <1>8, <1>9, Zenon DEF BeatNext, LoopStep

LEMMA BeatOneLoop == BeatInv => OneLoop
  BY DEF BeatInv, OneLoop, Live, Cycles, BeatTypeOK

-----------------------------------------------------------------------------
(* The certificate cache.  Only the client CA is ever seen half written, and *)
(* its modification time then says which version is being written.           *)
CertInv ==
  /\ CertTypeOK
  /\ mtime \in [Files -> Nat]
  /\ file["cert"] # Bad /\ file["key"] # Bad
  /\ file["ca"] # Bad => mtime["ca"] = 2 * file["ca"] - 1
  /\ file["ca"] = Bad => \E k \in 1..(MaxVersion - 1) : mtime["ca"] = 2 * k
  /\ got \in [Files -> 0..MaxVersion]
  /\ OneLoad

LEMMA CertStarts == CertInit => CertInv
<1> SUFFICES ASSUME CertInit PROVE CertInv
  BY Zenon
<1> USE CertsAssumption DEF CertInit, Files
<1>1. CertTypeOK
  BY DEF CertTypeOK
<1> QED
  BY <1>1 DEF CertInv, OneLoad

LEMMA CertStep == CertInv /\ [CertNext]_certVars => CertInv'
<1> SUFFICES ASSUME CertInv, [CertNext]_certVars PROVE CertInv'
  BY Zenon
<1> USE CertsAssumption DEF CertInv, CertTypeOK, Files, OneLoad
<1>1. ASSUME NEW f \in Files, Rotate(f) PROVE CertInv'
  <2>1. CASE file[f] = Bad
    <3>1. f = "ca" /\ file' = [file EXCEPT !["ca"] = (mtime["ca"] + 2) \div 2] /\ mtime' = [mtime EXCEPT !["ca"] = @ + 1]
      BY <1>1, <2>1, Zenon DEF Rotate
    <3>2. PICK k \in 1..(MaxVersion - 1) : mtime["ca"] = 2 * k
      BY <2>1, <3>1, Zenon
    <3>3. (mtime["ca"] + 2) \div 2 = k + 1 /\ k + 1 \in 1..MaxVersion
      BY <3>2
    <3>4. file'["ca"] = k + 1 /\ mtime'["ca"] = 2 * k + 1
      BY <3>1, <3>2, <3>3, Zenon
    <3> QED
      BY <1>1, <3>1, <3>2, <3>3, <3>4 DEF Rotate
  <2>2. CASE file[f] # Bad /\ f = "ca"
    <3>1. /\ file["ca"] \in 1..(MaxVersion - 1) /\ file' = [file EXCEPT !["ca"] = Bad]
          /\ mtime' = [mtime EXCEPT !["ca"] = @ + 1]
      BY <1>1, <2>2 DEF Rotate
    <3>2. file'["ca"] = Bad /\ mtime'["ca"] = 2 * file["ca"]
      BY <2>2, <3>1
    <3> QED
      BY <1>1, <3>1, <3>2 DEF Rotate
  <2>3. CASE file[f] # Bad /\ f # "ca"
    <3>1. file[f] \in 1..(MaxVersion - 1) /\ file' = [file EXCEPT ![f] = @ + 1] /\ mtime' = [mtime EXCEPT ![f] = @ + 1]
      BY <1>1, <2>3 DEF Rotate
    <3> QED
      BY <1>1, <2>3, <3>1 DEF Rotate
  <2> QED
    BY <2>1, <2>2, <2>3, Zenon
<1>2. CASE Load
  BY <1>2 DEF Load, Fail
<1>3. CASE WatchFiles
  BY <1>3, Zenon DEF WatchFiles
<1>4. CASE Tick
  BY <1>4, Zenon DEF Tick
<1>5. CASE Cancel
  BY <1>5, Zenon DEF Cancel
<1>6. CASE WatchEnds
  BY <1>6, Zenon DEF WatchEnds
<1>7. CASE UNCHANGED certVars
  BY <1>7, Zenon DEF certVars
<1> QED
  BY <1>1, <1>2, <1>3, <1>4, <1>5, <1>6, <1>7, Zenon DEF CertNext

-----------------------------------------------------------------------------
(* The application.  A caller past the lock holds it; each store it has made *)
(* is of its document, the rest is still of the configuration in force.      *)
Accepted == {d \in Docs : d.valid /\ d.limiter = First.limiter /\ ~listenDiff(First, d)}

DocumentStored(c) ==
  LET d == reload[c].doc IN
  /\ reload[c].pc \in {"diff", "black"} => black = config.black
  /\ reload[c].pc \in {"diff", "black", "rate"} /\ config.limiter => rate = config.rate
  /\ reload[c].pc \in {"diff", "black", "rate", "level"} => level = config.level
  /\ reload[c].pc \in {"rate", "level", "config"} => black = d.black
  /\ reload[c].pc \in {"level", "config"} /\ d.limiter => rate = d.rate
  /\ reload[c].pc = "config" => level = d.level
  /\ reload[c].pc \in {"black", "rate", "level", "config"} => d \in Accepted

Reloads == [pc : {"idle", "lock", "diff", "black", "rate", "level", "config"}, doc : Docs]

AppInv ==
  /\ AppTypeOK
  /\ reload \in [Reloaders -> Reloads]
  /\ \A c \in Reloaders : reload[c].doc.valid /\ reload[c].doc.limiter = First.limiter
  /\ \A c \in Reloaders : reload[c].pc \in {"idle", "lock"} <=> reloadMu # c
  /\ \A c \in Reloaders : reloadMu = c => DocumentStored(c)
  /\ LiveMatchesConfig /\ RefusedLeavesNoTrace

LEMMA AppStarts == AppInit => AppInv
<1> SUFFICES ASSUME AppInit PROVE AppInv
  BY Zenon
<1> USE AppAssumption DEF AppInit
<1>1. AppTypeOK /\ reload \in [Reloaders -> Reloads]
  BY Zenon DEF AppTypeOK, WebServers, Reloads
<1>2. RefusedLeavesNoTrace
  BY Zenon DEF RefusedLeavesNoTrace, listenDiff
<1>3. LiveMatchesConfig
  BY Zenon DEF LiveMatchesConfig
<1> QED
  BY <1>1, <1>2, <1>3, Zenon DEF AppInv, DocumentStored

(* How reload changes. *)
LEMMA ReloadTo ==
  ASSUME reload \in [Reloaders -> Reloads], NEW c \in Reloaders,
         NEW p \in {"idle", "lock", "diff", "black", "rate", "level", "config"}, NEW d \in Docs,
         reload' = [reload EXCEPT ![c] = [pc |-> p, doc |-> d]]
  PROVE /\ reload' \in [Reloaders -> Reloads] /\ reload'[c].pc = p /\ reload'[c].doc = d
        /\ \A e \in Reloaders : e # c => reload'[e] = reload[e]
BY Zenon DEF Reloads

LEMMA ReloadStep ==
  ASSUME AppInv, NEW c \in Reloaders, Reload(c) \/ Lock(c) \/ Diff(c) \/ Apply(c)
  PROVE AppInv'
<1>0. /\ AppTypeOK /\ reload \in [Reloaders -> Reloads] /\ reload[c].doc \in Docs
      /\ \A e \in Reloaders : reload[e].doc.valid /\ reload[e].doc.limiter = First.limiter
      /\ \A e \in Reloaders : reload[e].pc \in {"idle", "lock"} <=> reloadMu # e
      /\ \A e \in Reloaders : reloadMu = e => DocumentStored(e)
      /\ LiveMatchesConfig /\ config \in Accepted /\ black \in {d.black : d \in Accepted}
      /\ rate \in {d.rate : d \in Accepted} /\ level \in {d.level : d \in Accepted}
      /\ \A e \in Reloaders : reload[e].pc \in {"idle", "lock", "diff", "black", "rate", "level", "config"}
  BY Zenon DEF AppInv, AppTypeOK, Reloads, RefusedLeavesNoTrace, Accepted
<1> DEFINE old == reload[c]
<1>1. PICK p \in {"idle", "lock", "diff", "black", "rate", "level", "config"}, d \in Docs :
        /\ reload' = [reload EXCEPT ![c] = [pc |-> p, doc |-> d]]
        /\ d.valid /\ d.limiter = First.limiter
        /\ d = old.doc \/ p \in {"idle", "lock"}
  <2>1. ASSUME NEW p \in {"idle", "lock", "diff", "black", "rate", "level", "config"}, ReloadAt(c, p)
        PROVE reload' = [reload EXCEPT ![c] = [pc |-> p, doc |-> IF p = "idle" THEN First ELSE old.doc]]
    BY <1>0, <2>1, Zenon DEF ReloadAt
  <2>2. First \in Docs /\ First.valid
    BY AppAssumption, Zenon
  <2> QED
    BY <1>0, <2>1, <2>2, Zenon DEF Reload, Lock, Diff, Apply
<1>2. /\ reload' \in [Reloaders -> Reloads] /\ reload'[c].pc = p /\ reload'[c].doc = d
      /\ \A e \in Reloaders : e # c => reload'[e] = reload[e]
  BY <1>0, <1>1, ReloadTo, Zenon
<1>3. UNCHANGED webVars /\ (old.pc # "config" => config' = config)
  BY Zenon DEF Reload, Lock, Diff, Apply
<1>4. \/ old.pc = "idle" /\ p = "lock" /\ UNCHANGED <<config, black, rate, level, reloadMu>>
      \/ old.pc = "lock" /\ p = "diff" /\ reloadMu = Free /\ reloadMu' = c /\ UNCHANGED <<config, black, rate, level>>
      \/ old.pc = "diff" /\ p = "idle" /\ reloadMu' = Free /\ UNCHANGED <<config, black, rate, level>>
      \/ /\ old.pc = "diff" /\ p = "black" /\ UNCHANGED <<config, black, rate, level, reloadMu>>
         /\ ~listenDiff(config, old.doc)
      \/ /\ old.pc = "black" /\ p = (IF old.doc.limiter THEN "rate" ELSE "level") /\ black' = old.doc.black
         /\ UNCHANGED <<rate, level, config, reloadMu>>
      \/ old.pc = "rate" /\ p = "level" /\ rate' = old.doc.rate /\ UNCHANGED <<black, level, config, reloadMu>>
      \/ old.pc = "level" /\ p = "config" /\ level' = old.doc.level /\ UNCHANGED <<black, rate, config, reloadMu>>
      \/ old.pc = "config" /\ p = "idle" /\ config' = old.doc /\ reloadMu' = Free /\ UNCHANGED <<black, rate, level>>
  <2>1. ASSUME NEW q \in {"idle", "lock", "diff", "black", "rate", "level", "config"}, ReloadAt(c, q) PROVE p = q
    BY <1>0, <1>2, <2>1, Zenon DEF ReloadAt
  <2>2. CASE Reload(c)
    <3>1. PICK x \in Docs : reload' = [reload EXCEPT ![c] = [pc |-> "lock", doc |-> x]]
      BY <2>2, Zenon DEF Reload
    <3>2. p = "lock"
      BY <1>0, <1>2, <3>1, ReloadTo, Zenon
    <3> QED
      BY <2>2, <3>2, Zenon DEF Reload
  <2>3. CASE Lock(c)
    BY <2>1, <2>3, Zenon DEF Lock
  <2>4. CASE Diff(c)
    BY <2>1, <2>4, Zenon DEF Diff
  <2>5. CASE Apply(c)
    BY <2>1, <2>5, Zenon DEF Apply
  <2> QED
    BY <2>2, <2>3, <2>4, <2>5, Zenon
<1> HIDE DEF old
<1>5. /\ old.pc \in {"idle", "lock", "diff", "black", "rate", "level", "config"}
      /\ old.pc \notin {"idle", "lock"} => reloadMu = c
      /\ c # Free
  BY <1>0, AppAssumption, Zenon DEF old
<1>6. /\ old.pc = "black" => old.doc \in Accepted /\ (config.limiter => rate = config.rate) /\ level = config.level
      /\ old.pc = "rate" => old.doc \in Accepted /\ level = config.level /\ black = old.doc.black
      /\ old.pc = "level" => /\ old.doc \in Accepted /\ black = old.doc.black
                             /\ old.doc.limiter => rate = old.doc.rate
      /\ old.pc = "config" => /\ old.doc \in Accepted /\ black = old.doc.black /\ level = old.doc.level
                              /\ old.doc.limiter => rate = old.doc.rate
      /\ old.pc = "diff" => black = config.black /\ (config.limiter => rate = config.rate) /\ level = config.level
  <2>1. old.pc \notin {"idle", "lock"} => DocumentStored(c)
    BY <1>0, <1>5, Zenon
  <2> QED
    BY <1>5, <2>1, Zenon DEF DocumentStored, old
<1>7. /\ config' \in Accepted /\ black' \in {x.black : x \in Accepted}
      /\ rate' \in {x.rate : x \in Accepted} /\ level' \in {x.level : x \in Accepted}
  BY <1>0, <1>4, <1>5, <1>6, Zenon
<1>8. AppTypeOK'
  BY <1>0, <1>2, <1>3, <1>4, <1>5, <1>7, Zenon DEF AppTypeOK, webVars, Reloads, Accepted
<1>9. \A e \in Reloaders : reload'[e].pc \in {"idle", "lock"} <=> reloadMu' # e
  <2>1. reload'[c].pc \in {"idle", "lock"} <=> reloadMu' # c
    <3>1. old.pc \in {"idle", "lock"} => reloadMu # c
      BY <1>0, Zenon DEF old
    <3>2. CASE old.pc = "idle"
      <4>1. p = "lock" /\ reloadMu' = reloadMu
        BY <1>4, <3>2, Zenon
      <4> QED
        BY <1>2, <3>1, <3>2, <4>1, Zenon
    <3>3. CASE old.pc = "lock"
      <4>1. p = "diff" /\ reloadMu' = c
        BY <1>4, <3>3, Zenon
      <4> QED
        BY <1>2, <4>1, Zenon
    <3>4. CASE old.pc \in {"diff", "black", "rate", "level", "config"}
      <4>1. \/ p = "idle" /\ reloadMu' = Free
            \/ p \in {"black", "rate", "level", "config"} /\ reloadMu' = reloadMu
        BY <1>4, <3>4, Zenon
      <4>2. reloadMu = c
        BY <1>5, <3>4, Zenon
      <4> QED
        BY <1>2, <1>5, <4>1, <4>2, Zenon
    <3> QED
      BY <1>5, <3>2, <3>3, <3>4, Zenon
  <2>2. ASSUME NEW e \in Reloaders, e # c PROVE reload'[e].pc \in {"idle", "lock"} <=> reloadMu' # e
    <3>1. reloadMu' = reloadMu \/ (reloadMu \in {c, Free} /\ reloadMu' \in {c, Free})
      BY <1>4, <1>5, Zenon
    <3>2. (reloadMu' = e) <=> (reloadMu = e)
      BY <2>2, <3>1, AppAssumption
    <3> QED
      BY <1>0, <1>2, <2>2, <3>2, Zenon
  <2> QED
    BY <2>1, <2>2, Zenon
<1>10. \A e \in Reloaders : reload'[e].doc.valid /\ reload'[e].doc.limiter = First.limiter
  BY <1>0, <1>1, <1>2, Zenon
<1>11. LiveMatchesConfig'
  <2> SUFFICES ASSUME reloadMu' = Free
               PROVE black' = config'.black /\ level' = config'.level /\ (config'.limiter => rate' = config'.rate)
    BY Zenon DEF LiveMatchesConfig
  <2>1. CASE old.pc \in {"diff", "config"}
    BY <1>4, <1>6, <2>1, Zenon
  <2>2. CASE old.pc = "idle"
    <3>1. reloadMu = Free /\ UNCHANGED <<config, black, rate, level>>
      BY <1>4, <2>2, Zenon
    <3>2. \A e \in Reloaders : reload[e].pc \in {"idle", "lock"}
      BY <1>0, <3>1, AppAssumption, Zenon
    <3> QED
      BY <1>0, <3>1, <3>2, Zenon DEF LiveMatchesConfig
  <2> QED
    BY <1>4, <1>5, <2>1, <2>2, Zenon
<1>12. ASSUME NEW e \in Reloaders, reloadMu' = e PROVE DocumentStored(e)'
  <2>1. CASE e # c
    <3>1. reloadMu = e /\ UNCHANGED <<config, black, rate, level>> /\ reload'[e] = reload[e]
      <4>1. e # Free
        BY AppAssumption, Zenon
      <4>2. old.pc = "idle"
        BY <1>4, <1>5, <1>12, <2>1, <4>1, Zenon
      <4> QED
        BY <1>2, <1>4, <1>12, <2>1, <4>2, Zenon
    <3> QED
      BY <1>0, <3>1, Zenon DEF DocumentStored, Accepted, listenDiff
  <2>2. CASE e = c
    <3>1. old.pc \in {"lock", "diff", "black", "rate", "level"} /\ d = old.doc
      BY <1>1, <1>4, <1>5, <1>9, <1>2, <1>12, <2>2, Zenon
    <3>2. old.doc \in Docs /\ old.doc.valid /\ old.doc.limiter = First.limiter /\ config.limiter = First.limiter
            /\ config.listen = First.listen
      BY <1>0, Zenon DEF Accepted, listenDiff, old
    <3>3. old.pc = "lock" => black = config.black /\ level = config.level /\ (config.limiter => rate = config.rate)
      BY <1>0, <1>4, AppAssumption, Zenon DEF LiveMatchesConfig
    <3>4. p = "black" => d \in Accepted
      BY <1>4, <3>1, <3>2, Zenon DEF Accepted, listenDiff
    <3> QED
      BY <1>2, <1>4, <1>6, <2>2, <3>1, <3>2, <3>3, <3>4, Zenon DEF DocumentStored
  <2> QED
    BY <2>1, <2>2, Zenon
<1> QED
  BY <1>2, <1>7, <1>8, <1>9, <1>10, <1>11, <1>12, Zenon DEF AppInv, RefusedLeavesNoTrace, Accepted

LEMMA AppStep == AppInv /\ [AppNext]_appVars => AppInv'
<1> SUFFICES ASSUME AppInv, [AppNext]_appVars PROVE AppInv'
  BY Zenon
<1>1. ASSUME NEW c \in Reloaders, Reload(c) \/ Lock(c) \/ Diff(c) \/ Apply(c) PROVE AppInv'
  BY <1>1, ReloadStep, Zenon
<1>2. CASE UNCHANGED <<config, black, rate, level, reloadMu, reload>> /\ AppTypeOK'
  BY <1>2, Zenon DEF AppInv, DocumentStored, LiveMatchesConfig, RefusedLeavesNoTrace, Accepted, listenDiff, Reloads
<1>3. CASE AppStart
  BY <1>2, <1>3, Zenon DEF AppStart, hotVars, AppInv, AppTypeOK
<1>4. ASSUME NEW s \in WebServers, serveHTTP(s) PROVE AppInv'
  <2>1. web \in [WebServers -> {"off", "start", "serve", "ended"}]
    BY Zenon DEF AppInv, AppTypeOK
  <2>2. PICK q \in {"serve", "ended"} : web' = [web EXCEPT ![s] = q]
    BY <1>4, Zenon DEF serveHTTP
  <2>3. web' \in [WebServers -> {"off", "start", "serve", "ended"}]
    BY <2>1, <2>2
  <2> QED
    BY <1>2, <1>4, <2>3, Zenon DEF serveHTTP, hotVars, AppInv, AppTypeOK
<1>5. CASE WatcherEnds \/ Signal \/ AppStop
  BY <1>2, <1>5, Zenon DEF WatcherEnds, Signal, AppStop, hotVars, AppInv, AppTypeOK
<1>6. CASE UNCHANGED appVars
  BY <1>2, <1>6, Zenon DEF appVars, AppInv, AppTypeOK
<1> QED
  BY <1>1, <1>3, <1>4, <1>5, <1>6, Zenon DEF AppNext

(* However Start and Stop calls of the heartbeat plugin interleave, there is *)
(* at most one sweeping goroutine, exactly while it counts as started, and   *)
(* no stop channel is closed twice (plugin/lifecycle.go).                    *)
THEOREM OneLoopHolds == BeatSpec => []OneLoop
  BY BeatStarts, BeatStep, BeatOneLoop, PTL DEF BeatSpec

(* What is in force is all of one piece: however many reloads run at once,   *)
(* the hot values are those of App.Config whenever none is under way, and no *)
(* value of a refused document is ever in force (reload.go); the key pair    *)
(* and the client CA pool come from one Load (cert_cache.go).                *)
THEOREM InForceIsWholeHolds == AppSpec /\ CertSpec => []InForceIsWhole
<1>1. AppInv /\ CertInv => InForceIsWhole
  BY Zenon DEF AppInv, CertInv, InForceIsWhole
<1> QED
  BY <1>1, AppStarts, AppStep, CertStarts, CertStep, PTL DEF AppSpec, CertSpec
=============================================================================
