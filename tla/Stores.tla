------------------------------- MODULE Stores -------------------------------
(***************************************************************************)
(* Session snapshots (internal/infra/store/session_store.go) beside the      *)
(* records the Persistence plugin keeps (internal/plugin/persistence.go) in  *)
(* one bucket of a Store: ListSnapshots lists the keys, then loads each,     *)
(* with no lock across the calls, while sessions are saved and deleted.      *)
(***************************************************************************)
EXTENDS Integers, FiniteSets

CONSTANTS SnapIds, None, MaxSaves     \* bound: saves

ASSUME StoreAssumption == MaxSaves \in Nat /\ None \notin Nat

VARIABLES
  snaps,       \* the saved version of each session, None without a snapshot
  records,     \* Persistence: "none", "accepted", "closed" of each session
  life,        \* each session: "new", "open", "gone"
  saves,
  lister,      \* ListSnapshots: "idle", "load", "done", "failed"
  keys, result,            \* keys still to load; <<id, version>> found
  always, sSeen             \* ids present throughout; <<id, version>> ever there

storeVars == <<snaps, records, life, saves, lister, keys, result, always, sSeen>>

Present == {i \in SnapIds : snaps[i] # None}
Stored == {<<i, snaps[i]>> : i \in Present}

StoreTypeOK ==
  /\ snaps \in [SnapIds -> (1..MaxSaves) \cup {None}] /\ records \in [SnapIds -> {"none", "accepted", "closed"}]
  /\ lister \in {"idle", "load", "done", "failed"} /\ always \subseteq SnapIds

StoreInit ==
  /\ snaps = [i \in SnapIds |-> None] /\ records = [i \in SnapIds |-> "none"] /\ life = [i \in SnapIds |-> "new"]
  /\ saves = 0 /\ lister = "idle" /\ keys = {} /\ result = {} /\ always = {} /\ sSeen = {}

(* The ghosts follow every change of the store while a listing runs.         *)
Watch == always' = always \cap {i \in SnapIds : snaps'[i] # None}
         /\ sSeen' = IF lister = "load" THEN sSeen \cup {<<i, snaps'[i]>> : i \in {j \in SnapIds : snaps'[j] # None}} ELSE sSeen

SaveSnapshot(i) ==
  /\ saves < MaxSaves /\ saves' = saves + 1
  /\ \/ snaps' = [snaps EXCEPT ![i] = saves'] /\ Watch
     \/ UNCHANGED <<snaps, always, sSeen>>                  \* Save fails
  /\ UNCHANGED <<records, life, lister, keys, result>>

DeleteSnapshot(i) ==
  /\ snaps[i] # None /\ snaps' = [snaps EXCEPT ![i] = None] /\ Watch
  /\ UNCHANGED <<records, life, saves, lister, keys, result>>

(* Persistence: a failed Save is logged and the session goes on.             *)
OnAccept(i) ==
  /\ life[i] = "new" /\ life' = [life EXCEPT ![i] = "open"]
  /\ \/ records' = [records EXCEPT ![i] = "accepted"] \/ UNCHANGED records
  /\ UNCHANGED <<snaps, saves, lister, keys, result, always, sSeen>>

OnClose(i) ==
  /\ life[i] = "open" /\ life' = [life EXCEPT ![i] = "gone"]
  /\ \/ records' = [records EXCEPT ![i] = "closed"] \/ UNCHANGED records
  /\ UNCHANGED <<snaps, saves, lister, keys, result, always, sSeen>>

(* List gives the keys of the bucket: snapshots by number, records by        *)
(* protocol/number, which parseUint64 skips.                                 *)
ListSnapshots ==
  /\ lister \in {"idle", "done", "failed"} /\ lister' = "load"
  /\ keys' = {<<"snap", i>> : i \in Present} \cup {<<"record", i>> : i \in {j \in SnapIds : records[j] # "none"}}
  /\ result' = {} /\ always' = Present /\ sSeen' = Stored
  /\ UNCHANGED <<snaps, records, life, saves>>

(* Load of one key: gone by now means skipped.                               *)
LoadSnapshot(k) ==
  /\ lister = "load" /\ k \in keys /\ keys' = keys \ {k}
  /\ result' = result \cup {s \in Stored : k = <<"snap", s[1]>>}
  /\ UNCHANGED <<snaps, records, life, saves, lister, always, sSeen>>

ListEnds ==
  /\ lister = "load" /\ \/ keys = {} /\ lister' = "done"
                        \/ keys # {} /\ lister' = "failed"          \* Load fails
  /\ UNCHANGED <<snaps, records, life, saves, keys, result, always, sSeen>>

StoreNext ==
  \/ \E i \in SnapIds : SaveSnapshot(i) \/ DeleteSnapshot(i) \/ OnAccept(i) \/ OnClose(i)
  \/ ListSnapshots \/ ListEnds \/ \E k \in keys : LoadSnapshot(k)

StoreSpec == StoreInit /\ [][StoreNext]_storeVars

(* A listing that succeeds has every session that had a snapshot throughout, *)
(* once, in a version the store held during the listing, and no session that *)
(* had none, whatever was saved and deleted between its two kinds of calls.  *)
ListingFaithful ==
  lister = "done" =>
    /\ always \subseteq {r[1] : r \in result} /\ result \subseteq sSeen
    /\ \A r, q \in result : r[1] = q[1] => r = q

-----------------------------------------------------------------------------
(* The in-memory cache (internal/infra/cache/cache.go): Set reads the clock  *)
(* for the expiry before it takes the lock, the sweeper reads it before it   *)
(* sweeps, Get decides expiry under the lock.                                *)
CONSTANTS Keys, Writers, Ttls,
  MaxClock, MaxSets      \* bounds: the clock, Set calls

ASSUME CacheAssumption == Ttls \subseteq Int /\ MaxClock \in Nat \ {0} /\ MaxSets \in Nat

VARIABLES
  clock,
  items,       \* key -> [val, exp] or None; exp 0 never expires
  writer,      \* a Set between its clock read and the lock, or None
  sweepNow,    \* the time a Sweep was called with, None for none
  sets,        \* Set calls so far: each value is new
  want         \* what a reader may expect: the last Set (or Delete) that took the lock

cacheVars == <<clock, items, writer, sweepNow, sets, want>>

CacheTypeOK == /\ clock \in 1..MaxClock /\ sweepNow \in 1..MaxClock \cup {None} /\ sets \in 0..MaxSets
          /\ \A k \in Keys : items[k] # None => items[k].val \in 1..MaxSets

CacheInit == /\ clock = 1 /\ items = [k \in Keys |-> None] /\ writer = [w \in Writers |-> None]
        /\ sweepNow = None /\ sets = 0 /\ want = items

Expired(e, now) == e.exp # 0 /\ now > e.exp

(* Set: a negative TTL deletes at once; otherwise the expiry is computed,    *)
Set(w) ==
  /\ writer[w] = None /\ sets < MaxSets /\ sets' = sets + 1
  /\ \E k \in Keys, ttl \in Ttls :
       IF ttl < 0 THEN items' = [items EXCEPT ![k] = None] /\ want' = [want EXCEPT ![k] = None] /\ UNCHANGED writer
       ELSE /\ writer' = [writer EXCEPT ![w] = [key |-> k, val |-> sets', exp |-> IF ttl = 0 THEN 0 ELSE clock + ttl]]
            /\ UNCHANGED <<items, want>>
  /\ UNCHANGED <<clock, sweepNow>>

(* and the entry stored once the lock is held.                               *)
SetStores(w) ==
  /\ writer[w] # None /\ writer' = [writer EXCEPT ![w] = None]
  /\ items' = [items EXCEPT ![writer[w].key] = [val |-> writer[w].val, exp |-> writer[w].exp]]
  /\ want' = [want EXCEPT ![writer[w].key] = [val |-> writer[w].val, exp |-> writer[w].exp]]
  /\ UNCHANGED <<clock, sweepNow, sets>>

Delete(k) ==
  /\ items' = [items EXCEPT ![k] = None] /\ want' = [want EXCEPT ![k] = None]
  /\ UNCHANGED <<clock, writer, sweepNow, sets>>

Clear ==
  /\ items' = [k \in Keys |-> None] /\ want' = items' /\ UNCHANGED <<clock, writer, sweepNow, sets>>

(* Get: an expired entry is not found, swept or not.                         *)
Get(k) == IF items[k] = None THEN None ELSE IF Expired(items[k], clock) THEN None ELSE items[k].val

(* StartSweeper's tick, or Len: time.Now is read, *)
SweepCall == sweepNow = None /\ sweepNow' = clock /\ UNCHANGED <<clock, items, writer, sets, want>>

(* Mutation of CacheSweep: an entry goes when its last moment has come. *)
CacheSweepEarly ==
  /\ sweepNow # None /\ sweepNow' = None
  /\ items' = [k \in Keys |-> IF items[k] = None THEN None
                              ELSE IF items[k].exp # 0 /\ sweepNow >= items[k].exp THEN None ELSE items[k]]
  /\ UNCHANGED <<clock, writer, sets, want>>

(* and Sweep removes under the lock what had expired by then.                *)
CacheSweep ==
  /\ sweepNow # None /\ sweepNow' = None
  /\ items' = [k \in Keys |-> IF items[k] = None THEN None
                              ELSE IF Expired(items[k], sweepNow) THEN None ELSE items[k]]
  /\ UNCHANGED <<clock, writer, sets, want>>

CacheTick == clock < MaxClock /\ clock' = clock + 1 /\ UNCHANGED <<items, writer, sweepNow, sets, want>>

CacheNext ==
  \/ \E w \in Writers : Set(w) \/ SetStores(w)
  \/ \E k \in Keys : Delete(k)
  \/ Clear \/ SweepCall \/ CacheSweep \/ CacheTick

CacheSpec == CacheInit /\ [][CacheNext]_cacheVars

(* Get finds the value of the last Set until its expiry and nothing after    *)
(* it: a sweep with an old clock reading takes away no live entry, however   *)
(* it interleaves with Sets of the same key.                                 *)
LastSetUntilExpiry == \A k \in Keys :
  Get(k) = IF want[k] = None THEN None ELSE IF Expired(want[k], clock) THEN None ELSE want[k].val

-----------------------------------------------------------------------------
(* What is stored is found: ListSnapshots lists what was stored throughout,  *)
(* and no ghosts (session_store.go); the cache answers with the last Set     *)
(* until it expires (cache.go).                                              *)
StoresFaithful == StoreTypeOK /\ ListingFaithful /\ CacheTypeOK /\ LastSetUntilExpiry
=============================================================================
