----------------------------- MODULE RateLimit -----------------------------
(***************************************************************************)
(* RateLimit's sliding window (internal/plugin/ratelimit.go), called by the  *)
(* read loops of all sessions of a peer.  OnMessage reads the limit and the  *)
(* clock before it takes the shard's lock, and SetLimit stores rate and      *)
(* window one by one.                                                        *)
(***************************************************************************)
EXTENDS Integers, Sequences, SequencesExt, FiniteSets

CONSTANTS
  Keys,           \* peers (remoteKey)
  Loops,          \* read loops that call OnMessage
  Limits,         \* <<rate, window>> pairs SetLimit may be given
  MaxTime,        \* bound: clock
  MaxLag,         \* bound: how long OnMessage waits for the shard's lock
  None

VARIABLES
  now,
  rate, window,   \* RateLimit.rate, .window
  setting,        \* SetLimit between its two stores: the pair or None
  loop,           \* OnMessage before its lock: None or [key, rate, window, at]
  counters,       \* key -> time stamps
  passed,         \* history: messages let through, [key, at (of the decision)]
  smallest        \* history: the smallest window in force so far

vars == <<now, rate, window, setting, loop, counters, passed, smallest>>

TypeOK ==
  /\ now \in 0..MaxTime
  /\ \E l \in Limits : l[1] = rate
  /\ \E l \in Limits : l[2] = window
  /\ \A k \in Keys : ToSet(counters[k]) \subseteq 0..MaxTime

Init ==
  /\ now = 0 /\ \E l \in Limits : rate = l[1] /\ window = l[2] /\ smallest = l[2]
  /\ setting = None /\ loop = [l \in Loops |-> None]
  /\ counters = [k \in Keys |-> << >>] /\ passed = {}

-----------------------------------------------------------------------------
(* SetLimit *)
SetLimit(l) ==
  /\ setting = None /\ setting' = l /\ rate' = l[1]
  /\ UNCHANGED <<now, window, loop, counters, passed, smallest>>

SetWindow ==
  /\ setting # None /\ setting' = None /\ window' = setting[2]
  /\ smallest' = IF window' < smallest THEN window' ELSE smallest
  /\ UNCHANGED <<now, rate, loop, counters, passed>>

(* OnMessage: Limit and time.Now ... *)
OnMessage(l, k) ==
  /\ loop[l] = None /\ loop' = [loop EXCEPT ![l] = [key |-> k, rate |-> rate, window |-> window, at |-> now]]
  /\ UNCHANGED <<now, rate, window, setting, counters, passed, smallest>>

(* The stamps that are left when the expired ones at the front are gone. *)
Rest(stamps, cutoff) ==
  LET fresh == {i \in DOMAIN stamps : stamps[i] >= cutoff} IN
  IF fresh = {} THEN << >> ELSE SubSeq(stamps, Min(fresh), Len(stamps))

(* Mutation of Decide: the limit is compared before the new message counts.  *)
DecideOneMore(l) ==
  /\ loop[l] # None
  /\ LET m == loop[l]  stamps == Rest(counters[m.key], m.at - m.window) IN
     IF Len(stamps) > m.rate
     THEN counters' = [counters EXCEPT ![m.key] = stamps] /\ UNCHANGED passed
     ELSE /\ counters' = [counters EXCEPT ![m.key] = Append(stamps, m.at)]
          /\ passed' = passed \cup {[key |-> m.key, at |-> now, nth |-> Cardinality(passed)]}
  /\ loop' = [loop EXCEPT ![l] = None]
  /\ UNCHANGED <<now, rate, window, setting, smallest>>

(* ... then, under the lock, prune, compare and record. *)
Decide(l) ==
  /\ loop[l] # None
  /\ LET m == loop[l]  stamps == Rest(counters[m.key], m.at - m.window) IN
     IF Len(stamps) >= m.rate
     THEN counters' = [counters EXCEPT ![m.key] = stamps] /\ UNCHANGED passed
     ELSE /\ counters' = [counters EXCEPT ![m.key] = Append(stamps, m.at)]
          /\ passed' = passed \cup {[key |-> m.key, at |-> now, nth |-> Cardinality(passed)]}
  /\ loop' = [loop EXCEPT ![l] = None]
  /\ UNCHANGED <<now, rate, window, setting, smallest>>

(* sweep *)
SweepRate ==
  /\ counters' = [k \in Keys |-> Rest(counters[k], now - window)]
  /\ UNCHANGED <<now, rate, window, setting, loop, passed, smallest>>

(* Nobody waits for the shard's lock for longer than MaxLag. *)
Tick ==
  /\ now < MaxTime /\ now' = now + 1
  /\ \A l \in Loops : loop[l] # None => now' - loop[l].at <= MaxLag
  /\ UNCHANGED <<rate, window, setting, loop, counters, passed, smallest>>

Next ==
  \/ Tick \/ SetWindow \/ SweepRate
  \/ \E l \in Limits : l # <<rate, window>> /\ SetLimit(l)
  \/ \E l \in Loops : Decide(l) \/ \E k \in Keys : OnMessage(l, k)

Spec == Init /\ [][Next]_vars

-----------------------------------------------------------------------------
LargestRate == CHOOSE r \in {l[1] : l \in Limits} : \A l \in Limits : r >= l[1]

(* A peer never gets more through than the limit allows, however its         *)
(* sessions' read loops interleave and whatever SetLimit does meanwhile: in  *)
(* any stretch shorter than the smallest window in force by the time a       *)
(* caller may wait for the lock, at most the largest rate.  (The code's own  *)
(* window is exceeded by that much, since it stamps before it locks.)        *)
WindowKept ==
  \A k \in Keys : \A t \in 0..MaxTime :
    Cardinality({m \in passed : m.key = k /\ t - (smallest - MaxLag) <= m.at /\ m.at <= t}) <= LargestRate
=============================================================================
