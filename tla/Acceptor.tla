------------------------------ MODULE Acceptor ------------------------------
(***************************************************************************)
(* Connection admission: the Acceptor (internal/transport/shared/acceptor.go)*)
(* on top of PeerQuota (quota.go).                                          *)
(*                                                                          *)
(* Every goroutine that serves a connection calls TryAccept, and Done when  *)
(* the connection ends.  Acquire holds the lock of the peer's shard while it*)
(* claims on the global counter, so claim and charge are two steps that shut*)
(* the shard's other users out; Release unlocks before it lowers the total. *)
(* The token bucket is a float in the code.  Here it counts 1/Unit tokens,  *)
(* and Rate is the refill per second in the same unit.                      *)
(***************************************************************************)
EXTENDS Integers, FiniteSets

CONSTANTS
  Handlers,        \* goroutines, each serving one connection after another
  Peers,        \* addresses a connection can be attributed to
  Unknown,      \* the invalid address
  PeerOf,       \* the address of each goroutine's connections
  ShardOf,      \* the quota shard of each address
  MaxTotal,     \* maxConns; not positive means unlimited
  MaxPeer,      \* maxPerPeer; not positive means unlimited
  Rate,         \* acceptRate; not positive means unlimited
  Unit,         \* one token
  MaxClock      \* bound: seconds the clock moves forward in a behaviour

ASSUME HandlersAssumption == IsFiniteSet(Handlers)
ASSUME PeersAssumption == Unknown \notin Peers /\ PeerOf \in [Handlers -> Peers \cup {Unknown}]
ASSUME LimitsAssumption == MaxTotal \in Int /\ MaxPeer \in Int /\ Rate \in Int
ASSUME UnitAssumption == Unit \in Nat \ {0} /\ MaxClock \in Nat

VARIABLES
  total,      \* PeerQuota.total
  peers,      \* the shards' peer maps; an absent entry is 0
  cpc,        \* progress of each connection
  allowance,  \* Acceptor.allowance
  clock,      \* seconds added to the bucket so far
  granted     \* tokens taken so far

acceptorVars == <<total, peers, cpc, allowance, clock, granted>>

Refusals == {"capacity", "peer", "rate"}
States == {"new", "charge", "check", "open", "undo", "lower", "drop"} \cup Refusals

Tracked(c) == PeerOf[c] \in Peers
Locked(s) == \E c \in Handlers : cpc[c] = "charge" /\ ShardOf[PeerOf[c]] = s
Goto(c, l) == cpc' = [cpc EXCEPT ![c] = l]

AcceptorTypeOK ==
  /\ total \in Nat
  /\ peers \in [Peers -> Nat]
  /\ cpc \in [Handlers -> States]
  /\ allowance \in Int
  /\ clock \in Nat
  /\ granted \in Nat

AcceptorInit ==
  /\ total = 0
  /\ peers = [p \in Peers |-> 0]
  /\ cpc = [c \in Handlers |-> "new"]
  /\ allowance = Rate
  /\ clock = 0
  /\ granted = 0

-----------------------------------------------------------------------------
(* PeerQuota.Acquire: the peer's ceiling, then the claim on the total.       *)
PeerFull(c) == Tracked(c) /\ MaxPeer > 0 /\ peers[PeerOf[c]] >= MaxPeer
Full == MaxTotal > 0 /\ total >= MaxTotal

AcquireClaim(c) ==
  /\ cpc[c] = "new"
  /\ ~Locked(ShardOf[PeerOf[c]])
  /\ IF PeerFull(c) THEN Goto(c, "peer") /\ UNCHANGED total
     ELSE IF Full THEN Goto(c, "capacity") /\ UNCHANGED total
     ELSE Goto(c, "charge") /\ total' = total + 1
  /\ UNCHANGED <<peers, allowance, clock, granted>>

AcquireCharge(c) ==
  /\ cpc[c] = "charge"
  /\ peers' = [p \in Peers |-> peers[p] + (IF p = PeerOf[c] THEN 1 ELSE 0)]
  /\ Goto(c, IF Rate > 0 THEN "check" ELSE "open")
  /\ UNCHANGED <<total, allowance, clock, granted>>

(* TryAccept's token bucket, under its own mutex.  A clock that stepped back *)
(* counts as no time at all.                                                 *)
Burst == IF Rate < Unit THEN Unit ELSE Rate
Forward(elapsed) == IF elapsed < 0 THEN 0 ELSE elapsed
Refilled(elapsed) ==
  LET a == allowance + Forward(elapsed) * Rate
  IN IF a > Burst THEN Burst ELSE a

(* Mutation of RateCheck: a refusal keeps the peer's slot. *)
RateCheckKeeps(c) ==
  /\ cpc[c] = "check"
  /\ \E elapsed \in -1 .. (MaxClock - clock) :
       LET a == Refilled(elapsed) IN
       /\ clock' = clock + Forward(elapsed)
       /\ IF a >= Unit
            THEN allowance' = a - Unit /\ granted' = granted + 1 /\ Goto(c, "open")
            ELSE allowance' = a /\ UNCHANGED granted /\ Goto(c, "drop")
  /\ UNCHANGED <<total, peers>>

RateCheck(c) ==
  /\ cpc[c] = "check"
  /\ \E elapsed \in -1 .. (MaxClock - clock) :
       LET a == Refilled(elapsed) IN
       /\ clock' = clock + Forward(elapsed)
       /\ IF a >= Unit
            THEN allowance' = a - Unit /\ granted' = granted + 1 /\ Goto(c, "open")
            ELSE allowance' = a /\ UNCHANGED granted /\ Goto(c, "undo")
  /\ UNCHANGED <<total, peers>>

(* PeerQuota.Release, by Done or because the bucket was empty.  Only a peer  *)
(* that is tracked has a shard to lock.                                      *)
ReleasePeer(c) ==
  /\ cpc[c] \in {"open", "undo"}
  /\ Tracked(c) => ~Locked(ShardOf[PeerOf[c]])
  /\ peers' = [p \in Peers |-> peers[p] - (IF p = PeerOf[c] /\ peers[p] > 0 THEN 1 ELSE 0)]
  /\ Goto(c, IF cpc[c] = "open" THEN "lower" ELSE "drop")
  /\ UNCHANGED <<total, allowance, clock, granted>>

ReleaseTotal(c) ==
  /\ cpc[c] \in {"lower", "drop"}
  /\ total' = total - 1
  /\ Goto(c, IF cpc[c] = "lower" THEN "new" ELSE "rate")
  /\ UNCHANGED <<peers, allowance, clock, granted>>

(* The refused connection is closed; another one arrives. *)
NextConn(c) ==
  /\ cpc[c] \in Refusals
  /\ Goto(c, "new")
  /\ UNCHANGED <<total, peers, allowance, clock, granted>>

AcceptorNext ==
  \E c \in Handlers :
    \/ AcquireClaim(c)
    \/ AcquireCharge(c)
    \/ RateCheck(c)
    \/ ReleasePeer(c)
    \/ ReleaseTotal(c)
    \/ NextConn(c)

AcceptorSpec == AcceptorInit /\ [][AcceptorNext]_acceptorVars

-----------------------------------------------------------------------------
Holding == {c \in Handlers : cpc[c] \in {"charge", "check", "open", "undo", "lower", "drop"}}
Charged(p) == {c \in Handlers : cpc[c] \in {"check", "open", "undo"} /\ PeerOf[c] = p}
Open(p) == {c \in Handlers : cpc[c] = "open" /\ PeerOf[c] = p}

(* "there is no way for the two to drift apart": the total is the number of  *)
(* slots held and each peer's entry the number of its connections charged,   *)
(* whatever the interleaving of admissions, rate refusals and Done.          *)
QuotaExact ==
  /\ total = Cardinality(Holding)
  /\ \A p \in Peers : peers[p] = Cardinality(Charged(p))

(* No interleaving of TryAccept and Done admits more connections than the    *)
(* global ceiling, or more of one peer than the peer's ceiling.              *)
WithinCeilings ==
  /\ MaxTotal > 0 => Cardinality({c \in Handlers : cpc[c] = "open"}) <= MaxTotal
  /\ MaxPeer > 0 => \A p \in Peers : Cardinality(Open(p)) <= MaxPeer

(* The connections the bucket has let through never exceed what it started   *)
(* with plus what the clock, as TryAccept reads it, has refilled; and it     *)
(* never goes into debt, not even when the clock steps back, nor above the   *)
(* burst it may grant at once.                                               *)
RateBounded ==
  Rate > 0 => allowance \in 0..Burst /\ granted * Unit + allowance <= Rate + clock * Rate

(* The admission gate as TryAccept and Done promise it: the counts are       *)
(* exact, the ceilings hold and the bucket grants no more than it gained.    *)
AdmissionExact == AcceptorTypeOK /\ QuotaExact /\ WithinCeilings /\ RateBounded
=============================================================================
