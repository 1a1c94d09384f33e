--------------------------- MODULE StreamsProofs ---------------------------
(***************************************************************************)
(* Proofs about the stream side, for any number of connections, peers and   *)
(* shards and any limits: the quota is exact and the ceilings and the accept *)
(* rate hold; the TCP server leaves nothing behind.                          *)
(***************************************************************************)
EXTENDS Acceptor, TcpServer, FiniteSetTheorems, TLAPS

USE SMTT(30)

(* At most one claim is open per shard, and only where there is room for it. *)
OneClaimPerShard ==
  \A c, d \in Handlers :
    cpc[c] = "charge" /\ cpc[d] = "charge" /\ ShardOf[PeerOf[c]] = ShardOf[PeerOf[d]] => c = d

ClaimFits ==
  MaxPeer > 0 =>
    \A c \in Handlers : cpc[c] = "charge" /\ Tracked(c) => peers[PeerOf[c]] < MaxPeer

TotalBounded == MaxTotal > 0 => total <= MaxTotal
PeersBounded == MaxPeer > 0 => \A p \in Peers : peers[p] <= MaxPeer

AcceptorInv ==
  /\ AcceptorTypeOK
  /\ QuotaExact
  /\ OneClaimPerShard
  /\ ClaimFits
  /\ TotalBounded
  /\ PeersBounded
  /\ RateBounded

-----------------------------------------------------------------------------
LEMMA Finite == \A S \in SUBSET Handlers : IsFiniteSet(S) /\ Cardinality(S) \in Nat
BY HandlersAssumption, FS_Subset, FS_CardinalityType, Zenon

LEMMA AddOne ==
  ASSUME NEW S \in SUBSET Handlers, NEW c \in Handlers \ S
  PROVE  Cardinality(S \cup {c}) = Cardinality(S) + 1
BY Finite, FS_AddElement, Zenon

LEMMA TakeOne ==
  ASSUME NEW S \in SUBSET Handlers, NEW c \in S
  PROVE  Cardinality(S \ {c}) = Cardinality(S) - 1
BY Finite, FS_RemoveElement, Zenon

LEMMA AcceptorInvInit == AcceptorInit => AcceptorInv
<1> SUFFICES ASSUME AcceptorInit PROVE AcceptorInv
  BY Zenon
<1>1. Holding = {} /\ \A p \in Peers : Charged(p) = {}
  BY Zenon DEF AcceptorInit, Holding, Charged
<1>2. QuotaExact
  BY <1>1, FS_EmptySet, Zenon DEF AcceptorInit, QuotaExact
<1>3. RateBounded
  BY LimitsAssumption, UnitAssumption DEF AcceptorInit, RateBounded, Burst
<1> QED
  BY <1>2, <1>3, LimitsAssumption
  DEF AcceptorInit, AcceptorInv, AcceptorTypeOK, States, OneClaimPerShard, ClaimFits, TotalBounded, PeersBounded

-----------------------------------------------------------------------------
(* PeerQuota.Acquire's first half: the refusals, and the claim. *)
LEMMA ClaimStep ==
  ASSUME AcceptorInv, NEW c \in Handlers, AcquireClaim(c) PROVE AcceptorInv'
<1>1. UNCHANGED <<peers, allowance, clock, granted>> /\ cpc[c] = "new"
  BY Zenon DEF AcquireClaim
<1>2. RateBounded'
  BY <1>1, Zenon DEF AcceptorInv, RateBounded
<1>3. \A p \in Peers : Charged(p)' = Charged(p)
  BY <1>1, Zenon DEF AcquireClaim, Goto, AcceptorInv, AcceptorTypeOK, Charged
<1>4. ASSUME NEW l \in {"peer", "capacity"}, cpc' = [cpc EXCEPT ![c] = l], total' = total
      PROVE  AcceptorInv'
  <2>1. Holding' = Holding
    BY <1>1, <1>4, Zenon DEF AcceptorInv, AcceptorTypeOK, Holding
  <2>2. QuotaExact'
    BY <1>1, <1>3, <1>4, <2>1, Zenon DEF AcceptorInv, QuotaExact
  <2> QED
    BY <1>1, <1>2, <1>4, <2>2, Zenon DEF AcceptorInv, AcceptorTypeOK, States, Refusals, OneClaimPerShard, ClaimFits, TotalBounded, PeersBounded, Tracked
<1>5. ASSUME ~PeerFull(c), ~Full, cpc' = [cpc EXCEPT ![c] = "charge"], total' = total + 1
      PROVE  AcceptorInv'
  <2>1. Holding' = Holding \cup {c} /\ c \notin Holding /\ Holding \in SUBSET Handlers
    BY <1>1, <1>5, Zenon DEF AcceptorInv, AcceptorTypeOK, Holding
  <2>2. Cardinality(Holding') = Cardinality(Holding) + 1
    BY <2>1, AddOne, Zenon
  <2>3. QuotaExact'
    BY <1>1, <1>3, <1>5, <2>2, Zenon DEF AcceptorInv, QuotaExact
  <2>4. OneClaimPerShard'
    BY <1>5, Zenon DEF AcceptorInv, AcceptorTypeOK, OneClaimPerShard, AcquireClaim, Locked
  <2>5. ClaimFits'
    BY <1>1, <1>5, LimitsAssumption DEF AcceptorInv, AcceptorTypeOK, ClaimFits, PeerFull, Tracked
  <2>6. TotalBounded'
    BY <1>5, LimitsAssumption DEF AcceptorInv, AcceptorTypeOK, TotalBounded, Full
  <2> QED
    BY <1>1, <1>2, <1>5, <2>3, <2>4, <2>5, <2>6 DEF AcceptorInv, AcceptorTypeOK, States, PeersBounded
<1> QED
  BY <1>4, <1>5, Zenon DEF AcquireClaim, Goto

(* Its second half: the peer's entry, under the lock the claim was made in.  *)
LEMMA ChargeStep ==
  ASSUME AcceptorInv, NEW c \in Handlers, AcquireCharge(c) PROVE AcceptorInv'
<1>1. /\ UNCHANGED <<total, allowance, clock, granted>> /\ cpc[c] = "charge"
      /\ peers' = [p \in Peers |-> peers[p] + (IF p = PeerOf[c] THEN 1 ELSE 0)]
  BY Zenon DEF AcquireCharge
<1>2. PICK l \in {"check", "open"} : cpc' = [cpc EXCEPT ![c] = l]
  BY Zenon DEF AcquireCharge, Goto
<1>3. RateBounded'
  BY <1>1, Zenon DEF AcceptorInv, RateBounded
<1>4. Holding' = Holding
  BY <1>1, <1>2, Zenon DEF AcceptorInv, AcceptorTypeOK, Holding
<1>5. ASSUME NEW p \in Peers PROVE peers'[p] = Cardinality(Charged(p)')
  <2>1. peers[p] = Cardinality(Charged(p)) /\ Charged(p) \in SUBSET Handlers
    BY Zenon DEF AcceptorInv, QuotaExact, Charged
  <2>2. CASE p = PeerOf[c]
    <3>1. Charged(p)' = Charged(p) \cup {c} /\ c \notin Charged(p)
      BY <1>1, <1>2, <2>2, Zenon DEF AcceptorInv, AcceptorTypeOK, Charged
    <3>2. Cardinality(Charged(p) \cup {c}) = Cardinality(Charged(p)) + 1
      BY <2>1, <3>1, AddOne, Zenon
    <3> QED BY <1>1, <2>1, <2>2, <3>1, <3>2, Zenon
  <2>3. CASE p # PeerOf[c]
    <3>1. Charged(p)' = Charged(p)
      BY <1>1, <1>2, <2>3, Zenon DEF AcceptorInv, AcceptorTypeOK, Charged
    <3>2. peers'[p] = peers[p]
      BY <1>1, <2>3 DEF AcceptorInv, AcceptorTypeOK
    <3> QED BY <2>1, <3>1, <3>2, Zenon
  <2> QED BY <2>2, <2>3, Zenon
<1>6. QuotaExact'
  BY <1>1, <1>4, <1>5, Zenon DEF AcceptorInv, QuotaExact
<1>7. OneClaimPerShard'
  BY <1>2, Zenon DEF AcceptorInv, AcceptorTypeOK, OneClaimPerShard
<1>8. ClaimFits'
  <2> SUFFICES ASSUME MaxPeer > 0, NEW d \in Handlers, cpc'[d] = "charge", PeerOf[d] \in Peers
               PROVE  peers'[PeerOf[d]] < MaxPeer
    BY Zenon DEF ClaimFits, Tracked
  <2>1. d # c /\ cpc[d] = "charge"
    BY <1>2, Zenon DEF AcceptorInv, AcceptorTypeOK
  <2>2. PeerOf[d] # PeerOf[c]
    BY <1>1, <2>1, Zenon DEF AcceptorInv, OneClaimPerShard
  <2>3. peers'[PeerOf[d]] = peers[PeerOf[d]]
    BY <1>1, <2>2 DEF AcceptorInv, AcceptorTypeOK
  <2> QED BY <2>1, <2>3, Zenon DEF AcceptorInv, ClaimFits, Tracked
<1>9. PeersBounded'
  BY <1>1, LimitsAssumption DEF AcceptorInv, AcceptorTypeOK, ClaimFits, PeersBounded, Tracked
<1>10. AcceptorTypeOK'
  BY <1>1, <1>2 DEF AcceptorInv, AcceptorTypeOK, States
<1> QED
  BY <1>1, <1>3, <1>6, <1>7, <1>8, <1>9, <1>10, Zenon DEF AcceptorInv, TotalBounded

(* The token bucket.  The slot stays held either way. *)
LEMMA RateStep ==
  ASSUME AcceptorInv, NEW c \in Handlers, RateCheck(c) PROVE AcceptorInv'
<1>1. UNCHANGED <<total, peers>> /\ cpc[c] = "check"
  BY Zenon DEF RateCheck
<1>2. PICK elapsed \in -1 .. (MaxClock - clock) :
        /\ clock' = clock + Forward(elapsed)
        /\ \/ /\ Refilled(elapsed) >= Unit
              /\ allowance' = Refilled(elapsed) - Unit
              /\ granted' = granted + 1
              /\ cpc' = [cpc EXCEPT ![c] = "open"]
           \/ /\ ~(Refilled(elapsed) >= Unit)
              /\ allowance' = Refilled(elapsed)
              /\ granted' = granted
              /\ cpc' = [cpc EXCEPT ![c] = "undo"]
  BY Zenon DEF RateCheck, Goto
<1>3. elapsed \in Int /\ Forward(elapsed) \in Nat
  BY <1>2, UnitAssumption DEF Forward, AcceptorInv, AcceptorTypeOK
<1>4. Forward(elapsed) * Rate \in Int /\ Refilled(elapsed) \in Int
  BY <1>3, LimitsAssumption, UnitAssumption DEF Refilled, Burst, AcceptorInv, AcceptorTypeOK
<1>5. AcceptorTypeOK'
  BY <1>1, <1>2, <1>3, <1>4, UnitAssumption DEF AcceptorInv, AcceptorTypeOK, States
<1>6. RateBounded'
  <2> SUFFICES ASSUME Rate > 0
               PROVE  /\ allowance' \in 0..Burst
                      /\ granted' * Unit + allowance' <= Rate + clock' * Rate
    BY Zenon DEF RateBounded, Burst
  <2> DEFINE f == Forward(elapsed)
             a == Refilled(elapsed)
  <2>1. allowance >= 0 /\ granted * Unit + allowance <= Rate + clock * Rate
    BY DEF AcceptorInv, RateBounded
  <2>2. f * Rate >= 0
    BY <1>3, LimitsAssumption
  <2>3. a >= 0 /\ a <= allowance + f * Rate /\ a <= Burst /\ Burst \in Int
    BY <1>4, <2>1, <2>2, LimitsAssumption, UnitAssumption DEF Refilled, Burst, AcceptorInv, AcceptorTypeOK
  <2>4. clock' * Rate = clock * Rate + f * Rate
    BY <1>2, <1>3, LimitsAssumption DEF AcceptorInv, AcceptorTypeOK
  <2>5. (granted + 1) * Unit = granted * Unit + Unit
    BY UnitAssumption DEF AcceptorInv, AcceptorTypeOK
  <2>6. /\ granted * Unit \in Int /\ clock * Rate \in Int /\ f * Rate \in Int /\ a \in Int
        /\ allowance \in Int /\ Rate \in Int /\ Unit \in Int
    BY <1>4, LimitsAssumption, UnitAssumption DEF AcceptorInv, AcceptorTypeOK
  <2>7. \/ allowance' = a - Unit /\ granted' = granted + 1 /\ a >= Unit
        \/ allowance' = a /\ granted' = granted
    BY <1>2, Zenon
  <2> HIDE DEF f, a
  <2>8. allowance' \in 0..Burst
    BY ONLY <2>3, <2>6, <2>7, UnitAssumption
  <2> QED BY ONLY <2>1, <2>3, <2>4, <2>5, <2>6, <2>7, <2>8
<1>7. Holding' = Holding /\ \A p \in Peers : Charged(p)' = Charged(p)
  BY <1>1, <1>2, Zenon DEF AcceptorInv, AcceptorTypeOK, Holding, Charged
<1>8. QuotaExact'
  BY <1>1, <1>7, Zenon DEF AcceptorInv, QuotaExact
<1>9. OneClaimPerShard' /\ ClaimFits'
  BY <1>1, <1>2, Zenon DEF AcceptorInv, AcceptorTypeOK, OneClaimPerShard, ClaimFits, Tracked
<1> QED
  BY <1>1, <1>5, <1>6, <1>8, <1>9, Zenon DEF AcceptorInv, TotalBounded, PeersBounded

(* PeerQuota.Release: the peer's entry, then the total. *)
LEMMA ReleasePeerStep ==
  ASSUME AcceptorInv, NEW c \in Handlers, ReleasePeer(c) PROVE AcceptorInv'
<1>1. /\ UNCHANGED <<total, allowance, clock, granted>> /\ cpc[c] \in {"open", "undo"}
      /\ peers' = [p \in Peers |-> peers[p] - (IF p = PeerOf[c] /\ peers[p] > 0 THEN 1 ELSE 0)]
  BY Zenon DEF ReleasePeer
<1>2. PICK l \in {"lower", "drop"} : cpc' = [cpc EXCEPT ![c] = l]
  BY Zenon DEF ReleasePeer, Goto
<1>3. RateBounded'
  BY <1>1, Zenon DEF AcceptorInv, RateBounded
<1>4. Holding' = Holding
  BY <1>1, <1>2, Zenon DEF AcceptorInv, AcceptorTypeOK, Holding
<1>5. ASSUME NEW p \in Peers PROVE peers'[p] = Cardinality(Charged(p)')
  <2>1. peers[p] = Cardinality(Charged(p)) /\ Charged(p) \in SUBSET Handlers /\ peers[p] \in Nat
    BY Zenon DEF AcceptorInv, AcceptorTypeOK, QuotaExact, Charged
  <2>2. CASE p = PeerOf[c]
    <3>1. Charged(p)' = Charged(p) \ {c} /\ c \in Charged(p)
      BY <1>1, <1>2, <2>2, Zenon DEF AcceptorInv, AcceptorTypeOK, Charged
    <3>2. Cardinality(Charged(p) \ {c}) = Cardinality(Charged(p)) - 1
      BY <2>1, <3>1, TakeOne, Zenon
    <3>3. Cardinality(Charged(p) \ {c}) \in Nat
      BY <2>1, Finite, Zenon
    <3>4. peers'[p] = peers[p] - 1
      BY <1>1, <2>1, <2>2, <3>2, <3>3
    <3> QED BY <2>1, <3>1, <3>2, <3>4, Zenon
  <2>3. CASE p # PeerOf[c]
    <3>1. Charged(p)' = Charged(p)
      BY <1>1, <1>2, <2>3, Zenon DEF AcceptorInv, AcceptorTypeOK, Charged
    <3>2. peers'[p] = peers[p]
      BY <1>1, <2>1, <2>3
    <3> QED BY <2>1, <3>1, <3>2, Zenon
  <2> QED BY <2>2, <2>3, Zenon
<1>6. QuotaExact'
  BY <1>1, <1>4, <1>5, Zenon DEF AcceptorInv, QuotaExact
<1>7. \A p \in Peers : peers'[p] \in Nat /\ peers'[p] <= peers[p]
  BY <1>1 DEF AcceptorInv, AcceptorTypeOK
<1>8. OneClaimPerShard'
  BY <1>2, Zenon DEF AcceptorInv, AcceptorTypeOK, OneClaimPerShard
<1>9. ClaimFits' /\ PeersBounded'
  BY <1>2, <1>7, LimitsAssumption DEF AcceptorInv, AcceptorTypeOK, ClaimFits, PeersBounded, Tracked
<1>10. AcceptorTypeOK'
  BY <1>1, <1>2, <1>7, Zenon DEF AcceptorInv, AcceptorTypeOK, States
<1> QED
  BY <1>1, <1>3, <1>6, <1>8, <1>9, <1>10, Zenon DEF AcceptorInv, TotalBounded

LEMMA ReleaseTotalStep ==
  ASSUME AcceptorInv, NEW c \in Handlers, ReleaseTotal(c) PROVE AcceptorInv'
<1>1. /\ UNCHANGED <<peers, allowance, clock, granted>> /\ cpc[c] \in {"lower", "drop"}
      /\ total' = total - 1
  BY Zenon DEF ReleaseTotal
<1>2. PICK l \in {"new", "rate"} : cpc' = [cpc EXCEPT ![c] = l]
  BY Zenon DEF ReleaseTotal, Goto
<1>3. RateBounded'
  BY <1>1, Zenon DEF AcceptorInv, RateBounded
<1>4. Holding' = Holding \ {c} /\ c \in Holding /\ Holding \in SUBSET Handlers
  BY <1>1, <1>2, Zenon DEF AcceptorInv, AcceptorTypeOK, Holding
<1>5. Cardinality(Holding') = Cardinality(Holding) - 1
  BY <1>4, TakeOne, Zenon
<1>6. \A p \in Peers : Charged(p)' = Charged(p)
  BY <1>1, <1>2, Zenon DEF AcceptorInv, AcceptorTypeOK, Charged
<1>7. QuotaExact'
  BY <1>1, <1>5, <1>6, Zenon DEF AcceptorInv, QuotaExact
<1>8. OneClaimPerShard' /\ ClaimFits'
  BY <1>1, <1>2, Zenon DEF AcceptorInv, AcceptorTypeOK, OneClaimPerShard, ClaimFits, Tracked
<1>9. TotalBounded'
  BY <1>1, LimitsAssumption DEF AcceptorInv, AcceptorTypeOK, TotalBounded
<1>10. total' \in Nat
  <2>1. Holding' \in SUBSET Handlers
    BY <1>4, Zenon
  <2> QED BY <1>7, <2>1, Finite, Zenon DEF QuotaExact
<1> QED
  BY <1>1, <1>2, <1>3, <1>7, <1>8, <1>9, <1>10, Zenon DEF AcceptorInv, AcceptorTypeOK, States, Refusals, PeersBounded

LEMMA NextConnStep ==
  ASSUME AcceptorInv, NEW c \in Handlers, NextConn(c) PROVE AcceptorInv'
<1>1. /\ UNCHANGED <<total, peers, allowance, clock, granted>> /\ cpc[c] \in Refusals
      /\ cpc' = [cpc EXCEPT ![c] = "new"]
  BY Zenon DEF NextConn, Goto
<1>2. Holding' = Holding /\ \A p \in Peers : Charged(p)' = Charged(p)
  BY <1>1, Zenon DEF AcceptorInv, AcceptorTypeOK, Holding, Charged, Refusals
<1>3. QuotaExact'
  BY <1>1, <1>2, Zenon DEF AcceptorInv, QuotaExact
<1> QED
  BY <1>1, <1>3, Zenon DEF AcceptorInv, AcceptorTypeOK, States, OneClaimPerShard, ClaimFits, Tracked, TotalBounded, PeersBounded, RateBounded

LEMMA AcceptorInvStep == AcceptorInv /\ [AcceptorNext]_acceptorVars => AcceptorInv'
<1> SUFFICES ASSUME AcceptorInv, [AcceptorNext]_acceptorVars PROVE AcceptorInv'
  BY Zenon
<1>1. CASE UNCHANGED acceptorVars
  BY <1>1, Zenon DEF acceptorVars, AcceptorInv, AcceptorTypeOK, QuotaExact, Holding, Charged, OneClaimPerShard, ClaimFits, Tracked,
              TotalBounded, PeersBounded, RateBounded
<1> QED
  BY <1>1, ClaimStep, ChargeStep, RateStep, ReleasePeerStep, ReleaseTotalStep, NextConnStep, Zenon DEF AcceptorNext

LEMMA AcceptorInvariance == AcceptorSpec => []AcceptorInv
BY AcceptorInvInit, AcceptorInvStep, PTL DEF AcceptorSpec

-----------------------------------------------------------------------------
(* The global count and the per-peer counts of PeerQuota never drift apart,  *)
(* whatever the order of TryAccept, its rate refusals and Done.              *)
THEOREM QuotaIsExact == AcceptorSpec => []QuotaExact
<1>1. AcceptorInv => QuotaExact
  BY Zenon DEF AcceptorInv
<1> QED BY <1>1, AcceptorInvariance, PTL

(* TryAccept never has more connections open than the global ceiling, nor    *)
(* more of one peer than the peer's ceiling.                                 *)
THEOREM CeilingsHold == AcceptorSpec => []WithinCeilings
<1>1. AcceptorInv => WithinCeilings
  <2> SUFFICES ASSUME AcceptorInv PROVE WithinCeilings
    BY Zenon
  <2> DEFINE Opened == {c \in Handlers : cpc[c] = "open"}
  <2>1. MaxTotal > 0 => Cardinality(Opened) <= MaxTotal
    <3>1. Opened \subseteq Holding /\ Holding \in SUBSET Handlers /\ Opened \in SUBSET Handlers
      BY Zenon DEF Holding
    <3>2. Cardinality(Opened) <= Cardinality(Holding)
      BY <3>1, Finite, FS_Subset, Zenon
    <3>3. Cardinality(Opened) \in Nat /\ Cardinality(Holding) \in Nat
      BY <3>1, Finite, Zenon
    <3> QED BY <3>2, <3>3, LimitsAssumption DEF AcceptorInv, QuotaExact, TotalBounded
  <2>2. ASSUME MaxPeer > 0, NEW p \in Peers PROVE Cardinality(Open(p)) <= MaxPeer
    <3>1. Open(p) \subseteq Charged(p) /\ Charged(p) \in SUBSET Handlers /\ Open(p) \in SUBSET Handlers
      BY Zenon DEF Open, Charged
    <3>2. Cardinality(Open(p)) <= Cardinality(Charged(p))
      BY <3>1, Finite, FS_Subset, Zenon
    <3>3. Cardinality(Open(p)) \in Nat /\ Cardinality(Charged(p)) \in Nat
      BY <3>1, Finite, Zenon
    <3> QED BY <2>2, <3>2, <3>3, LimitsAssumption DEF AcceptorInv, QuotaExact, PeersBounded
  <2> QED BY <2>1, <2>2, Zenon DEF WithinCeilings
<1> QED BY <1>1, AcceptorInvariance, PTL

(* The token bucket never lets more connections through than its first fill  *)
(* and the elapsed time allow, for any rate.                                 *)
THEOREM RateHolds == AcceptorSpec => []RateBounded
<1>1. AcceptorInv => RateBounded
  BY Zenon DEF AcceptorInv
<1> QED BY <1>1, AcceptorInvariance, PTL

(* TryAccept and Done keep every promise the run checks together.            *)
THEOREM AdmissionIsExact == AcceptorSpec => []AdmissionExact
<1>1. AcceptorInv => AcceptorTypeOK
  BY Zenon DEF AcceptorInv
<1>2. AcceptorTypeOK /\ QuotaExact /\ WithinCeilings /\ RateBounded => AdmissionExact
  BY Zenon DEF AdmissionExact
<1> QED BY <1>1, <1>2, AcceptorInvariance, QuotaIsExact, CeilingsHold, RateHolds, PTL

-----------------------------------------------------------------------------
(* The TCP server. *)
PcValues == InGoroutine \cup {"new", "refused", "ended"}

Types ==
  /\ acceptPc \in {"accept", "proxy", "backoff", "exited"}
  /\ pc \in [Conns -> PcValues]
  /\ table \subseteq Conns /\ registered \subseteq Conns /\ live \subseteq Conns /\ writers \subseteq Conns
  /\ accepted \subseteq Conns /\ onClosed \subseteq Conns /\ left \subseteq Conns
  /\ waiting \in Conns \cup {None} /\ late \subseteq {"drain", "close"}
  /\ stopPc \in {"run", "drain", "close", "wait", "pool", "stopped"}

(* The connection in the PROXY handshake has no goroutine yet. *)
Waits == acceptPc = "proxy" => waiting \in Conns /\ pc[waiting] = "new"

(* Where a connection's goroutine is says which of the tables hold it. *)
Place(c) ==
  /\ c \in table => pc[c] \in {"register", "onAccept", "serving", "delete"}
  /\ c \in registered => pc[c] \in {"onAccept", "serving", "delete", "unregister"}
  /\ c \in live => pc[c] \in {"register", "onAccept", "serving"}
  /\ c \in accepted => pc[c] \in {"serving", "delete", "unregister", "onClose", "release", "done", "ended"}
  /\ c \in writers => c \in accepted
  /\ c \in onClosed => c \in accepted /\ pc[c] \in {"release", "done", "ended"}
  /\ pc[c] \in {"release", "done", "ended"} /\ c \in accepted => c \in onClosed

Places == Waits /\ \A c \in Conns : Place(c)

Admitted == {c \in Conns : pc[c] \in InGoroutine \ {"done"}}
Inside == {c \in Conns : pc[c] \in InGoroutine}

(* The acceptor's slots and the wait group count what they should. *)
Counts ==
  /\ slots = Cardinality(Admitted) /\ slots <= MaxConns
  /\ connWG = Cardinality(Inside) + Cardinality(writers)

(* A Stop none of whose stages was late has seen the accept loop end, and    *)
(* then every goroutine.                                                     *)
Stopping ==
  late = {} =>
    /\ stopPc \in {"close", "wait", "pool", "stopped"} => acceptPc = "exited"
    /\ stopPc \in {"pool", "stopped"} => Inside = {} /\ writers = {}

TcpInv == Types /\ Places /\ Counts /\ Stopping

LEMMA TcpInit == Init => TcpInv
<1> SUFFICES ASSUME Init PROVE TcpInv
  BY Zenon
<1>1. Types
  BY Zenon DEF Init, Types, PcValues
<1>2. Places
  BY Zenon DEF Init, Places, Waits, Place
<1>3. Admitted = {} /\ Inside = {} /\ writers = {}
  BY Zenon DEF Init, Admitted, Inside, InGoroutine
<1>4. Counts
  BY <1>3, FS_EmptySet, ConnsAssumption DEF Init, Counts
<1>5. Stopping
  BY Zenon DEF Init, Stopping
<1> QED
  BY <1>1, <1>2, <1>4, <1>5, Zenon DEF TcpInv

LEMMA TypesStep == Types /\ Places /\ [Next]_vars => Types'
<1> SUFFICES ASSUME Types, Places, [Next]_vars PROVE Types'
  BY Zenon
<1> USE DEF Types, Places, Waits, PcValues, InGoroutine
<1>1. ASSUME NEW c \in Conns, Accept(c) PROVE Types'
  BY <1>1, Zenon DEF Accept, Admit, stopVars
<1>2. ASSUME NEW c \in Conns, Handshake(c) PROVE Types'
  BY <1>2, Zenon DEF Handshake, Step, ConnUnchanged, acceptVars, stopVars
<1>3. ASSUME NEW c \in Conns, Register(c) PROVE Types'
  BY <1>3, Zenon DEF Register, Step, ConnUnchanged, acceptVars, stopVars
<1>4. ASSUME NEW c \in Conns, OnAccept(c) PROVE Types'
  BY <1>4, Zenon DEF OnAccept, Step, ConnUnchanged, acceptVars, stopVars
<1>5. ASSUME NEW c \in Conns, Cleanup(c) PROVE Types'
  BY <1>5, Zenon DEF Cleanup, Step, ConnUnchanged, acceptVars, stopVars
<1>6. ASSUME NEW c \in Conns, Release(c) PROVE Types'
  BY <1>6, Zenon DEF Release, Step, ConnUnchanged, acceptVars, stopVars
<1>7. ASSUME NEW c \in Conns, ReadEnds(c) PROVE Types'
  BY <1>7, Zenon DEF ReadEnds, Step, ConnUnchanged, acceptVars, stopVars
<1>8. ASSUME NEW c \in Conns, WriteEnds(c) PROVE Types'
  BY <1>8, Zenon DEF WriteEnds, ConnUnchanged, acceptVars, stopVars
<1>9. ASSUME NEW c \in Conns, CloseDirect(c) PROVE Types'
  BY <1>9, Zenon DEF CloseDirect, ConnUnchanged, acceptVars, stopVars
<1>10. CASE ProxyHeader
  BY <1>10, Zenon DEF ProxyHeader, Admit, stopVars
<1>11. CASE ProxyReject
  BY <1>11, Zenon DEF ProxyReject, stopVars
<1>12. CASE AcceptFails
  BY <1>12, Zenon DEF AcceptFails, connVars, stopVars
<1>13. CASE AcceptClosed
  BY <1>13, Zenon DEF AcceptClosed, connVars, stopVars
<1>14. CASE BackoffOver
  BY <1>14, Zenon DEF BackoffOver, connVars, stopVars
<1>15. CASE RunCancelled
  BY <1>15, Zenon DEF RunCancelled, acceptVars, connVars, stopVars
<1>16. CASE StopAccept
  BY <1>16, Zenon DEF StopAccept, StopStep, StopUnchanged, acceptVars
<1>17. CASE Drain
  BY <1>17, Zenon DEF Drain, StopStep, StopUnchanged, acceptVars
<1>18. CASE CloseOne
  BY <1>18, Zenon DEF CloseOne, StopUnchanged, acceptVars
<1>19. CASE WaitConns
  BY <1>19, Zenon DEF WaitConns, StopStep, StopUnchanged, acceptVars
<1>20. CASE PoolStop
  BY <1>20, Zenon DEF PoolStop, StopStep, StopUnchanged, acceptVars
<1>21. CASE UNCHANGED vars
  BY <1>21 DEF vars
<1> QED
  BY <1>1, <1>2, <1>3, <1>4, <1>5, <1>6, <1>7, <1>8, <1>9, <1>10, <1>11, <1>12, <1>13, <1>14, <1>15, <1>16, <1>17, <1>18, <1>19, <1>20, <1>21, Zenon DEF Next, ConnStep, StopNext

LEMMA PlacesStep == Types /\ Places /\ [Next]_vars => Places'
<1> SUFFICES ASSUME Types, Places, [Next]_vars PROVE Places'
  BY Zenon
<1> USE DEF Types, Places, Waits, Place, PcValues, InGoroutine
<1>1. ASSUME NEW c \in Conns, Accept(c) PROVE Places'
  BY <1>1 DEF Accept, Admit, stopVars
<1>2. ASSUME NEW c \in Conns, Handshake(c) PROVE Places'
  BY <1>2 DEF Handshake, Step, ConnUnchanged, acceptVars, stopVars
<1>3. ASSUME NEW c \in Conns, Register(c) PROVE Places'
  BY <1>3 DEF Register, Step, ConnUnchanged, acceptVars, stopVars
<1>4. ASSUME NEW c \in Conns, OnAccept(c) PROVE Places'
  BY <1>4 DEF OnAccept, Step, ConnUnchanged, acceptVars, stopVars
<1>5. ASSUME NEW c \in Conns, Cleanup(c) PROVE Places'
  BY <1>5 DEF Cleanup, Step, ConnUnchanged, acceptVars, stopVars
<1>6. ASSUME NEW c \in Conns, Release(c) PROVE Places'
  BY <1>6, Zenon DEF Release, Step, ConnUnchanged, acceptVars, stopVars
<1>7. ASSUME NEW c \in Conns, ReadEnds(c) PROVE Places'
  BY <1>7, Zenon DEF ReadEnds, Step, ConnUnchanged, acceptVars, stopVars
<1>8. ASSUME NEW c \in Conns, WriteEnds(c) PROVE Places'
  BY <1>8, Zenon DEF WriteEnds, ConnUnchanged, acceptVars, stopVars
<1>9. ASSUME NEW c \in Conns, CloseDirect(c) PROVE Places'
  BY <1>9, Zenon DEF CloseDirect, ConnUnchanged, acceptVars, stopVars
<1>10. CASE ProxyHeader
  BY <1>10 DEF ProxyHeader, Admit, stopVars
<1>11. CASE ProxyReject
  BY <1>11, Zenon DEF ProxyReject, stopVars
<1>12. CASE AcceptFails
  BY <1>12, Zenon DEF AcceptFails, connVars, stopVars
<1>13. CASE AcceptClosed
  BY <1>13, Zenon DEF AcceptClosed, connVars, stopVars
<1>14. CASE BackoffOver
  BY <1>14, Zenon DEF BackoffOver, connVars, stopVars
<1>15. CASE RunCancelled
  BY <1>15, Zenon DEF RunCancelled, acceptVars, connVars, stopVars
<1>16. CASE StopAccept
  BY <1>16, Zenon DEF StopAccept, StopStep, StopUnchanged, acceptVars
<1>17. CASE Drain
  BY <1>17, Zenon DEF Drain, StopStep, StopUnchanged, acceptVars
<1>18. CASE CloseOne
  BY <1>18, Zenon DEF CloseOne, StopUnchanged, acceptVars
<1>19. CASE WaitConns
  BY <1>19, Zenon DEF WaitConns, StopStep, StopUnchanged, acceptVars
<1>20. CASE PoolStop
  BY <1>20, Zenon DEF PoolStop, StopStep, StopUnchanged, acceptVars
<1>21. CASE UNCHANGED vars
  BY <1>21, Zenon DEF vars
<1> QED
  BY <1>1, <1>2, <1>3, <1>4, <1>5, <1>6, <1>7, <1>8, <1>9, <1>10, <1>11, <1>12, <1>13, <1>14, <1>15, <1>16, <1>17, <1>18, <1>19, <1>20, <1>21, Zenon DEF Next, ConnStep, StopNext

(* The sets that are counted are finite, and a step that changes none of them *)
(* keeps the counts.                                                         *)
LEMMA FiniteParts ==
  ASSUME Types
  PROVE  /\ IsFiniteSet(Admitted) /\ IsFiniteSet(Inside) /\ IsFiniteSet(writers)
         /\ Cardinality(Admitted) \in Nat /\ Cardinality(Inside) \in Nat /\ Cardinality(writers) \in Nat
<1>1. Admitted \subseteq Conns /\ Inside \subseteq Conns /\ writers \subseteq Conns
  BY Zenon DEF Admitted, Inside, Types
<1> QED
  BY <1>1, FS_Subset, FS_CardinalityType, ConnsAssumption, Zenon

LEMMA SameCounts ==
  ASSUME Counts, UNCHANGED <<slots, connWG, writers>>, Admitted' = Admitted, Inside' = Inside
  PROVE  Counts'
BY Zenon DEF Counts

(* Admit takes a slot and enters the wait group together. *)
LEMMA AdmitCounts ==
  ASSUME Types, Counts, NEW c \in Conns, pc[c] = "new", Admit(c), writers' = writers
  PROVE  Counts'
<1>1. CASE slots < MaxConns
  <2>1. pc' = [pc EXCEPT ![c] = "handshake"] /\ slots' = slots + 1 /\ connWG' = connWG + 1
    BY <1>1, Zenon DEF Admit
  <2>2. Admitted' = Admitted \cup {c} /\ c \notin Admitted
    BY <2>1, Zenon DEF Admitted, Types, InGoroutine
  <2>3. Inside' = Inside \cup {c} /\ c \notin Inside
    BY <2>1, Zenon DEF Inside, Types, InGoroutine
  <2>4. Cardinality(Admitted') = Cardinality(Admitted) + 1 /\ Cardinality(Inside') = Cardinality(Inside) + 1
    BY <2>2, <2>3, FiniteParts, FS_AddElement, Zenon
  <2> QED
    BY <1>1, <2>1, <2>4, FiniteParts, ConnsAssumption DEF Counts
<1>2. CASE ~(slots < MaxConns)
  <2>1. pc' = [pc EXCEPT ![c] = "refused"] /\ UNCHANGED <<slots, connWG>>
    BY <1>2, Zenon DEF Admit
  <2>2. Admitted' = Admitted /\ Inside' = Inside
    BY <2>1, Zenon DEF Admitted, Inside, Types, InGoroutine
  <2> QED
    BY <2>1, <2>2, SameCounts, Zenon
<1> QED
  BY <1>1, <1>2, Zenon

LEMMA CountsStep ==
  Types /\ Places /\ Counts /\ [Next]_vars => Counts'
<1> SUFFICES ASSUME Types, Places, Counts, [Next]_vars PROVE Counts'
  BY Zenon
<1>1. ASSUME NEW c \in Conns, Accept(c) PROVE Counts'
  <2>1. CASE proxy
    BY <1>1, <2>1, SameCounts, Zenon DEF Accept, Admitted, Inside
  <2>2. CASE ~proxy
    BY <1>1, <2>2, AdmitCounts, Zenon DEF Accept
  <2> QED
    BY <2>1, <2>2, Zenon
<1>2. ASSUME NEW c \in Conns, Handshake(c) \/ Register(c) \/ ReadEnds(c) \/ Cleanup(c) PROVE Counts'
  <2>1. Admitted' = Admitted /\ Inside' = Inside
    BY <1>2 DEF Handshake, Register, ReadEnds, Cleanup, Step, Admitted, Inside, Types, InGoroutine
  <2>2. UNCHANGED <<slots, connWG, writers>>
    BY <1>2, Zenon DEF Handshake, Register, ReadEnds, Cleanup
  <2> QED
    BY <2>1, <2>2, SameCounts, Zenon
<1>3. ASSUME NEW c \in Conns, OnAccept(c) PROVE Counts'
  <2>1. Admitted' = Admitted /\ Inside' = Inside /\ slots' = slots
    BY <1>3, Zenon DEF OnAccept, Step, Admitted, Inside, Types, InGoroutine
  <2>2. CASE writers' = writers \cup {c} /\ connWG' = connWG + 1
    <3>1. c \notin writers
      BY <1>3, Zenon DEF OnAccept, Step, Places, Place
    <3>2. Cardinality(writers') = Cardinality(writers) + 1
      BY <2>2, <3>1, FiniteParts, FS_AddElement, Zenon
    <3> QED
      BY <2>1, <2>2, <3>2, FiniteParts DEF Counts
  <2>3. CASE UNCHANGED <<writers, connWG>>
    BY <2>1, <2>3, SameCounts, Zenon
  <2> QED
    BY <1>3, <2>2, <2>3, Zenon DEF OnAccept
<1>4. ASSUME NEW c \in Conns, Release(c) PROVE Counts'
  <2>1. CASE Step(c, "release", "done") /\ slots' = slots - 1 /\ UNCHANGED connWG
    <3>1. Admitted' = Admitted \ {c} /\ c \in Admitted /\ Inside' = Inside
      BY <2>1, Zenon DEF Step, Admitted, Inside, Types, InGoroutine
    <3>2. Cardinality(Admitted') = Cardinality(Admitted) - 1
      BY <3>1, FiniteParts, FS_RemoveElement, Zenon
    <3>3. writers' = writers
      BY <1>4, Zenon DEF Release
    <3> QED
      BY <2>1, <3>1, <3>2, <3>3, FiniteParts, ConnsAssumption DEF Counts
  <2>2. CASE Step(c, "done", "ended") /\ connWG' = connWG - 1 /\ UNCHANGED slots
    <3>1. Inside' = Inside \ {c} /\ c \in Inside /\ Admitted' = Admitted
      BY <2>2, Zenon DEF Step, Admitted, Inside, Types, InGoroutine
    <3>2. Cardinality(Inside') = Cardinality(Inside) - 1
      BY <3>1, FiniteParts, FS_RemoveElement, Zenon
    <3>3. writers' = writers
      BY <1>4, Zenon DEF Release
    <3> QED
      BY <2>2, <3>1, <3>2, <3>3, FiniteParts DEF Counts
  <2> QED
    BY <1>4, <2>1, <2>2, Zenon DEF Release
<1>5. ASSUME NEW c \in Conns, WriteEnds(c) PROVE Counts'
  <2>1. Admitted' = Admitted /\ Inside' = Inside /\ slots' = slots /\ connWG' = connWG - 1
    BY <1>5, Zenon DEF WriteEnds, Admitted, Inside
  <2>2. Cardinality(writers') = Cardinality(writers) - 1
    <3>1. writers' = writers \ {c} /\ c \in writers
      BY <1>5, Zenon DEF WriteEnds
    <3> QED
      BY <3>1, FiniteParts, FS_RemoveElement, Zenon
  <2> QED
    BY <2>1, <2>2, FiniteParts DEF Counts
<1>6. CASE ProxyHeader
  BY <1>6, AdmitCounts, Zenon DEF ProxyHeader, Places, Waits
<1>7. CASE ProxyReject
  <2>1. Admitted' = Admitted /\ Inside' = Inside /\ UNCHANGED <<slots, connWG, writers>>
    BY <1>7, Zenon DEF ProxyReject, Places, Waits, Admitted, Inside, Types, InGoroutine
  <2> QED
    BY <2>1, SameCounts, Zenon
<1>8. CASE UNCHANGED <<slots, connWG, pc, writers>>
  BY <1>8, SameCounts, Zenon DEF Admitted, Inside
<1>9. ASSUME NEW c \in Conns, CloseDirect(c) PROVE UNCHANGED <<slots, connWG, pc, writers>>
  BY <1>9, Zenon DEF CloseDirect
<1>10. CASE AcceptFails \/ AcceptClosed \/ BackoffOver \/ RunCancelled
  BY <1>8, <1>10, Zenon DEF AcceptFails, AcceptClosed, BackoffOver, RunCancelled, connVars
<1>11. CASE StopAccept \/ StopNext \/ UNCHANGED vars
  BY <1>8, <1>11, Zenon DEF StopAccept, StopNext, Drain, CloseOne, WaitConns, PoolStop, StopUnchanged, vars
<1> QED
  BY <1>1, <1>2, <1>3, <1>4, <1>5, <1>6, <1>7, <1>8, <1>9, <1>10, <1>11, Zenon DEF Next, ConnStep

LEMMA StoppingStep ==
  TcpInv /\ [Next]_vars => Stopping'
<1> SUFFICES ASSUME TcpInv, [Next]_vars PROVE Stopping'
  BY Zenon
<1> USE DEF TcpInv
<1>1. CASE UNCHANGED <<late, stopPc, acceptPc, pc, writers>>
  BY <1>1, Zenon DEF Stopping, Inside
<1>2. ASSUME NEW c \in Conns, Accept(c) PROVE Stopping'
  BY <1>2, Zenon DEF Accept, Stopping, stopVars
<1>3. ASSUME NEW c \in Conns, ConnStep(c) \/ Handshake(c) \/ ReadEnds(c) \/ WriteEnds(c) PROVE Stopping'
  <2>1. UNCHANGED <<late, stopPc, acceptPc>>
    BY <1>3, Zenon DEF ConnStep, Handshake, Register, OnAccept, Cleanup, Release, ReadEnds, WriteEnds,
                ConnUnchanged, acceptVars, stopVars
  <2>2. c \in Inside \cup writers
    BY <1>3, Zenon DEF ConnStep, Handshake, Register, OnAccept, Cleanup, Release, ReadEnds, WriteEnds, Step,
                Inside, InGoroutine
  <2> QED
    BY <2>1, <2>2, Zenon DEF Stopping
<1>4. CASE ProxyHeader \/ ProxyReject
  BY <1>4, Zenon DEF ProxyHeader, ProxyReject, Stopping, stopVars
<1>5. CASE AcceptFails \/ AcceptClosed \/ BackoffOver
  <2>1. UNCHANGED <<late, stopPc, pc, writers>> /\ acceptPc # "exited"
    BY <1>5, Zenon DEF AcceptFails, AcceptClosed, BackoffOver, connVars, stopVars
  <2> QED
    BY <2>1, Zenon DEF Stopping
<1>6. CASE StopAccept
  BY <1>6, Zenon DEF StopAccept, StopStep, Stopping
<1>7. CASE Drain
  BY <1>7, Zenon DEF Drain, StopStep, StopUnchanged, acceptVars, Stopping
<1>8. CASE CloseOne
  BY <1>8, Zenon DEF CloseOne, StopUnchanged, acceptVars, Stopping
<1>9. CASE WaitConns
  <2>1. UNCHANGED <<acceptPc, pc, writers>> /\ stopPc = "wait"
    BY <1>9, Zenon DEF WaitConns, StopStep, StopUnchanged, acceptVars
  <2>2. SUFFICES ASSUME late' = {} PROVE acceptPc = "exited" /\ Inside = {} /\ writers = {}
    BY <2>1, <2>2, Zenon DEF Stopping, Inside
  <2>3. connWG = 0 /\ late = {}
    BY <1>9, <2>2, Zenon DEF WaitConns
  <2>4. Cardinality(Inside) = 0 /\ Cardinality(writers) = 0
    BY <2>3, FiniteParts DEF Counts
  <2> QED
    BY <2>1, <2>3, <2>4, FiniteParts, FS_EmptySet, Zenon DEF Stopping
<1>10. CASE PoolStop
  BY <1>10, Zenon DEF PoolStop, StopStep, StopUnchanged, acceptVars, Stopping, Inside
<1>11. ASSUME NEW c \in Conns, CloseDirect(c) PROVE UNCHANGED <<late, stopPc, acceptPc, pc, writers>>
  BY <1>11, Zenon DEF CloseDirect, ConnUnchanged, acceptVars, stopVars
<1>12. CASE RunCancelled \/ UNCHANGED vars
  BY <1>1, <1>12, Zenon DEF RunCancelled, acceptVars, connVars, stopVars, vars
<1> QED
  BY <1>1, <1>2, <1>3, <1>4, <1>5, <1>6, <1>7, <1>8, <1>9, <1>10, <1>11, <1>12, Zenon DEF Next, StopNext

LEMMA TcpInvariant == Spec => []TcpInv
<1>1. TcpInv /\ [Next]_vars => TcpInv'
  BY TypesStep, PlacesStep, CountsStep, StoppingStep, Zenon DEF TcpInv
<1> QED
  BY <1>1, TcpInit, PTL DEF Spec

(* handleConn's deferred clean-up, for any number of connections: OnClose    *)
(* exactly for what OnAccept took, and an ended goroutine leaves no slot, no *)
(* entry and no live session.                                                *)
THEOREM CleanupIsComplete == Spec => []NothingLeft
<1>1. TcpInv => NothingLeft
  <2> SUFFICES ASSUME TcpInv PROVE NothingLeft
    BY Zenon
  <2>1. onClosed \subseteq accepted \ (table \cup registered)
    BY Zenon DEF TcpInv, Types, Places, Place
  <2>2. ASSUME NEW c \in Conns, pc[c] = "ended"
        PROVE  c \notin table \cup registered \cup live /\ (c \in accepted => c \in onClosed)
    BY <2>2, Zenon DEF TcpInv, Places, Place
  <2> QED
    BY <2>1, <2>2, Zenon DEF NothingLeft, TcpInv, Counts, Admitted
<1> QED
  BY <1>1, TcpInvariant, PTL

(* The stages of Stop, for any number of connections: when none was late,    *)
(* no goroutine, session or table entry is left as the pool stops.           *)
THEOREM StopLeavesNothing == Spec => []StopIsClean
<1>1. TcpInv => StopIsClean
  <2> SUFFICES ASSUME TcpInv, stopPc \in {"pool", "stopped"}, late = {}
               PROVE  /\ acceptPc = "exited" /\ connWG = 0 /\ writers = {} /\ table = {} /\ registered = {} /\ live = {}
                      /\ \A c \in Conns : pc[c] \in {"new", "refused", "ended"}
    BY Zenon DEF StopIsClean
  <2>1. acceptPc = "exited" /\ Inside = {} /\ writers = {}
    BY Zenon DEF TcpInv, Stopping
  <2>2. connWG = 0
    BY <2>1, FS_EmptySet DEF TcpInv, Counts
  <2>3. \A c \in Conns : pc[c] \in {"new", "refused", "ended"}
    BY <2>1, Zenon DEF TcpInv, Types, Inside, PcValues
  <2>4. table = {} /\ registered = {} /\ live = {}
    BY <2>3, Zenon DEF TcpInv, Types, Places, Place
  <2> QED
    BY <2>1, <2>2, <2>3, <2>4, Zenon
<1> QED
  BY <1>1, TcpInvariant, PTL

(* Every promise of the TCP server the run checks together.                  *)
THEOREM TcpLeavesNothingHolds == Spec => []TcpLeavesNothing
<1>1. TcpInv => TypeOK
  <2> SUFFICES ASSUME TcpInv PROVE TypeOK
    BY Zenon
  <2>1. Inside \subseteq Conns /\ writers \subseteq Conns
    BY Zenon DEF TcpInv, Types, Inside
  <2>2. Cardinality(Inside) <= Cardinality(Conns) /\ Cardinality(writers) <= Cardinality(Conns)
    BY <2>1, FS_Subset, ConnsAssumption, Zenon
  <2>3. Cardinality(Conns) \in Nat
    BY FS_CardinalityType, ConnsAssumption, Zenon
  <2>4. slots \in 0..MaxConns /\ connWG \in 0..(2 * Cardinality(Conns))
    BY <2>2, <2>3, FiniteParts, ConnsAssumption DEF TcpInv, Counts
  <2> QED
    BY <2>4, Zenon DEF TcpInv, Types, PcValues, TypeOK
<1>2. TypeOK /\ NothingLeft /\ StopIsClean => TcpLeavesNothing
  BY Zenon DEF TcpLeavesNothing
<1> QED
  BY <1>1, <1>2, TcpInvariant, CleanupIsComplete, StopLeavesNothing, PTL

=============================================================================
