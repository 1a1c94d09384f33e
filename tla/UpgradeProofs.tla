--------------------------- MODULE UpgradeProofs ---------------------------
(***************************************************************************)
(* Proofs about WebSocket sessions, for any number of upgrade requests: the  *)
(* slots of the acceptor and the calls of OnClose.                           *)
(***************************************************************************)
EXTENDS UpgradeServer, FiniteSetTheorems, TLAPS

Closers == [by : {"none", "handler", "reader", "pinger", "stop"},
            at : {"none", "unregister", "mark", "lock", "frame", "notify"}]

UpTypes ==
  /\ kind \in {"ws", "grpcweb"}
  /\ hpc \in [Conns -> {"new", "upgrade", "store", "register", "onAccept", "spawn", "drop", "release", "end"}]
  /\ table \subseteq Conns /\ registered \subseteq Conns /\ live \subseteq Conns /\ wire \subseteq Conns
  /\ stuck \subseteq Conns /\ accepted \subseteq Conns /\ left \subseteq Conns
  /\ onClosed \in [Conns -> {0, 1}]
  /\ reader \in [Conns -> Loop] /\ pinger \in [Conns -> Loop]
  /\ writeMu \in [Conns -> {"free", "ping", "close"}]
  /\ closer \in [Conns -> Closers]
  /\ stopPc \in {"run", "close", "wait", "stopped"}

(* What is known of a connection.  An entry of the table has no closer and   *)
(* was not closed; a closer is where its goroutine is; the loops run for     *)
(* accepted sessions whose handler is done.  While Stop has not begun, only  *)
(* the handler takes a session that it is opening out of the table, and a    *)
(* session that OnAccept took is in the table, being closed, or closed.      *)
UpRun(c) ==
  /\ closer[c].by # "stop"
  /\ hpc[c] \in {"register", "onAccept", "spawn"} => c \in table
  /\ hpc[c] = "release" => closer[c].by = "none"
  /\ onClosed[c] = 1 => c \in accepted /\ hpc[c] = "end" /\ c \notin registered /\ c \notin live /\ c \notin table
  /\ c \in accepted => c \in table \/ closer[c].by # "none" \/ onClosed[c] = 1
  /\ closer[c].by \in {"reader", "pinger"} /\ closer[c].at # "unregister" => c \notin registered
  /\ closer[c].by \in {"reader", "pinger"} /\ closer[c].at \in {"lock", "frame", "notify"} => c \notin live

UpOf(c) ==
  /\ hpc[c] \in {"new", "upgrade", "store"} =>
       c \notin table /\ closer[c].by = "none" /\ onClosed[c] = 0
  /\ c \in table => closer[c].by = "none" /\ onClosed[c] = 0
  /\ closer[c].by # "none" => onClosed[c] = 0
  /\ closer[c].by = "none" <=> closer[c].at = "none"
  /\ closer[c].by = "handler" => hpc[c] = "drop"
  /\ closer[c].by = "reader" => reader[c] = "close"
  /\ closer[c].by = "pinger" => pinger[c] = "close"
  /\ reader[c] # "off" => hpc[c] = "end" /\ c \in accepted
  /\ pinger[c] # "off" => hpc[c] = "end" /\ c \in accepted
  /\ c \in accepted => hpc[c] \in {"spawn", "end"}
  /\ hpc[c] = "spawn" => c \in accepted
  /\ hpc[c] = "release" => c \notin table
  /\ reader[c] = "out" => c \notin table
  /\ stopPc = "run" => UpRun(c)

(* The connections that hold a slot. *)
UpHolds(c) ==
  IF kind = "ws"
  THEN hpc[c] \notin {"new", "end", "drop", "release"} \/ (hpc[c] = "end" /\ reader[c] \in {"run", "close"})
  ELSE hpc[c] \notin {"new", "end"}
         \/ (hpc[c] = "end" /\ (c \in table \/ closer[c].by \in {"reader", "pinger", "stop"}))

UpHolders == {c \in Conns : UpHolds(c)}

UpSlots ==
  /\ slots \in Int
  /\ kind = "ws" => slots <= MaxConns
  /\ kind = "ws" \/ stopPc = "run" => slots = Cardinality(UpHolders)

UpInv == UpTypes /\ UpSlots /\ \A c \in Conns : UpOf(c)

LEMMA UpInitInv == Init => UpInv
<1> SUFFICES ASSUME Init PROVE UpInv
  BY Zenon
<1>1. UpTypes
  BY Zenon DEF Init, UpTypes, NoCloser, Closers, Loop
<1>2. UpHolders = {}
  BY Zenon DEF Init, UpHolders, UpHolds, NoCloser
<1>3. UpSlots
  BY <1>2, FS_EmptySet, UpgradeAssumption DEF Init, UpSlots
<1>4. ASSUME NEW c \in Conns PROVE UpOf(c)
  BY DEF Init, UpOf, UpRun, NoCloser
<1> QED
  BY <1>1, <1>3, <1>4, Zenon DEF UpInv

-----------------------------------------------------------------------------
(* The count of slots follows the connections that hold one. *)
LEMMA UpFinite == IsFiniteSet(UpHolders) /\ Cardinality(UpHolders) \in Nat
<1>1. UpHolders \subseteq Conns
  BY Zenon DEF UpHolders
<1> QED
  BY <1>1, FS_Subset, FS_CardinalityType, UpgradeAssumption, Zenon

LEMMA UpSame ==
  ASSUME UpSlots, kind' = kind, slots' = slots, stopPc' = "run" => stopPc = "run",
         kind = "ws" \/ stopPc' = "run" => \A d \in Conns : UpHolds(d)' <=> UpHolds(d)
  PROVE UpSlots'
<1>1. CASE kind = "ws" \/ stopPc' = "run"
  <2>1. UpHolders' = UpHolders
    BY <1>1, Zenon DEF UpHolders
  <2> QED
    BY <1>1, <2>1, Zenon DEF UpSlots
<1>2. CASE ~(kind = "ws" \/ stopPc' = "run")
  BY <1>2, Zenon DEF UpSlots
<1> QED
  BY <1>1, <1>2, Zenon

LEMMA UpLess ==
  ASSUME UpSlots, kind' = kind, NEW c \in Conns, slots' = slots - 1, stopPc' = "run" => stopPc = "run",
         kind = "ws" \/ stopPc' = "run" =>
           UpHolds(c) /\ ~UpHolds(c)' /\ \A d \in Conns \ {c} : UpHolds(d)' <=> UpHolds(d)
  PROVE UpSlots'
<1>1. CASE kind = "ws" \/ stopPc' = "run"
  <2>1. UpHolders' = UpHolders \ {c} /\ c \in UpHolders
    BY <1>1, Zenon DEF UpHolders
  <2>2. Cardinality(UpHolders') = Cardinality(UpHolders) - 1
    BY <2>1, UpFinite, FS_RemoveElement, Zenon
  <2>3. slots = Cardinality(UpHolders)
    BY <1>1, Zenon DEF UpSlots
  <2>4. Cardinality(UpHolders)' = Cardinality(UpHolders')
    BY Zenon
  <2> QED
    BY <2>2, <2>3, <2>4, UpFinite, UpgradeAssumption DEF UpSlots
<1>2. CASE ~(kind = "ws" \/ stopPc' = "run")
  BY <1>2 DEF UpSlots
<1> QED
  BY <1>1, <1>2, Zenon

LEMMA UpMore ==
  ASSUME UpSlots, kind' = kind, NEW c \in Conns, slots' = slots + 1, slots < MaxConns, stopPc' = "run" => stopPc = "run",
         ~UpHolds(c) /\ UpHolds(c)' /\ \A d \in Conns \ {c} : UpHolds(d)' <=> UpHolds(d)
  PROVE UpSlots'
<1>1. UpHolders' = UpHolders \cup {c} /\ c \notin UpHolders
  BY Zenon DEF UpHolders
<1>2. Cardinality(UpHolders') = Cardinality(UpHolders) + 1
  BY <1>1, UpFinite, FS_AddElement, Zenon
<1>3. Cardinality(UpHolders)' = Cardinality(UpHolders')
  BY Zenon
<1> QED
  BY <1>2, <1>3, UpFinite, UpgradeAssumption DEF UpSlots

-----------------------------------------------------------------------------
(* How closer changes. *)
LEMMA UpTake ==
  ASSUME UpTypes, NEW c \in Conns, NEW who \in {"handler", "reader", "pinger", "stop"}, Take(c, who)
  PROVE /\ closer' \in [Conns -> Closers] /\ table' = table \ {c} /\ c \in table
        /\ closer'[c].by = who /\ closer'[c].at = "unregister"
        /\ \A d \in Conns : d # c => closer'[d] = closer[d]
BY Zenon DEF UpTypes, Take, Closers

LEMMA UpAt ==
  ASSUME UpTypes, NEW c \in Conns, NEW from \in {"unregister", "mark", "lock", "frame"},
         NEW to \in {"mark", "lock", "frame", "notify"}, At(c, from, to)
  PROVE /\ closer' \in [Conns -> Closers] /\ closer[c].at = from
        /\ closer'[c].by = closer[c].by /\ closer'[c].at = to
        /\ \A d \in Conns : d # c => closer'[d] = closer[d]
BY Zenon DEF UpTypes, At, Closers

-----------------------------------------------------------------------------
(* The steps of a handler. *)
LEMMA UpHandlerStep ==
  ASSUME UpInv, NEW c \in Conns,
         TryAccept(c) \/ Upgrade(c) \/ Store(c) \/ Register(c) \/ OnAccept(c) \/ Spawn(c) \/ Release(c)
  PROVE UpInv'
<1> USE DEF Handler, fixed, stopVars, DoneFirst
<1>0. UpTypes /\ UpSlots /\ \A d \in Conns : UpOf(d)
  BY Zenon DEF UpInv
<1>1. CASE TryAccept(c)
  <2>1. UpTypes'
    BY <1>0, <1>1, Zenon DEF UpTypes, TryAccept, Loop
  <2>2. ASSUME NEW d \in Conns PROVE UpOf(d)'
    BY <1>0, <1>1 DEF UpTypes, TryAccept, UpOf, UpRun
  <2>3. CASE slots < MaxConns
    <3>1. slots' = slots + 1 /\ kind' = kind /\ stopPc' = stopPc
      BY <1>0, <1>1, <2>3, UpgradeAssumption DEF TryAccept, UpSlots
    <3>2. ~UpHolds(c) /\ UpHolds(c)'
      BY <1>0, <1>1, <2>3, UpgradeAssumption DEF UpTypes, TryAccept, UpHolds, UpOf, UpSlots
    <3>3. \A d \in Conns \ {c} : UpHolds(d)' <=> UpHolds(d)
      BY <1>0, <1>1, Zenon DEF UpTypes, TryAccept, UpHolds
    <3> QED
      BY <1>0, <2>1, <2>2, <2>3, <3>1, <3>2, <3>3, UpMore, Zenon DEF UpInv
  <2>4. CASE ~(slots < MaxConns)
    <3>1. slots' = slots /\ kind' = kind /\ stopPc' = stopPc
      BY <1>0, <1>1, <2>4, Zenon DEF TryAccept
    <3>2. \A d \in Conns : UpHolds(d)' <=> UpHolds(d)
      BY <1>0, <1>1, <2>4 DEF UpTypes, TryAccept, UpHolds, UpOf
    <3> QED
      BY <1>0, <2>1, <2>2, <3>1, <3>2, UpSame, Zenon DEF UpInv
  <2> QED
    BY <2>3, <2>4, Zenon
<1>2. CASE Upgrade(c)
  <2>1. UpTypes'
    BY <1>0, <1>2, Zenon DEF UpTypes, Upgrade, Loop
  <2>2. ASSUME NEW d \in Conns PROVE UpOf(d)'
    BY <1>0, <1>2 DEF UpTypes, Upgrade, UpOf, UpRun
  <2>3. kind' = kind /\ stopPc' = stopPc
    BY <1>2, Zenon DEF Upgrade
  <2>4. CASE slots' = slots
    <3>1. kind = "ws" \/ stopPc' = "run" => \A d \in Conns : UpHolds(d)' <=> UpHolds(d)
      BY <1>0, <1>2, <2>4 DEF UpTypes, Upgrade, UpHolds, UpOf, UpRun, UpSlots
    <3> QED
      BY <1>0, <2>1, <2>2, <2>3, <2>4, <3>1, UpSame, Zenon DEF UpInv
  <2>5. CASE slots' = slots - 1
    <3>1. kind = "ws" \/ stopPc' = "run" => UpHolds(c) /\ ~UpHolds(c)'
      BY <1>0, <1>2, <2>5 DEF UpTypes, Upgrade, UpHolds, UpOf, UpRun, UpSlots
    <3>2. \A d \in Conns \ {c} : UpHolds(d)' <=> UpHolds(d)
      BY <1>0, <1>2, Zenon DEF UpTypes, Upgrade, UpHolds
    <3> QED
      BY <1>0, <2>1, <2>2, <2>3, <2>5, <3>1, <3>2, UpLess, Zenon DEF UpInv
  <2> QED
    BY <1>2, <2>4, <2>5, Zenon DEF Upgrade
<1>3. CASE Store(c)
  <2>1. UpTypes'
    BY <1>0, <1>3, Zenon DEF UpTypes, Store, Loop
  <2>2. ASSUME NEW d \in Conns PROVE UpOf(d)'
    BY <1>0, <1>3 DEF UpTypes, Store, UpOf, UpRun
  <2>3. \A d \in Conns : UpHolds(d)' <=> UpHolds(d)
    BY <1>0, <1>3 DEF UpTypes, Store, UpHolds, UpOf, UpRun
  <2>4. slots' = slots /\ kind' = kind /\ stopPc' = stopPc
    BY <1>3, Zenon DEF Store
  <2> QED
    BY <1>0, <2>1, <2>2, <2>3, <2>4, UpSame, Zenon DEF UpInv
<1>4. CASE Register(c)
  <2>1. UpTypes'
    BY <1>0, <1>4, Zenon DEF UpTypes, Register, Loop
  <2>2. ASSUME NEW d \in Conns PROVE UpOf(d)'
    BY <1>0, <1>4 DEF UpTypes, Register, UpOf, UpRun
  <2>3. kind' = kind /\ stopPc' = stopPc
    BY <1>4, Zenon DEF Register
  <2>4. CASE slots' = slots
    <3>1. kind = "ws" \/ stopPc' = "run" => \A d \in Conns : UpHolds(d)' <=> UpHolds(d)
      BY <1>0, <1>4, <2>4 DEF UpTypes, Register, UpHolds, UpOf, UpRun, UpSlots
    <3> QED
      BY <1>0, <2>1, <2>2, <2>3, <2>4, <3>1, UpSame, Zenon DEF UpInv
  <2>5. CASE slots' = slots - 1
    <3>1. kind = "ws" \/ stopPc' = "run" => UpHolds(c) /\ ~UpHolds(c)'
      BY <1>0, <1>4, <2>5 DEF UpTypes, Register, UpHolds, UpOf, UpRun, UpSlots
    <3>2. \A d \in Conns \ {c} : UpHolds(d)' <=> UpHolds(d)
      BY <1>0, <1>4, Zenon DEF UpTypes, Register, UpHolds
    <3> QED
      BY <1>0, <2>1, <2>2, <2>3, <2>5, <3>1, <3>2, UpLess, Zenon DEF UpInv
  <2> QED
    BY <1>4, <2>4, <2>5, Zenon DEF Register
<1>5. CASE OnAccept(c)
  <2>1. UpTypes'
    BY <1>0, <1>5, Zenon DEF UpTypes, OnAccept, Loop
  <2>2. ASSUME NEW d \in Conns PROVE UpOf(d)'
    BY <1>0, <1>5 DEF UpTypes, OnAccept, UpOf, UpRun
  <2>3. kind' = kind /\ stopPc' = stopPc
    BY <1>5, Zenon DEF OnAccept
  <2>4. CASE slots' = slots
    <3>1. kind = "ws" \/ stopPc' = "run" => \A d \in Conns : UpHolds(d)' <=> UpHolds(d)
      BY <1>0, <1>5, <2>4 DEF UpTypes, OnAccept, UpHolds, UpOf, UpRun, UpSlots
    <3> QED
      BY <1>0, <2>1, <2>2, <2>3, <2>4, <3>1, UpSame, Zenon DEF UpInv
  <2>5. CASE slots' = slots - 1
    <3>1. kind = "ws" \/ stopPc' = "run" => UpHolds(c) /\ ~UpHolds(c)'
      BY <1>0, <1>5, <2>5 DEF UpTypes, OnAccept, UpHolds, UpOf, UpRun, UpSlots
    <3>2. \A d \in Conns \ {c} : UpHolds(d)' <=> UpHolds(d)
      BY <1>0, <1>5, Zenon DEF UpTypes, OnAccept, UpHolds
    <3> QED
      BY <1>0, <2>1, <2>2, <2>3, <2>5, <3>1, <3>2, UpLess, Zenon DEF UpInv
  <2> QED
    BY <1>5, <2>4, <2>5, Zenon DEF OnAccept
<1>6. CASE Spawn(c)
  <2>1. UpTypes'
    BY <1>0, <1>6, Zenon DEF UpTypes, Spawn, Loop
  <2>2. ASSUME NEW d \in Conns PROVE UpOf(d)'
    BY <1>0, <1>6 DEF UpTypes, Spawn, UpOf, UpRun
  <2>3. kind = "ws" \/ stopPc' = "run" => \A d \in Conns : UpHolds(d)' <=> UpHolds(d)
    BY <1>0, <1>6 DEF UpTypes, Spawn, UpHolds, UpOf, UpRun
  <2>4. slots' = slots /\ kind' = kind /\ stopPc' = stopPc
    BY <1>6, Zenon DEF Spawn
  <2> QED
    BY <1>0, <2>1, <2>2, <2>3, <2>4, UpSame, Zenon DEF UpInv
<1>7. CASE Release(c)
  <2>1. UpTypes'
    BY <1>0, <1>7, Zenon DEF UpTypes, Release, Loop
  <2>2. ASSUME NEW d \in Conns PROVE UpOf(d)'
    BY <1>0, <1>7 DEF UpTypes, Release, UpOf, UpRun
  <2>3. kind' = kind /\ stopPc' = stopPc
    BY <1>7, Zenon DEF Release
  <2>4. CASE slots' = slots
    <3>1. kind = "ws" \/ stopPc' = "run" => \A d \in Conns : UpHolds(d)' <=> UpHolds(d)
      BY <1>0, <1>7, <2>4 DEF UpTypes, Release, UpHolds, UpOf, UpRun, UpSlots
    <3> QED
      BY <1>0, <2>1, <2>2, <2>3, <2>4, <3>1, UpSame, Zenon DEF UpInv
  <2>5. CASE slots' = slots - 1
    <3>1. kind = "ws" \/ stopPc' = "run" => UpHolds(c) /\ ~UpHolds(c)'
      BY <1>0, <1>7, <2>5 DEF UpTypes, Release, UpHolds, UpOf, UpRun, UpSlots
    <3>2. \A d \in Conns \ {c} : UpHolds(d)' <=> UpHolds(d)
      BY <1>0, <1>7, Zenon DEF UpTypes, Release, UpHolds
    <3> QED
      BY <1>0, <2>1, <2>2, <2>3, <2>5, <3>1, <3>2, UpLess, Zenon DEF UpInv
  <2> QED
    BY <1>7, <2>4, <2>5, Zenon DEF Release
<1> QED
  BY <1>1, <1>2, <1>3, <1>4, <1>5, <1>6, <1>7, Zenon

(* The closing of a session. *)
LEMMA UpClosingStep ==
  ASSUME UpInv, NEW c \in Conns, CloseStep(c)
  PROVE UpInv'
<1>0. UpTypes /\ UpSlots /\ \A d \in Conns : UpOf(d)
  BY Zenon DEF UpInv
<1>1. /\ kind' = kind /\ hpc' = hpc /\ table' = table /\ stuck' = stuck /\ accepted' = accepted
      /\ reader' = reader /\ pinger' = pinger /\ stopPc' = stopPc /\ left' = left
  BY Zenon DEF CloseStep, fixed, stopVars
<1>2. CASE At(c, "unregister", "mark") /\ registered' = registered \ {c}
             /\ UNCHANGED <<live, wire, writeMu, slots, onClosed>>
  <2>1. /\ closer' \in [Conns -> Closers] /\ closer[c].at = "unregister"
        /\ closer'[c].by = closer[c].by /\ closer'[c].at = "mark"
        /\ \A d \in Conns : d # c => closer'[d] = closer[d]
    BY <1>0, <1>2, UpAt, Zenon
  <2>2. UpTypes'
    BY <1>0, <1>1, <1>2, <2>1, Zenon DEF UpTypes
  <2>3. \A d \in Conns : UpHolds(d)' <=> UpHolds(d)
    BY <1>1, <2>1, Zenon DEF UpHolds
  <2>4. UpSlots'
    BY <1>0, <1>1, <1>2, <2>3, UpSame, Zenon
  <2>5. ASSUME NEW d \in Conns PROVE UpOf(d)'
    <3>1. UpOf(d)
      BY <1>0, Zenon
    <3> QED
      BY <1>1, <1>2, <2>1, <3>1, Zenon DEF UpOf, UpRun
  <2> QED
    BY <2>2, <2>4, <2>5, Zenon DEF UpInv
<1>3. CASE At(c, "mark", "lock") /\ live' = live \ {c}
             /\ UNCHANGED <<registered, wire, writeMu, slots, onClosed>>
  <2>1. /\ closer' \in [Conns -> Closers] /\ closer[c].at = "mark"
        /\ closer'[c].by = closer[c].by /\ closer'[c].at = "lock"
        /\ \A d \in Conns : d # c => closer'[d] = closer[d]
    BY <1>0, <1>3, UpAt, Zenon
  <2>2. UpTypes'
    BY <1>0, <1>1, <1>3, <2>1, Zenon DEF UpTypes
  <2>3. \A d \in Conns : UpHolds(d)' <=> UpHolds(d)
    BY <1>1, <2>1, Zenon DEF UpHolds
  <2>4. UpSlots'
    BY <1>0, <1>1, <1>3, <2>3, UpSame, Zenon
  <2>5. ASSUME NEW d \in Conns PROVE UpOf(d)'
    <3>1. UpOf(d)
      BY <1>0, Zenon
    <3> QED
      BY <1>1, <1>3, <2>1, <3>1, Zenon DEF UpOf, UpRun
  <2> QED
    BY <2>2, <2>4, <2>5, Zenon DEF UpInv
<1>4. CASE At(c, "lock", "frame") /\ writeMu' = [writeMu EXCEPT ![c] = "close"]
             /\ UNCHANGED <<registered, live, wire, slots, onClosed>>
  <2>1. /\ closer' \in [Conns -> Closers] /\ closer[c].at = "lock"
        /\ closer'[c].by = closer[c].by /\ closer'[c].at = "frame"
        /\ \A d \in Conns : d # c => closer'[d] = closer[d]
    BY <1>0, <1>4, UpAt, Zenon
  <2>2. UpTypes'
    BY <1>0, <1>1, <1>4, <2>1, Zenon DEF UpTypes
  <2>3. \A d \in Conns : UpHolds(d)' <=> UpHolds(d)
    BY <1>1, <2>1, Zenon DEF UpHolds
  <2>4. UpSlots'
    BY <1>0, <1>1, <1>4, <2>3, UpSame, Zenon
  <2>5. ASSUME NEW d \in Conns PROVE UpOf(d)'
    <3>1. UpOf(d)
      BY <1>0, Zenon
    <3> QED
      BY <1>1, <1>4, <2>1, <3>1, Zenon DEF UpOf, UpRun
  <2> QED
    BY <2>2, <2>4, <2>5, Zenon DEF UpInv
<1>5. CASE At(c, "frame", "notify") /\ writeMu' = [writeMu EXCEPT ![c] = "free"] /\ wire' = wire \ {c}
             /\ UNCHANGED <<registered, live, slots, onClosed>>
  <2>1. /\ closer' \in [Conns -> Closers] /\ closer[c].at = "frame"
        /\ closer'[c].by = closer[c].by /\ closer'[c].at = "notify"
        /\ \A d \in Conns : d # c => closer'[d] = closer[d]
    BY <1>0, <1>5, UpAt, Zenon
  <2>2. UpTypes'
    BY <1>0, <1>1, <1>5, <2>1, Zenon DEF UpTypes
  <2>3. \A d \in Conns : UpHolds(d)' <=> UpHolds(d)
    BY <1>1, <2>1, Zenon DEF UpHolds
  <2>4. UpSlots'
    BY <1>0, <1>1, <1>5, <2>3, UpSame, Zenon
  <2>5. ASSUME NEW d \in Conns PROVE UpOf(d)'
    <3>1. UpOf(d)
      BY <1>0, Zenon
    <3> QED
      BY <1>1, <1>5, <2>1, <3>1, Zenon DEF UpOf, UpRun
  <2> QED
    BY <2>2, <2>4, <2>5, Zenon DEF UpInv
<1>6. CASE /\ closer[c].at = "notify" /\ closer' = [closer EXCEPT ![c] = NoCloser]
           /\ onClosed' = IF closer[c].by = "handler" THEN onClosed ELSE [onClosed EXCEPT ![c] = @ + 1]
           /\ slots' = IF closer[c].by # "handler" /\ kind = "grpcweb" THEN slots - 1 ELSE slots
           /\ UNCHANGED <<registered, live, wire, writeMu>>
  <2>1. UpOf(c)
    BY <1>0, Zenon
  <2>2. closer[c].by # "none" /\ onClosed[c] = 0 /\ c \notin table
    BY <1>6, <2>1, Zenon DEF UpOf
  <2>3. /\ closer' \in [Conns -> Closers] /\ closer'[c].by = "none" /\ closer'[c].at = "none"
        /\ \A d \in Conns : d # c => closer'[d] = closer[d]
    BY <1>0, <1>6, Zenon DEF UpTypes, NoCloser, Closers
  <2>4. /\ onClosed' \in [Conns -> {0, 1}] /\ \A d \in Conns : d # c => onClosed'[d] = onClosed[d]
        /\ onClosed'[c] = IF closer[c].by = "handler" THEN 0 ELSE 1
    BY <1>0, <1>6, <2>2 DEF UpTypes
  <2>5. UpTypes'
    BY <1>0, <1>1, <1>6, <2>3, <2>4, Zenon DEF UpTypes
  <2>6. closer[c].by \in {"handler", "reader", "pinger", "stop"}
    BY <1>0, <2>2, Zenon DEF UpTypes, Closers
  <2>7. stopPc = "run" /\ closer[c].by # "handler" =>
          closer[c].by \in {"reader", "pinger"} /\ hpc[c] = "end" /\ c \in accepted
    BY <2>1, <2>6, Zenon DEF UpOf, UpRun
  <2>8. UpSlots'
    <3>1. CASE closer[c].by # "handler" /\ kind = "grpcweb"
      <4>1. stopPc' = "run" => UpHolds(c) /\ ~UpHolds(c)'
        BY <1>1, <2>2, <2>3, <2>7, <3>1, Zenon DEF UpHolds
      <4>2. \A d \in Conns \ {c} : UpHolds(d)' <=> UpHolds(d)
        BY <1>1, <2>3, Zenon DEF UpHolds
      <4>3. slots' = slots - 1
        BY <1>6, <3>1, Zenon
      <4> QED
        BY <1>0, <1>1, <3>1, <4>1, <4>2, <4>3, UpLess, Zenon
    <3>2. CASE ~(closer[c].by # "handler" /\ kind = "grpcweb")
      <4>1. \A d \in Conns : UpHolds(d)' <=> UpHolds(d)
        BY <1>0, <1>1, <2>1, <2>3, <3>2 DEF UpHolds, UpOf, UpTypes
      <4>2. slots' = slots
        BY <1>6, <3>2, Zenon
      <4> QED
        BY <1>0, <1>1, <4>1, <4>2, UpSame, Zenon
    <3> QED
      BY <3>1, <3>2, Zenon
  <2>9. ASSUME NEW d \in Conns PROVE UpOf(d)'
    <3>1. UpOf(d)
      BY <1>0, Zenon
    <3> QED
      BY <1>1, <1>6, <2>2, <2>3, <2>4, <2>6, <2>7, <3>1 DEF UpOf, UpRun
  <2> QED
    BY <2>5, <2>8, <2>9, Zenon DEF UpInv
<1> QED
  BY <1>2, <1>3, <1>4, <1>5, <1>6, Zenon DEF CloseStep

(* The steps of the loops, of the peer and of Stop. *)
LEMMA UpLoopStep ==
  ASSUME UpInv, NEW c \in Conns, ReadEnds(c) \/ Ping(c) \/ PeerStuck(c) \/ PeerGone(c)
  PROVE UpInv'
<1>0. UpTypes /\ UpSlots /\ \A d \in Conns : UpOf(d)
  BY Zenon DEF UpInv
<1>1. /\ kind' = kind /\ hpc' = hpc /\ table' = table /\ accepted' = accepted /\ slots' = slots
      /\ stopPc' = stopPc /\ left' = left /\ closer' = closer /\ registered' = registered /\ live' = live
      /\ onClosed' = onClosed
  BY Zenon DEF ReadEnds, Ping, PeerStuck, PeerGone, fixed, sessionVars, stopVars
<1>2. /\ reader' = reader \/ (reader[c] = "run" /\ reader' = [reader EXCEPT ![c] = "close"])
      /\ \/ pinger' = pinger
         \/ pinger[c] \in {"run", "busy"} /\ \E p \in {"run", "busy", "close"} : pinger' = [pinger EXCEPT ![c] = p]
  BY Zenon DEF ReadEnds, Ping, PeerStuck, PeerGone
<1>3. writeMu' \in [Conns -> {"free", "ping", "close"}] /\ wire' \subseteq Conns /\ stuck' \subseteq Conns
  BY <1>0, Zenon DEF UpTypes, ReadEnds, Ping, PeerStuck, PeerGone, sessionVars
<1>4. UpTypes'
  BY <1>0, <1>1, <1>2, <1>3 DEF UpTypes, Loop
<1>5. \A d \in Conns : UpHolds(d)' <=> UpHolds(d)
  BY <1>0, <1>1, <1>2, Zenon DEF UpTypes, UpHolds
<1>6. UpSlots'
  BY <1>0, <1>1, <1>5, UpSame, Zenon
<1>7. ASSUME NEW d \in Conns PROVE UpOf(d)'
  <2>1. UpOf(d)
    BY <1>0, Zenon
  <2> QED
    BY <1>0, <1>1, <1>2, <2>1 DEF UpOf, UpRun, UpTypes
<1> QED
  BY <1>4, <1>6, <1>7, Zenon DEF UpInv

(* Whoever takes the entry out of the table. *)
LEMMA UpTakes ==
  ASSUME UpInv, NEW c \in Conns, NEW who \in {"handler", "reader", "pinger", "stop"}, Take(c, who),
         who = "handler" => hpc[c] = "drop", who = "reader" => reader[c] = "close",
         who = "pinger" => pinger[c] = "close", who = "stop" => stopPc # "run", stopPc' = stopPc,
         UNCHANGED <<kind, hpc, sessionVars, stuck, accepted, reader, pinger>>, left' \subseteq Conns
  PROVE UpInv'
<1>0. UpTypes /\ UpSlots /\ \A d \in Conns : UpOf(d)
  BY Zenon DEF UpInv
<1>1. /\ closer' \in [Conns -> Closers] /\ table' = table \ {c} /\ c \in table
      /\ closer'[c].by = who /\ closer'[c].at = "unregister"
      /\ \A d \in Conns : d # c => closer'[d] = closer[d]
  BY <1>0, UpTake, Zenon
<1>2. /\ kind' = kind /\ hpc' = hpc /\ accepted' = accepted /\ slots' = slots /\ registered' = registered
      /\ live' = live /\ onClosed' = onClosed /\ wire' = wire /\ writeMu' = writeMu /\ stuck' = stuck
      /\ reader' = reader /\ pinger' = pinger
  BY Zenon DEF sessionVars
<1> HIDE DEF Take
<1>3. UpTypes'
  BY <1>0, <1>1, <1>2, Zenon DEF UpTypes
<1>4. UpOf(c)
  BY <1>0, Zenon
<1>5. kind = "ws" \/ stopPc' = "run" => \A d \in Conns : UpHolds(d)' <=> UpHolds(d)
  BY <1>0, <1>1, <1>2, <1>4 DEF UpHolds, UpOf, UpTypes
<1>6. UpSlots'
  BY <1>0, <1>2, <1>5, UpSame, Zenon
<1>7. ASSUME NEW d \in Conns PROVE UpOf(d)'
  <2>1. UpOf(d)
    BY <1>0, Zenon
  <2> QED
    BY <1>1, <1>2, <1>4, <2>1 DEF UpOf, UpRun
<1> QED
  BY <1>3, <1>6, <1>7, Zenon DEF UpInv

LEMMA UpEndStep ==
  ASSUME UpInv, NEW c \in Conns, Drop(c) \/ ReaderClose(c) \/ PingerClose(c)
  PROVE UpInv'
<1>0. UpTypes /\ UpSlots /\ UpOf(c) /\ \A d \in Conns : UpOf(d)
  BY Zenon DEF UpInv
<1>1. left' = left /\ stopPc' = stopPc /\ kind' = kind /\ accepted' = accepted /\ registered' = registered
        /\ live' = live /\ onClosed' = onClosed /\ wire' = wire /\ writeMu' = writeMu /\ stuck' = stuck
  BY Zenon DEF Drop, ReaderClose, PingerClose, fixed, sessionVars, stopVars
<1>2. left \subseteq Conns
  BY <1>0, Zenon DEF UpTypes
<1>3. CASE Drop(c)
  <2>1. CASE c \in table
    BY <1>1, <1>2, <1>3, <2>1, UpTakes, Zenon DEF Drop, fixed, sessionVars
  <2>2. CASE c \notin table
    <3>1. /\ closer[c].by # "handler" /\ hpc[c] = "drop" /\ hpc' = [hpc EXCEPT ![c] = "release"]
          /\ table' = table /\ closer' = closer /\ slots' = slots /\ reader' = reader /\ pinger' = pinger
      BY <1>3, <2>2, Zenon DEF Drop, Handler, fixed, sessionVars
    <3>2. UpTypes'
      BY <1>0, <1>1, <3>1, Zenon DEF UpTypes
    <3>3. \A d \in Conns : UpHolds(d)' <=> UpHolds(d)
      BY <1>0, <1>1, <3>1, Zenon DEF UpTypes, UpHolds
    <3>4. UpSlots'
      BY <1>0, <1>1, <3>1, <3>3, UpSame, Zenon
    <3>5. stopPc = "run" => closer[c].by = "none"
      BY <1>0, <3>1 DEF UpOf, UpRun, UpTypes, Closers
    <3>6. ASSUME NEW d \in Conns PROVE UpOf(d)'
      BY <1>0, <1>1, <2>2, <3>1, <3>5 DEF UpOf, UpRun, UpTypes
    <3> QED
      BY <3>2, <3>4, <3>6, Zenon DEF UpInv
  <2> QED
    BY <2>1, <2>2, Zenon
<1>4. CASE ReaderClose(c)
  <2>1. CASE c \in table
    BY <1>1, <1>2, <1>4, <2>1, UpTakes, Zenon DEF ReaderClose, fixed, sessionVars
  <2>2. CASE c \notin table
    <3>1. /\ closer[c].by # "reader" /\ reader[c] = "close" /\ reader' = [reader EXCEPT ![c] = "out"]
          /\ table' = table /\ closer' = closer /\ hpc' = hpc /\ pinger' = pinger
          /\ slots' = IF kind = "ws" THEN slots - 1 ELSE slots
      BY <1>4, <2>2, Zenon DEF ReaderClose
    <3>2. UpTypes'
      BY <1>0, <1>1, <3>1, Zenon DEF UpTypes, Loop
    <3>3. ASSUME kind = "ws" PROVE UpSlots'
      <4>1. UpHolds(c) /\ ~UpHolds(c)'
        BY <1>0, <1>1, <3>1, <3>3, Zenon DEF UpTypes, UpHolds, UpOf
      <4>2. \A d \in Conns \ {c} : UpHolds(d)' <=> UpHolds(d)
        BY <1>0, <1>1, <3>1, Zenon DEF UpTypes, UpHolds
      <4>3. slots' = slots - 1
        BY <3>1, <3>3, Zenon
      <4> QED
        BY <1>0, <1>1, <4>1, <4>2, <4>3, UpLess, Zenon
    <3>4. ASSUME kind # "ws" PROVE UpSlots'
      <4>1. \A d \in Conns : UpHolds(d)' <=> UpHolds(d)
        BY <1>1, <3>1, <3>4, Zenon DEF UpHolds
      <4>2. slots' = slots
        BY <3>1, <3>4, Zenon
      <4> QED
        BY <1>0, <1>1, <4>1, <4>2, UpSame, Zenon
    <3>5. ASSUME NEW d \in Conns PROVE UpOf(d)'
      BY <1>0, <1>1, <2>2, <3>1 DEF UpOf, UpRun, UpTypes
    <3> QED
      BY <3>2, <3>3, <3>4, <3>5, Zenon DEF UpInv
  <2> QED
    BY <2>1, <2>2, Zenon
<1>5. CASE PingerClose(c)
  <2>1. CASE pinger[c] = "close" /\ c \in table
    BY <1>1, <1>2, <1>5, <2>1, UpTakes, Zenon DEF PingerClose, fixed, sessionVars
  <2>2. CASE ~(pinger[c] = "close" /\ c \in table)
    <3>1. /\ pinger' = [pinger EXCEPT ![c] = "out"] /\ closer[c].by # "pinger" /\ pinger[c] # "off"
          /\ table' = table /\ closer' = closer /\ hpc' = hpc /\ reader' = reader /\ slots' = slots
      BY <1>0, <1>5, <2>2 DEF PingerClose, sessionVars, UpOf
    <3>2. UpTypes'
      BY <1>0, <1>1, <3>1, Zenon DEF UpTypes, Loop
    <3>3. \A d \in Conns : UpHolds(d)' <=> UpHolds(d)
      BY <1>1, <3>1, Zenon DEF UpHolds
    <3>4. UpSlots'
      BY <1>0, <1>1, <3>1, <3>3, UpSame, Zenon
    <3>5. ASSUME NEW d \in Conns PROVE UpOf(d)'
      BY <1>0, <1>1, <3>1 DEF UpOf, UpRun, UpTypes
    <3> QED
      BY <3>2, <3>4, <3>5, Zenon DEF UpInv
  <2> QED
    BY <2>1, <2>2, Zenon
<1> QED
  BY <1>3, <1>4, <1>5, Zenon

LEMMA UpStopStep ==
  ASSUME UpInv, StopAccept \/ CloseSessions \/ Wait
  PROVE UpInv'
<1>0. UpTypes /\ UpSlots /\ \A d \in Conns : UpOf(d)
  BY Zenon DEF UpInv
<1>1. UNCHANGED <<kind, hpc, sessionVars, stuck, accepted, reader, pinger>>
  BY Zenon DEF StopAccept, CloseSessions, Wait, fixed
<1>2. stopPc' # "run" /\ stopPc' \in {"run", "close", "wait", "stopped"} /\ left' \subseteq Conns
  BY <1>0, Zenon DEF UpTypes, StopAccept, CloseSessions, Wait
<1>3. CASE table' = table /\ closer' = closer
  <2>1. UpTypes'
    BY <1>0, <1>1, <1>2, <1>3, Zenon DEF UpTypes, sessionVars
  <2>2. \A d \in Conns : UpHolds(d)' <=> UpHolds(d)
    BY <1>1, <1>3, Zenon DEF UpHolds
  <2>3. UpSlots'
    BY <1>0, <1>1, <1>2, <2>2, UpSame, Zenon DEF sessionVars
  <2>4. ASSUME NEW d \in Conns PROVE UpOf(d)'
    BY <1>0, <1>1, <1>2, <1>3, Zenon DEF UpOf, sessionVars
  <2> QED
    BY <2>1, <2>3, <2>4, Zenon DEF UpInv
<1>4. CASE ~(table' = table /\ closer' = closer)
  <2>1. PICK c \in left : Take(c, "stop")
    BY <1>4, Zenon DEF StopAccept, CloseSessions, Wait
  <2>2. c \in Conns
    BY <1>0, Zenon DEF UpTypes
  <2>3. stopPc = "close" /\ stopPc' = stopPc
    BY <1>4, Zenon DEF StopAccept, CloseSessions, Wait
  <2> QED
    BY <1>1, <1>2, <2>1, <2>2, <2>3, UpTakes, Zenon
<1> QED
  BY <1>3, <1>4, Zenon

LEMMA UpSettled == UpInv => ConnectionsSettled
<1> SUFFICES ASSUME UpInv PROVE ConnectionsSettled
  BY Zenon
<1>0. UpTypes /\ UpSlots /\ \A d \in Conns : UpOf(d)
  BY Zenon DEF UpInv
<1>1. TypeOK
  <2>1. kind = "ws" => slots \in 0..MaxConns
    BY <1>0, UpFinite, UpgradeAssumption DEF UpSlots
  <2>2. onClosed \in [Conns -> Nat]
    BY <1>0 DEF UpTypes
  <2> QED
    BY <1>0, <2>1, <2>2, Zenon DEF TypeOK, UpTypes, UpSlots
<1>2. SlotPerConnection
  <2>1. UpHolders = {c \in Conns :
              \/ hpc[c] \notin {"new", "end"} \cup (IF kind = "ws" THEN {"drop", "release"} ELSE {})
              \/ hpc[c] = "end" /\ IF kind = "ws" THEN reader[c] \in {"run", "close"}
                                   ELSE c \in table \/ closer[c].by \in {"reader", "pinger", "stop"}}
    BY Zenon DEF UpHolders, UpHolds
  <2> QED
    BY <1>0, <2>1, Zenon DEF SlotPerConnection, UpSlots
<1>3. ClosedOnce
  <2> SUFFICES ASSUME NEW c \in Conns
               PROVE /\ onClosed[c] <= 1
                     /\ stopPc = "run" /\ onClosed[c] = 1 => c \in accepted /\ c \notin registered \cup live \cup table
                     /\ stopPc = "run" /\ reader[c] = "out" /\ closer[c] = NoCloser => onClosed[c] = 1
    BY Zenon DEF ClosedOnce
  <2>1. UpOf(c) /\ onClosed[c] \in {0, 1}
    BY <1>0, Zenon DEF UpTypes
  <2>2. closer[c] = NoCloser => closer[c].by = "none"
    BY DEF NoCloser
  <2> QED
    BY <2>1, <2>2 DEF UpOf, UpRun
<1> QED
  BY <1>1, <1>2, <1>3, Zenon DEF ConnectionsSettled

(* handleUpgrade, handleWebSocket, closeSession, for any number of upgrade   *)
(* requests and any limit: the slots taken are the connections that hold     *)
(* one, and OnClose is called once for a session that OnAccept took and for  *)
(* no other, whichever of the handler, the two loops and CloseSessions takes *)
(* the session out of the table.                                             *)
THEOREM ConnectionsSettledAlways == Spec => []ConnectionsSettled
<1>1. UpInv /\ [Next]_vars => UpInv'
  <2> SUFFICES ASSUME UpInv, [Next]_vars PROVE UpInv'
    BY Zenon
  <2>1. CASE UNCHANGED vars
    <3>1. UpTypes /\ UpSlots /\ \A d \in Conns : UpOf(d)
      BY Zenon DEF UpInv
    <3>2. UpTypes'
      BY <2>1, <3>1, Zenon DEF vars, UpTypes
    <3>3. \A d \in Conns : UpHolds(d)' <=> UpHolds(d)
      BY <2>1, Zenon DEF vars, UpHolds
    <3>4. UpSlots'
      BY <2>1, <3>1, <3>3, UpSame, Zenon DEF vars
    <3>5. ASSUME NEW d \in Conns PROVE UpOf(d)'
      BY <2>1, <3>1, Zenon DEF vars, UpOf, UpRun
    <3> QED
      BY <3>2, <3>4, <3>5, Zenon DEF UpInv
  <2>2. ASSUME NEW c \in Conns,
               TryAccept(c) \/ HandlerStep(c) \/ LoopStep(c) \/ Ping(c) \/ ReadEnds(c) \/ PeerStuck(c) \/ PeerGone(c)
        PROVE UpInv'
    BY <2>2, UpHandlerStep, UpClosingStep, UpLoopStep, UpEndStep, Zenon DEF HandlerStep, LoopStep
  <2>3. CASE StopAccept \/ StopNext
    BY <2>3, UpStopStep, Zenon DEF StopNext
  <2> QED
    BY <2>1, <2>2, <2>3, Zenon DEF Next
<1> QED
  BY <1>1, UpInitInv, UpSettled, PTL DEF Spec
=============================================================================
