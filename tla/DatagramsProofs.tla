--------------------------- MODULE DatagramsProofs ---------------------------
(***************************************************************************)
(* Proofs about the servers over datagrams, UDP (with DTLS) and QUIC, for    *)
(* any number of peers, sessions, connections and streams and any limits.    *)
(***************************************************************************)
EXTENDS UdpServer, QuicServer, FiniteSetTheorems, TLAPS

USE SMTT(30)

(* The UDP server. *)
ActiveIds == {i \in Ids : Active(i)}
IsActor(a) == a = [at |-> a.at, key |-> a.key, sess |-> a.sess, then |-> a.then]

UdpTypes ==
  /\ mode \in {"plain", "dtls"}
  /\ table \in [Keys \cup Ids -> Ids \cup {None}]
  /\ state \in [Ids -> {"none", "active", "closed"}]
  /\ idle \subseteq Ids /\ registered \subseteq Ids /\ accepted \subseteq Ids /\ conns \subseteq Ids /\ dead \subseteq Ids
  /\ closes \in [Ids -> Nat] /\ left \subseteq Keys \cup Ids
  /\ hpc \in [Ids -> {"off", "store", "register", "accept", "check", "read", "defer", "delete", "exit"}]

(* Who runs in which mode, and what an actor that closes a session holds. *)
ReaderTypes ==
  /\ IsActor(reader)
  /\ reader.at \in IF mode = "plain" THEN {"read", "load", "register", "accept", "message", "take", "retire", "exit"}
                                       ELSE {"listen", "exit"}
  /\ reader.at \in {"load", "register", "accept", "message", "take", "retire"} => reader.key \in Keys
  /\ reader.at \in {"register", "accept", "message", "take", "retire"} => reader.sess \in Ids
  /\ reader.at \in {"take", "retire"} => reader.then \in {"load", "read"}

SweeperTypes ==
  /\ IsActor(sweeper)
  /\ sweeper.at \in IF mode = "plain" THEN {"wait", "take", "retire", "exit"} ELSE {"exit"}
  /\ sweeper.at \in {"take", "retire"} => sweeper.key \in Keys /\ sweeper.sess \in Ids /\ sweeper.then = "wait"

StopperTypes ==
  /\ IsActor(stopper)
  /\ stopper.at \in {"run", "conns", "sock", "drain", "range", "take", "retire", "done"}
  /\ IF stopper.at \in {"take", "retire"}
       THEN stopper.key \in Keys \cup Ids /\ stopper.sess \in Ids /\ stopper.then = "range"
       ELSE stopper.sess = None

(* Plain UDP: a session that is in the table and open was accepted, or the   *)
(* read loop is still admitting it.                                          *)
PlainTable ==
  \A k \in Keys : table[k] # None =>
    /\ state[table[k]] # "none"
    /\ Active(table[k]) =>
         table[k] \in accepted \/ (reader.at \in {"register", "accept"} /\ reader.key = k /\ reader.sess = table[k])

PlainCounts == slots = Cardinality(ActiveIds) /\ slots <= MaxSessions

PlainInv ==
  /\ PlainTable /\ PlainCounts /\ \A i \in Ids : hpc[i] = "off"
  /\ reader.at = "message" => reader.sess \in accepted

(* DTLS: a connection's session is in the table, about to be retired by      *)
(* CloseSessions, or reported, and only one of these.                        *)
Retiring(i) == stopper.at = "retire" /\ stopper.sess = i

DtlsOf(i) ==
  /\ table[i] \in {i, None}
  /\ state[i] = "none" <=> hpc[i] = "off"
  /\ hpc[i] \in {"off", "store"} => table[i] = None /\ closes[i] = 0 /\ i \notin accepted /\ stopper.sess # i
  /\ closes[i] <= 1
  /\ table[i] = i => closes[i] = 0 /\ ~Retiring(i)
  /\ Retiring(i) => closes[i] = 0
  /\ hpc[i] \in {"register", "accept", "check", "read", "defer", "delete"} => table[i] = i \/ Retiring(i) \/ closes[i] = 1
  /\ hpc[i] = "exit" => table[i] = None /\ (i \in accepted => Retiring(i) \/ closes[i] = 1)

DtlsInv ==
  /\ slots = 0
  /\ \A k \in Keys \ Ids : table[k] = None
  /\ stopper.at \in {"take", "retire"} => stopper.key = stopper.sess
  /\ \A i \in Ids : DtlsOf(i)

UdpInv ==
  /\ UdpTypes /\ ReaderTypes /\ SweeperTypes /\ StopperTypes
  /\ mode = "plain" => PlainInv
  /\ mode = "dtls" => DtlsInv

LEMMA FreshId == ~Spent => Fresh \in Ids /\ state[Fresh] = "none"
  BY Zenon DEF Fresh, Spent

LEMMA UdpInitInv == Init => UdpInv
<1> SUFFICES ASSUME Init PROVE UdpInv
  BY Zenon
<1>1. UdpTypes /\ ReaderTypes /\ SweeperTypes /\ StopperTypes
  BY Zenon DEF Init, UdpTypes, ReaderTypes, SweeperTypes, StopperTypes, IsActor, At
<1>2. ActiveIds = {} /\ Cardinality(ActiveIds) = 0
  BY FS_EmptySet, Zenon DEF Init, ActiveIds, Active
<1>3. PlainInv /\ DtlsInv
  BY <1>2, IdsAssumption DEF Init, PlainInv, PlainTable, PlainCounts, DtlsInv, DtlsOf, Retiring, At, Active
<1> QED
  BY <1>1, <1>3, Zenon DEF UdpInv

(* An actor in closeSession goes on to retire the session it holds, or back  *)
(* to its loop.                                                              *)
LEMMA CloserGoes ==
  ASSUME NEW a, NEW b, IsActor(a), closeSession(a, b)
  PROVE  /\ IsActor(b) /\ a.at \in {"take", "retire"}
         /\ \/ a.at = "take" /\ table[a.key] # None /\ b.at = "retire" /\ b.key = a.key /\ b.sess = a.sess /\ b.then = a.then
            \/ a.then = "load" /\ b.at = "load" /\ b.key = a.key /\ b.sess = None
            \/ a.then # "load" /\ b.at = a.then /\ b.sess = None
<1>1. (a.at = "take" /\ b = Taken(a)) \/ (a.at = "retire" /\ b = After(a))
  BY Zenon DEF closeSession
<1>2. \/ b = [a EXCEPT !.at = "retire"] /\ a.at = "take" /\ table[a.key] # None
      \/ b = [a EXCEPT !.at = "load", !.sess = None] /\ a.then = "load"
      \/ b = At(a.then) /\ a.then # "load"
  BY <1>1, Zenon DEF Taken, After
<1>3. PICK l, k, s, n : a = [at |-> l, key |-> k, sess |-> s, then |-> n]
  BY Zenon DEF IsActor
<1>4. \/ b = [at |-> "retire", key |-> k, sess |-> s, then |-> n] /\ a.at = "take" /\ table[a.key] # None
      \/ b = [at |-> "load", key |-> k, sess |-> None, then |-> n] /\ a.then = "load"
      \/ b = [at |-> a.then, key |-> None, sess |-> None, then |-> None] /\ a.then # "load"
  <2>1. CASE b = [a EXCEPT !.at = "retire"] /\ a.at = "take" /\ table[a.key] # None
    BY <1>3, <2>1, Zenon
  <2>2. CASE b = [a EXCEPT !.at = "load", !.sess = None] /\ a.then = "load"
    BY <1>3, <2>2, Zenon
  <2>3. CASE b = At(a.then) /\ a.then # "load"
    BY <2>3, Zenon DEF At
  <2> QED
    BY <1>2, <2>1, <2>2, <2>3, Zenon
<1> QED
  BY <1>1, <1>3, <1>4 DEF IsActor

Hold(a, l, i) == [a EXCEPT !.at = l, !.sess = i]

LEMMA ActorHolds ==
  ASSUME NEW a, NEW b, NEW l, NEW i, IsActor(a), b = Hold(a, l, i)
  PROVE  IsActor(b) /\ b.at = l /\ b.key = a.key /\ b.sess = i
<1>1. PICK m, k, s, n : a = [at |-> m, key |-> k, sess |-> s, then |-> n]
  BY Zenon DEF IsActor
<1>2. b = [at |-> l, key |-> k, sess |-> i, then |-> n]
  BY <1>1, Zenon DEF Hold
<1> QED
  BY <1>1, <1>2 DEF IsActor

LEMMA ReaderStep ==
  ASSUME UdpInv, [Next]_vars PROVE ReaderTypes' /\ mode' = mode
<1> USE DEF UdpInv
<1>1. mode' = mode
  <2>1. CASE Reader \/ Sweeper \/ Stopper \/ Finished \/ UNCHANGED vars
    BY <2>1, Zenon DEF vars, Reader, Sweeper, Stopper, Finished, ReadClosed, LoadSession, RegisterSession, AcceptSession,
       HandleMessage, ReaderCloses, Sweep, SweeperCloses, StopAccept, Drain, CloseSessions, StopperCloses, fixed
  <2>2. ASSUME NEW i \in Ids, Handler(i) \/ DtlsMessage(i) \/ DtlsReadError(i) \/ GoIdle(i) \/ DirectClose(i)
        PROVE mode' = mode
    BY <2>2, Zenon DEF Handler, DtlsStore, DtlsRegister, DtlsOnAccept, DtlsCheck, DtlsMessage, DtlsReadError, DtlsDefer,
       DtlsDelete, GoIdle, DirectClose, fixed
  <2>3. CASE DtlsAccept \/ \E k \in Keys : ReadDatagram(k)
    BY <2>3, Zenon DEF DtlsAccept, ReadDatagram, fixed
  <2> QED
    BY <2>1, <2>2, <2>3, Zenon DEF Next
<1>2. CASE reader' = reader
  BY <1>1, <1>2, Zenon DEF ReaderTypes, IsActor
<1>3. CASE \/ ReadClosed \/ \E k \in Keys : ReadDatagram(k)
  BY <1>1, <1>3 DEF ReadClosed, ReadDatagram, ReaderTypes, IsActor, At
<1>4. CASE LoadSession
  <2>1. reader.at = "load" /\ mode = "plain" /\ reader.key \in Keys /\ table[reader.key] \in Ids \cup {None}
    BY <1>4, Zenon DEF LoadSession, ReaderTypes, UdpTypes
  <2>2. \/ \E i \in Ids : \E l \in {"message", "register"} : reader' = [reader EXCEPT !.at = l, !.sess = i]
        \/ \E i \in Ids : reader' = Closing(reader.key, i, "load")
        \/ reader' = At("read")
    BY <1>4, <2>1, FreshId, Zenon DEF LoadSession
  <2>3. ASSUME NEW i \in Ids, NEW l \in {"message", "register"}, reader' = [reader EXCEPT !.at = l, !.sess = i]
        PROVE ReaderTypes'
    <3>1. IsActor(reader') /\ reader'.at = l /\ reader'.key = reader.key /\ reader'.sess = i
      <4>1. IsActor(reader)
        BY Zenon DEF ReaderTypes
      <4>2. reader' = Hold(reader, l, i)
        BY <2>3, Zenon DEF Hold
      <4> QED
        BY <4>1, <4>2, ActorHolds
    <3> QED
      BY <1>1, <2>1, <3>1, Zenon DEF ReaderTypes
  <2>4. CASE reader' = At("read") \/ \E i \in Ids : reader' = Closing(reader.key, i, "load")
    BY <1>1, <2>1, <2>4 DEF ReaderTypes, IsActor, At, Closing
  <2> QED
    BY <1>1, <2>2, <2>3, <2>4, Zenon
<1>5. CASE RegisterSession \/ AcceptSession \/ HandleMessage
  <2>1. reader.at \in {"register", "accept", "message"} /\ mode = "plain" /\ reader.key \in Keys /\ reader.sess \in Ids
    BY <1>5, Zenon DEF RegisterSession, AcceptSession, HandleMessage, ReaderTypes
  <2>2. \/ reader' = [reader EXCEPT !.at = "accept"]
        \/ reader' = [reader EXCEPT !.at = "message"]
        \/ reader' = Closing(reader.key, reader.sess, "read")
        \/ reader' = At("read")
    BY <1>5, Zenon DEF RegisterSession, AcceptSession, HandleMessage
  <2> QED
    BY <1>1, <2>1, <2>2 DEF ReaderTypes, IsActor, At, Closing
<1>6. CASE ReaderCloses
  <2>1. closeSession(reader, reader')
    BY <1>6, Zenon DEF ReaderCloses
  <2> QED
    BY <1>1, <2>1, CloserGoes, Zenon DEF ReaderTypes
<1>7. CASE Sweeper \/ Stopper \/ Finished \/ DtlsAccept
  BY <1>2, <1>7, Zenon DEF Sweeper, Stopper, Finished, Sweep, SweeperCloses, StopAccept, Drain, CloseSessions, StopperCloses,
                    DtlsAccept, vars
<1>8. ASSUME NEW i \in Ids, Handler(i) \/ DtlsMessage(i) \/ DtlsReadError(i) \/ GoIdle(i) \/ DirectClose(i)
      PROVE reader' = reader
  BY <1>8, Zenon DEF Handler, DtlsStore, DtlsRegister, DtlsOnAccept, DtlsCheck, DtlsMessage, DtlsReadError, DtlsDefer,
                     DtlsDelete, GoIdle, DirectClose
<1>9. CASE UNCHANGED vars
  BY <1>2, <1>9, Zenon DEF vars
<1> QED
  BY <1>1, <1>2, <1>3, <1>4, <1>5, <1>6, <1>7, <1>8, <1>9, Zenon DEF Next, Reader

LEMMA OthersStep ==
  ASSUME UdpInv, [Next]_vars PROVE SweeperTypes' /\ StopperTypes'
<1> USE DEF UdpInv
<1>1. mode' = mode
  BY ReaderStep, Zenon
<1>2. CASE UNCHANGED <<sweeper, stopper>>
  BY <1>1, <1>2, Zenon DEF SweeperTypes, StopperTypes, IsActor
<1>3. CASE Sweep
  <2>1. stopper' = stopper /\ mode = "plain"
    BY <1>3, Zenon DEF Sweep, SweeperTypes, stopVars
  <2>2. sweeper' = At("exit") \/ \E k \in Keys, i \in Ids : sweeper' = Closing(k, i, "wait")
    BY <1>3, Zenon DEF Sweep, UdpTypes
  <2> QED
    BY <1>1, <2>1, <2>2 DEF SweeperTypes, StopperTypes, IsActor, At, Closing
<1>4. CASE SweeperCloses
  <2>1. closeSession(sweeper, sweeper') /\ stopper' = stopper
    BY <1>4, Zenon DEF SweeperCloses, stopVars
  <2>2. StopperTypes'
    BY <2>1, Zenon DEF StopperTypes, IsActor
  <2>3. SweeperTypes'
    BY <1>1, <2>1, CloserGoes, Zenon DEF SweeperTypes
  <2> QED
    BY <2>2, <2>3, Zenon
<1>5. CASE StopAccept \/ Drain
  BY <1>1, <1>5 DEF StopAccept, Drain, SweeperTypes, StopperTypes, IsActor, At
<1>6. CASE CloseSessions
  <2>1. sweeper' = sweeper /\ stopper.at = "range"
    BY <1>6, Zenon DEF CloseSessions
  <2>2. stopper' = At("done") \/ stopper' = stopper \/ \E k \in Keys \cup Ids : \E i \in Ids : stopper' = Closing(k, i, "range")
    BY <1>6, Zenon DEF CloseSessions, UdpTypes
  <2>3. SweeperTypes'
    BY <1>1, <2>1, Zenon DEF SweeperTypes, IsActor
  <2>4. StopperTypes'
    BY <2>1, <2>2 DEF StopperTypes, IsActor, At, Closing
  <2> QED
    BY <2>3, <2>4, Zenon
<1>7. CASE StopperCloses
  <2>1. closeSession(stopper, stopper') /\ sweeper' = sweeper
    BY <1>7, Zenon DEF StopperCloses
  <2>2. SweeperTypes'
    BY <1>1, <2>1, Zenon DEF SweeperTypes, IsActor
  <2>3. StopperTypes'
    BY <2>1, CloserGoes, Zenon DEF StopperTypes
  <2> QED
    BY <2>2, <2>3, Zenon
<1>8. CASE Reader \/ Finished \/ DtlsAccept \/ (\E k \in Keys : ReadDatagram(k)) \/ UNCHANGED vars
  <2>1. UNCHANGED <<sweeper, stopper>>
    BY <1>8, Zenon DEF Reader, Finished, ReadClosed, LoadSession, RegisterSession, AcceptSession, HandleMessage, ReaderCloses,
       DtlsAccept, ReadDatagram, stopVars, vars
  <2> QED
    BY <1>2, <2>1, Zenon
<1>9. ASSUME NEW i \in Ids, Handler(i) \/ DtlsMessage(i) \/ DtlsReadError(i) \/ GoIdle(i) \/ DirectClose(i)
      PROVE UNCHANGED <<sweeper, stopper>>
  BY <1>9, Zenon DEF Handler, DtlsStore, DtlsRegister, DtlsOnAccept, DtlsCheck, DtlsMessage, DtlsReadError, DtlsDefer,
                     DtlsDelete, GoIdle, DirectClose, stopVars
<1> QED
  BY <1>2, <1>3, <1>4, <1>5, <1>6, <1>7, <1>8, <1>9, Zenon DEF Next, Sweeper, Stopper

LEMMA UdpTypesStep ==
  ASSUME UdpInv, [Next]_vars PROVE UdpTypes'
<1> USE DEF UdpInv, UdpTypes
<1>1. mode' = mode
  BY ReaderStep, Zenon
<1>2. CASE UNCHANGED <<table, sessionVars, dtlsVars>> /\ left' \subseteq Keys \cup Ids
  BY <1>1, <1>2, Zenon DEF sessionVars, dtlsVars
<1>3. ASSUME NEW a, a.key \in Keys \cup Ids, a.sess \in Ids, NEW b, closeSession(a, b), UNCHANGED <<dtlsVars, left>>
      PROVE UdpTypes'
  BY <1>1, <1>3 DEF closeSession, CloseOnce, sessionVars, dtlsVars
<1>4. CASE LoadSession
  BY <1>1, <1>4, FreshId DEF LoadSession, ReaderTypes, sessionVars, dtlsVars, stopVars
<1>5. CASE RegisterSession \/ AcceptSession \/ HandleMessage
  BY <1>1, <1>5, Zenon DEF RegisterSession, AcceptSession, HandleMessage, CloseOnce, ReaderTypes, dtlsVars, stopVars
<1>6. CASE ReaderCloses \/ SweeperCloses \/ StopperCloses
  <2>1. CASE ReaderCloses
    <3>1. closeSession(reader, reader') /\ UNCHANGED <<dtlsVars, left>>
      BY <2>1, Zenon DEF ReaderCloses, stopVars
    <3>2. reader.key \in Keys \cup Ids /\ reader.sess \in Ids
      BY <3>1, CloserGoes, Zenon DEF ReaderTypes
    <3> QED
      BY <1>3, <3>1, <3>2, Zenon
  <2>2. CASE SweeperCloses
    <3>1. closeSession(sweeper, sweeper') /\ UNCHANGED <<dtlsVars, left>>
      BY <2>2, Zenon DEF SweeperCloses, stopVars
    <3>2. sweeper.key \in Keys \cup Ids /\ sweeper.sess \in Ids
      BY <3>1, CloserGoes, Zenon DEF SweeperTypes
    <3> QED
      BY <1>3, <3>1, <3>2, Zenon
  <2>3. CASE StopperCloses
    <3>1. closeSession(stopper, stopper') /\ UNCHANGED <<dtlsVars, left>>
      BY <2>3, Zenon DEF StopperCloses
    <3>2. stopper.key \in Keys \cup Ids /\ stopper.sess \in Ids
      BY <3>1, CloserGoes, Zenon DEF StopperTypes
    <3> QED
      BY <1>3, <3>1, <3>2, Zenon
  <2> QED
    BY <1>6, <2>1, <2>2, <2>3, Zenon
<1>7. CASE DtlsAccept
  BY <1>1, <1>7, FreshId, Zenon DEF DtlsAccept, stopVars
<1>8. ASSUME NEW i \in Ids, GoIdle(i) \/ DirectClose(i) \/ DtlsMessage(i) \/ DtlsReadError(i) PROVE UdpTypes'
  BY <1>1, <1>8, Zenon DEF GoIdle, DirectClose, DtlsMessage, DtlsReadError, CloseOnce, Goto, sessionVars, dtlsVars, stopVars
<1>9. ASSUME NEW i \in Ids, DtlsStore(i) \/ DtlsRegister(i) \/ DtlsOnAccept(i) \/ DtlsCheck(i) PROVE UdpTypes'
  BY <1>1, <1>9 DEF DtlsStore, DtlsRegister, DtlsOnAccept, DtlsCheck, CloseOnce, Goto, sessionVars, dtlsVars, stopVars
<1>10. ASSUME NEW i \in Ids, DtlsDefer(i) \/ DtlsDelete(i) PROVE UdpTypes'
  BY <1>1, <1>10 DEF DtlsDefer, DtlsDelete, CloseOnce, Goto, sessionVars, dtlsVars, stopVars
<1>11. CASE StopAccept
  BY <1>1, <1>11, Zenon DEF StopAccept, sessionVars
<1>12. CASE ReadClosed \/ (\E k \in Keys : ReadDatagram(k)) \/ Sweep \/ Drain \/ CloseSessions \/ Finished \/ UNCHANGED vars
  <2>1. UNCHANGED <<table, sessionVars, dtlsVars>>
    BY <1>12, Zenon DEF ReadClosed, ReadDatagram, Sweep, Drain, CloseSessions, Finished, vars, sessionVars, dtlsVars
  <2>2. left' \subseteq Keys \cup Ids
    BY <1>12, Zenon DEF ReadClosed, ReadDatagram, Sweep, Drain, CloseSessions, Finished, vars, stopVars
  <2> QED
    BY <1>2, <2>1, <2>2, Zenon
<1> QED
  BY <1>4, <1>5, <1>6, <1>7, <1>8, <1>9, <1>10, <1>11, <1>12, Zenon DEF Next, Reader, Sweeper, Stopper, Handler

LEMMA ActiveFinite == IsFiniteSet(ActiveIds) /\ Cardinality(ActiveIds) \in Nat
<1>1. ActiveIds \subseteq Ids
  BY Zenon DEF ActiveIds
<1> QED
  BY <1>1, FS_Subset, FS_CardinalityType, IdsAssumption, Zenon

(* session.Close gives the slot back with the state it changes. *)
LEMMA CloseCounts ==
  ASSUME UdpTypes, PlainCounts, mode = "plain", NEW i \in Ids, CloseOnce(i) PROVE PlainCounts'
<1> USE DEF PlainCounts
<1>1. CASE Active(i)
  <2>1. ActiveIds' = ActiveIds \ {i} /\ i \in ActiveIds /\ slots' = slots - 1
    BY <1>1, Zenon DEF CloseOnce, ActiveIds, Active, UdpTypes
  <2>2. Cardinality(ActiveIds') = Cardinality(ActiveIds) - 1
    BY <2>1, ActiveFinite, FS_RemoveElement, Zenon
  <2> QED
    BY <2>1, <2>2, ActiveFinite, IdsAssumption
<1>2. CASE ~Active(i)
  BY <1>2, Zenon DEF CloseOnce, ActiveIds, Active, UdpTypes
<1> QED
  BY <1>1, <1>2, Zenon

(* Closing sessions and dropping entries leaves no session served unaccepted. *)
LEMMA TableShrinks ==
  ASSUME UdpTypes, PlainTable, accepted' = accepted,
         \A k \in Keys : table'[k] \in {table[k], None},
         \A i \in Ids : state'[i] \in {state[i], "closed"},
         reader.at \notin {"register", "accept"} \/ reader' = reader
  PROVE  PlainTable'
  BY IdsAssumption DEF PlainTable, UdpTypes, Active

LEMMA PlainCloser ==
  ASSUME UdpTypes, PlainTable, PlainCounts, mode = "plain", NEW a, NEW b, closeSession(a, b),
         a.key \in Keys \cup Ids, a.sess \in Ids,
         reader.at \notin {"register", "accept"} \/ reader' = reader
  PROVE  PlainTable' /\ PlainCounts'
<1>1. CASE a.at = "take" /\ table' = [table EXCEPT ![a.key] = None] /\ UNCHANGED sessionVars
  <2>1. PlainCounts'
    BY <1>1, Zenon DEF PlainCounts, ActiveIds, Active, sessionVars
  <2>2. PlainTable'
    BY <1>1, TableShrinks, Zenon DEF sessionVars, UdpTypes
  <2> QED
    BY <2>1, <2>2, Zenon
<1>2. CASE CloseOnce(a.sess) /\ UNCHANGED <<table, accepted>>
  <2>1. PlainCounts'
    BY <1>2, CloseCounts, Zenon
  <2>2. PlainTable'
    BY <1>2, TableShrinks, Zenon DEF CloseOnce, UdpTypes
  <2> QED
    BY <2>1, <2>2, Zenon
<1> QED
  BY <1>1, <1>2, Zenon DEF closeSession

LEMMA PlainReader ==
  ASSUME UdpInv, mode = "plain", Reader PROVE PlainTable' /\ PlainCounts' /\ (reader'.at = "message" => reader'.sess \in accepted')
<1> USE DEF UdpInv, PlainInv
<1>1. CASE ReadClosed
  <2>1. PlainTable'
    BY <1>1, TableShrinks, Zenon DEF ReadClosed, sessionVars
  <2> QED
    BY <1>1, <2>1, Zenon DEF ReadClosed, sessionVars, PlainCounts, ActiveIds, Active, At
<1>2. CASE ReaderCloses
  <2>1. closeSession(reader, reader')
    BY <1>2, Zenon DEF ReaderCloses
  <2>2. /\ reader.key \in Keys \cup Ids /\ reader.sess \in Ids /\ reader.at \notin {"register", "accept"}
        /\ reader'.at # "message"
    BY <2>1, CloserGoes, Zenon DEF ReaderTypes
  <2> QED
    BY <2>1, <2>2, PlainCloser, Zenon
<1>3. CASE HandleMessage
  <2>1. reader.at = "message" /\ reader'.at # "message" /\ UNCHANGED <<table, state, accepted, slots>>
    BY <1>3 DEF HandleMessage, At, Closing
  <2>2. PlainTable'
    BY <2>1, TableShrinks, Zenon
  <2> QED
    BY <2>1, <2>2, Zenon DEF PlainCounts, ActiveIds, Active
<1>4. CASE LoadSession
  <2> DEFINE k == reader.key
             old == table[k]
  <2>1. reader.at = "load" /\ k \in Keys /\ old \in Ids \cup {None}
    BY <1>4, Zenon DEF LoadSession, ReaderTypes, UdpTypes
  <2>2. CASE UNCHANGED <<table, sessionVars>>
    <3>1. PlainTable'
      BY <2>1, <2>2, TableShrinks, Zenon DEF sessionVars
    <3>2. PlainCounts'
      BY <2>2, Zenon DEF PlainCounts, ActiveIds, Active, sessionVars
    <3>3. \/ reader' = [reader EXCEPT !.at = "message", !.sess = old] /\ old # None /\ Active(old)
          \/ reader' = Closing(k, old, "load") \/ reader' = At("read")
          \/ reader' = [reader EXCEPT !.at = "register", !.sess = Fresh]
      BY <1>4, Zenon DEF LoadSession
    <3>4. \/ reader'.at = "message" /\ reader'.sess = old /\ old # None /\ Active(old)
          \/ reader'.at # "message"
      <4>0. IsActor(reader)
        BY Zenon DEF ReaderTypes
      <4>1. CASE reader' = [reader EXCEPT !.at = "message", !.sess = old] /\ old # None /\ Active(old)
        <5>1. reader' = Hold(reader, "message", old)
          BY <4>1, Zenon DEF Hold
        <5> QED
          BY <4>0, <4>1, <5>1, ActorHolds
      <4>2. CASE reader' = Closing(k, old, "load") \/ reader' = At("read")
        BY <4>2 DEF Closing, At
      <4>3. CASE reader' = [reader EXCEPT !.at = "register", !.sess = Fresh]
        <5>1. reader'.at = "register"
          <6>1. reader' = Hold(reader, "register", Fresh)
            BY <4>3, Zenon DEF Hold
          <6> QED
            BY <4>0, <6>1, ActorHolds
        <5> QED
          BY <5>1, Zenon
      <4> QED
        BY <3>3, <4>1, <4>2, <4>3, Zenon
    <3>5. old # None /\ Active(old) => old \in accepted
      BY <2>1, Zenon DEF PlainTable
    <3> QED
      BY <2>2, <3>1, <3>2, <3>4, <3>5, Zenon DEF sessionVars
  <2>3. CASE /\ ~(slots >= MaxSessions) /\ ~Spent /\ slots' = slots + 1
             /\ state' = [state EXCEPT ![Fresh] = "active"] /\ table' = [table EXCEPT ![k] = Fresh]
             /\ reader' = [reader EXCEPT !.at = "register", !.sess = Fresh] /\ UNCHANGED accepted
    <3>1. Fresh \in Ids /\ state[Fresh] = "none"
      BY <2>3, FreshId, Zenon
    <3>2. ActiveIds' = ActiveIds \cup {Fresh} /\ Fresh \notin ActiveIds
      BY <2>3, <3>1 DEF ActiveIds, Active, UdpTypes
    <3>3. Cardinality(ActiveIds') = Cardinality(ActiveIds) + 1
      BY <3>2, ActiveFinite, FS_AddElement, Zenon
    <3>4. PlainCounts'
      BY <2>3, <3>3, ActiveFinite, IdsAssumption DEF PlainCounts
    <3>5. reader'.at = "register" /\ reader'.key = k /\ reader'.sess = Fresh
      BY <2>3, Zenon DEF ReaderTypes, IsActor
    <3>6. ASSUME NEW j \in Keys, j # k, table[j] # None PROVE table[j] \in Ids /\ table[j] # Fresh /\ state'[table[j]] = state[table[j]]
      BY <2>3, <3>1, <3>6 DEF PlainTable, UdpTypes
    <3>7. PlainTable'
      BY <2>1, <2>3, <3>1, <3>5, <3>6 DEF PlainTable, UdpTypes, Active
    <3> QED
      BY <3>4, <3>5, <3>7, Zenon
  <2> QED
    BY <1>4, <2>2, <2>3, Zenon DEF LoadSession
<1>5. CASE RegisterSession
  <2>1. reader.at = "register" /\ reader.key \in Keys /\ reader.sess \in Ids /\ UNCHANGED accepted
    BY <1>5, Zenon DEF RegisterSession, ReaderTypes
  <2>2. CASE reader' = [reader EXCEPT !.at = "accept"] /\ UNCHANGED <<table, state, slots>>
    <3>1. reader'.at = "accept" /\ reader'.key = reader.key /\ reader'.sess = reader.sess
      BY <2>2, Zenon DEF ReaderTypes, IsActor
    <3> QED
      BY <2>1, <2>2, <3>1, Zenon DEF PlainTable, PlainCounts, ActiveIds, Active
  <2>3. CASE table' = [table EXCEPT ![reader.key] = None] /\ CloseOnce(reader.sess) /\ reader' = At("read")
    <3>1. PlainCounts'
      BY <2>1, <2>3, CloseCounts, Zenon
    <3>2. PlainTable'
      BY <2>1, <2>3, IdsAssumption DEF CloseOnce, PlainTable, UdpTypes, Active
    <3> QED
      BY <2>3, <3>1, <3>2, Zenon DEF At
  <2> QED
    BY <1>5, <2>2, <2>3, Zenon DEF RegisterSession
<1>6. CASE AcceptSession
  <2>1. reader.at = "accept" /\ reader.key \in Keys /\ reader.sess \in Ids
    BY <1>6, Zenon DEF AcceptSession, ReaderTypes
  <2>2. CASE accepted' = accepted \cup {reader.sess} /\ reader' = [reader EXCEPT !.at = "message"] /\ UNCHANGED <<table, state, slots>>
    <3>1. reader'.at = "message" /\ reader'.key = reader.key /\ reader'.sess = reader.sess
      BY <2>2, Zenon DEF ReaderTypes, IsActor
    <3> QED
      BY <2>1, <2>2, <3>1 DEF PlainTable, PlainCounts, ActiveIds, Active
  <2>3. CASE /\ table' = [table EXCEPT ![reader.key] = None] /\ reader' = At("read") /\ UNCHANGED accepted
             /\ CloseOnce(reader.sess) \/ UNCHANGED <<state, slots>>
    <3>1. PlainCounts'
      <4>1. CASE CloseOnce(reader.sess)
        BY <2>1, <4>1, CloseCounts, Zenon
      <4>2. CASE UNCHANGED <<state, slots>>
        BY <4>2, Zenon DEF PlainCounts, ActiveIds, Active
      <4> QED
        BY <2>3, <4>1, <4>2, Zenon
    <3>2. PlainTable'
      BY <2>1, <2>3, IdsAssumption DEF CloseOnce, PlainTable, UdpTypes, Active
    <3> QED
      BY <2>3, <3>1, <3>2, Zenon DEF At
  <2> QED
    BY <1>6, <2>2, <2>3, Zenon DEF AcceptSession
<1> QED
  BY <1>1, <1>2, <1>3, <1>4, <1>5, <1>6, Zenon DEF Reader

LEMMA PlainStep ==
  ASSUME UdpInv, mode = "plain", [Next]_vars PROVE PlainInv'
<1> USE DEF UdpInv, PlainInv
<1>1. CASE UNCHANGED <<table, state, accepted, slots, hpc>> /\ (reader' = reader \/ (reader.at = "read" /\ reader'.at # "message"))
  <2>1. PlainTable'
    BY <1>1, TableShrinks, Zenon
  <2> QED
    BY <1>1, <2>1, Zenon DEF PlainCounts, ActiveIds, Active
<1>2. CASE Reader
  <2>1. hpc' = hpc
    BY <1>2, Zenon DEF Reader, ReadClosed, LoadSession, RegisterSession, AcceptSession, HandleMessage, ReaderCloses, dtlsVars
  <2> QED
    BY <1>2, <2>1, PlainReader, Zenon
<1>3. CASE SweeperCloses
  <2>1. closeSession(sweeper, sweeper') /\ reader' = reader /\ hpc' = hpc
    BY <1>3, Zenon DEF SweeperCloses, dtlsVars
  <2>2. sweeper.key \in Keys \cup Ids /\ sweeper.sess \in Ids
    BY <2>1, CloserGoes, Zenon DEF SweeperTypes
  <2>3. accepted' = accepted
    BY <2>1, Zenon DEF closeSession, sessionVars
  <2> QED
    BY <2>1, <2>2, <2>3, PlainCloser, Zenon
<1>4. CASE StopperCloses
  <2>1. closeSession(stopper, stopper') /\ reader' = reader /\ hpc' = hpc
    BY <1>4, Zenon DEF StopperCloses, dtlsVars
  <2>2. stopper.key \in Keys \cup Ids /\ stopper.sess \in Ids
    BY <2>1, CloserGoes, Zenon DEF StopperTypes
  <2>3. accepted' = accepted
    BY <2>1, Zenon DEF closeSession, sessionVars
  <2> QED
    BY <2>1, <2>2, <2>3, PlainCloser, Zenon
<1>5. ASSUME NEW i \in Ids, DirectClose(i) PROVE PlainInv'
  <2>1. CloseOnce(i) /\ UNCHANGED <<table, accepted, reader, hpc>>
    BY <1>5, Zenon DEF DirectClose, dtlsVars
  <2>2. PlainCounts'
    BY <2>1, CloseCounts, Zenon
  <2>3. PlainTable'
    BY <2>1, TableShrinks, Zenon DEF CloseOnce, UdpTypes
  <2> QED
    BY <2>1, <2>2, <2>3, Zenon
<1>6. ASSUME NEW i \in Ids, GoIdle(i) PROVE PlainInv'
  BY <1>1, <1>6, Zenon DEF GoIdle, dtlsVars
<1>7. CASE Sweep \/ StopAccept \/ Drain \/ CloseSessions \/ Finished \/ UNCHANGED vars
  <2>1. UNCHANGED <<table, state, accepted, slots, hpc, reader>>
    BY <1>7, Zenon DEF Sweep, StopAccept, Drain, CloseSessions, Finished, vars, sessionVars, dtlsVars
  <2> QED
    BY <1>1, <2>1, Zenon
<1>8. ASSUME NEW k \in Keys, ReadDatagram(k) PROVE PlainInv'
  <2>1. UNCHANGED <<table, state, accepted, slots, hpc>> /\ reader.at = "read"
    BY <1>8, Zenon DEF ReadDatagram, sessionVars, dtlsVars
  <2>2. reader'.at # "message"
    BY <1>8, Zenon DEF ReadDatagram, At
  <2> QED
    BY <1>1, <2>1, <2>2, Zenon
<1>9. ~DtlsAccept
  BY Zenon DEF DtlsAccept, ReaderTypes
<1>10. ASSUME NEW i \in Ids PROVE ~(Handler(i) \/ DtlsMessage(i) \/ DtlsReadError(i))
  BY Zenon DEF Handler, DtlsStore, DtlsRegister, DtlsOnAccept, DtlsCheck, DtlsMessage, DtlsReadError, DtlsDefer, DtlsDelete
<1> QED
  BY <1>2, <1>3, <1>4, <1>5, <1>6, <1>7, <1>8, <1>9, <1>10, Zenon DEF Next, Sweeper, Stopper

(* One connection's condition reads only its own entries and the stopper. *)
LEMMA DtlsFrame ==
  ASSUME NEW j \in Ids, DtlsOf(j), table'[j] = table[j], state'[j] = state[j], hpc'[j] = hpc[j],
         closes'[j] = closes[j], j \in accepted' <=> j \in accepted, stopper' = stopper
  PROVE  DtlsOf(j)'
  BY Zenon DEF DtlsOf, Retiring

DtlsShape ==
  /\ mode = "dtls"
  /\ table \in [Keys \cup Ids -> Ids \cup {None}]
  /\ state \in [Ids -> {"none", "active", "closed"}]
  /\ closes \in [Ids -> Nat]
  /\ hpc \in [Ids -> {"off", "store", "register", "accept", "check", "read", "defer", "delete", "exit"}]

LEMMA DtlsHasShape == UdpInv /\ mode = "dtls" => DtlsShape
  BY Zenon DEF UdpInv, UdpTypes, DtlsShape

DtlsMoves(i) == Handler(i) \/ DtlsMessage(i) \/ DtlsReadError(i) \/ DirectClose(i)

(* handleDTLSConn: a step of connection i's goroutine, or a direct Close,    *)
(* touches that connection only.                                             *)
LEMMA DtlsTouches ==
  ASSUME DtlsShape, NEW i \in Ids, DtlsMoves(i)
  PROVE  /\ stopper' = stopper /\ slots' = slots
         /\ \A k \in (Keys \cup Ids) \ {i} : table'[k] = table[k]
         /\ \A j \in Ids \ {i} : state'[j] = state[j] /\ hpc'[j] = hpc[j] /\ closes'[j] = closes[j]
         /\ \A j \in Ids \ {i} : j \in accepted' <=> j \in accepted
<1>1. CASE DtlsStore(i) \/ DtlsRegister(i) \/ DtlsOnAccept(i) \/ DtlsCheck(i)
  BY <1>1, Zenon DEF DtlsShape, DtlsStore, DtlsRegister, DtlsOnAccept, DtlsCheck, CloseOnce, Goto, sessionVars, stopVars
<1>2. CASE DtlsMessage(i) \/ DtlsReadError(i) \/ DirectClose(i)
  BY <1>2, Zenon DEF DtlsShape, DtlsMessage, DtlsReadError, DirectClose, CloseOnce, Goto, sessionVars, stopVars, dtlsVars
<1>3. CASE DtlsDefer(i) \/ DtlsDelete(i)
  BY <1>3, Zenon DEF DtlsShape, DtlsDefer, DtlsDelete, CloseOnce, Goto, sessionVars, stopVars
<1> QED
  BY <1>1, <1>2, <1>3, Zenon DEF Handler, DtlsMoves

(* Its session stays in the table, about to be retired, or reported once.    *)
LEMMA DtlsKeeps ==
  ASSUME DtlsShape, NEW i \in Ids, DtlsOf(i), DtlsMoves(i), stopper' = stopper PROVE DtlsOf(i)'
<1>1. CASE DtlsStore(i)
  BY <1>1, IdsAssumption, Zenon DEF DtlsShape, DtlsOf, Retiring, Goto, DtlsStore, sessionVars
<1>2. CASE DtlsRegister(i)
  BY <1>2, Zenon DEF DtlsShape, DtlsOf, Retiring, Goto, CloseOnce, DtlsRegister
<1>3. CASE DtlsOnAccept(i)
  BY <1>3, Zenon DEF DtlsShape, DtlsOf, Retiring, Goto, CloseOnce, DtlsOnAccept
<1>4. CASE DtlsCheck(i) \/ DtlsReadError(i)
  BY <1>4, Zenon DEF DtlsShape, DtlsOf, Retiring, Goto, DtlsCheck, DtlsReadError, sessionVars
<1>5. CASE DtlsMessage(i)
  BY <1>5, Zenon DEF DtlsShape, DtlsOf, Retiring, Goto, CloseOnce, DtlsMessage
<1>6. CASE DtlsDefer(i)
  BY <1>6, Zenon DEF DtlsShape, DtlsOf, Retiring, Goto, CloseOnce, DtlsDefer
<1>7. CASE DtlsDelete(i)
  BY <1>7, IdsAssumption DEF DtlsShape, DtlsOf, Retiring, Goto, DtlsDelete
<1>8. CASE DirectClose(i)
  BY <1>8, Zenon DEF DtlsShape, DtlsOf, Retiring, CloseOnce, DirectClose, Active, dtlsVars
<1> QED
  BY <1>1, <1>2, <1>3, <1>4, <1>5, <1>6, <1>7, <1>8, Zenon DEF Handler, DtlsMoves

LEMMA DtlsConn ==
  ASSUME DtlsShape, DtlsInv, NEW i \in Ids, DtlsMoves(i) PROVE DtlsInv'
<1>1. ASSUME NEW j \in Ids, j # i PROVE DtlsOf(j)'
  BY <1>1, DtlsTouches, DtlsFrame, Zenon DEF DtlsInv
<1>2. DtlsOf(i)'
  BY DtlsTouches, DtlsKeeps, Zenon DEF DtlsInv
<1> QED
  BY <1>1, <1>2, DtlsTouches, Zenon DEF DtlsInv

(* CloseSessions beside the connections' goroutines. *)
LEMMA DtlsStop ==
  ASSUME DtlsShape, StopperTypes, left \subseteq Keys \cup Ids, DtlsInv, Stopper PROVE DtlsInv'
<1>1. CASE StopAccept \/ Drain
  <2>1. /\ UNCHANGED <<table, state, hpc, closes, accepted, slots>>
        /\ stopper.at \notin {"take", "retire"} /\ stopper'.at \notin {"take", "retire"} /\ stopper'.sess = None
    BY <1>1 DEF StopAccept, Drain, sessionVars, dtlsVars, At
  <2> QED
    BY <2>1, IdsAssumption, Zenon DEF DtlsInv, DtlsOf, Retiring
<1>2. CASE CloseSessions
  <2>1. UNCHANGED <<table, state, hpc, closes, accepted, slots>> /\ stopper.at = "range"
    BY <1>2, Zenon DEF CloseSessions, sessionVars, dtlsVars
  <2>2. \/ stopper' = At("done") \/ stopper' = stopper
        \/ \E k \in left : table[k] # None /\ stopper' = Closing(k, table[k], "range")
    BY <1>2, Zenon DEF CloseSessions
  <2>3. CASE stopper' = At("done") \/ stopper' = stopper
    <3>1. stopper'.at \notin {"take", "retire"} /\ stopper'.sess = None
      BY <2>1, <2>3 DEF StopperTypes, At
    <3> QED
      BY <2>1, <3>1, IdsAssumption, Zenon DEF DtlsInv, DtlsOf, Retiring
  <2>4. ASSUME NEW k \in Keys \cup Ids, table[k] # None, stopper' = Closing(k, table[k], "range") PROVE DtlsInv'
    <3>1. k \in Ids /\ table[k] = k
      BY <2>4, Zenon DEF DtlsInv, DtlsOf
    <3>2. stopper'.at = "take" /\ stopper'.key = k /\ stopper'.sess = k
      BY <2>4, <3>1, Zenon DEF Closing
    <3> QED
      BY <2>1, <3>1, <3>2, IdsAssumption DEF DtlsInv, DtlsOf, Retiring
  <2> QED
    BY <2>2, <2>3, <2>4, Zenon
<1>3. CASE StopperCloses
  <2>1. closeSession(stopper, stopper') /\ hpc' = hpc
    BY <1>3, Zenon DEF StopperCloses, dtlsVars
  <2>2. PICK s \in Ids : s = stopper.sess /\ stopper.key = s /\ stopper.at \in {"take", "retire"} /\ stopper.then = "range"
    BY <2>1, CloserGoes, Zenon DEF StopperTypes, DtlsInv
  <2>3. \/ stopper.at = "take" /\ table[s] # None /\ stopper'.at = "retire" /\ stopper'.key = s /\ stopper'.sess = s
        \/ stopper'.at = "range" /\ stopper'.sess = None
    BY <2>1, <2>2, CloserGoes DEF StopperTypes
  <2>4. CASE stopper.at = "take"
    <3>1. table' = [table EXCEPT ![s] = None] /\ UNCHANGED <<state, closes, accepted, slots>>
      BY <2>1, <2>2, <2>4, Zenon DEF closeSession, sessionVars
    <3>2. table[s] # None => stopper'.at = "retire" /\ stopper'.key = s /\ stopper'.sess = s
      <4>1. stopper' = Taken(stopper)
        BY <2>1, <2>4, Zenon DEF closeSession
      <4>2. table[s] # None => stopper' = [stopper EXCEPT !.at = "retire"]
        BY <2>2, <4>1, Zenon DEF Taken
      <4> QED
        BY <2>2, <4>2, Zenon DEF StopperTypes, IsActor
    <3>3. ASSUME NEW j \in Ids PROVE DtlsOf(j)'
      BY <2>1, <2>2, <2>3, <2>4, <3>1, <3>2, IdsAssumption DEF DtlsShape, DtlsInv, DtlsOf, Retiring
    <3> QED
      BY <2>2, <2>3, <3>1, <3>3, Zenon DEF DtlsShape, DtlsInv
  <2>5. CASE stopper.at = "retire"
    <3>1. /\ state' = [state EXCEPT ![s] = "closed"] /\ closes' = [closes EXCEPT ![s] = @ + 1]
          /\ UNCHANGED <<table, accepted, slots>>
      BY <2>1, <2>2, <2>5, Zenon DEF closeSession, CloseOnce, DtlsShape
    <3>2. stopper'.at = "range" /\ stopper'.sess = None
      BY <2>3, <2>5, Zenon
    <3>3. ASSUME NEW j \in Ids PROVE DtlsOf(j)'
      BY <2>1, <2>2, <2>5, <3>1, <3>2, IdsAssumption DEF DtlsShape, DtlsInv, DtlsOf, Retiring
    <3> QED
      BY <3>1, <3>2, <3>3, Zenon DEF DtlsInv
  <2> QED
    BY <2>2, <2>4, <2>5, Zenon
<1> QED
  BY <1>1, <1>2, <1>3, Zenon DEF Stopper

LEMMA DtlsStep ==
  ASSUME UdpInv, mode = "dtls", [Next]_vars PROVE DtlsInv'
<1> USE DEF UdpInv
<1>1. CASE UNCHANGED <<table, state, hpc, closes, accepted, slots, stopper>>
  BY <1>1, Zenon DEF DtlsInv, DtlsOf, Retiring
<1>2. CASE ReadClosed \/ Finished \/ UNCHANGED vars
  <2>1. UNCHANGED <<table, state, hpc, closes, accepted, slots, stopper>>
    BY <1>2, Zenon DEF ReadClosed, Finished, vars, sessionVars, dtlsVars, stopVars
  <2> QED
    BY <1>1, <2>1, Zenon
<1>3. CASE DtlsAccept
  <2>1. Fresh \in Ids /\ state[Fresh] = "none"
    BY <1>3, FreshId, Zenon DEF DtlsAccept
  <2>2. /\ hpc' = [hpc EXCEPT ![Fresh] = "store"] /\ state' = [state EXCEPT ![Fresh] = "active"]
        /\ UNCHANGED <<table, closes, accepted, slots, stopper>>
    BY <1>3, Zenon DEF DtlsAccept, stopVars
  <2>3. ASSUME NEW j \in Ids PROVE DtlsOf(j)'
    BY <2>1, <2>2, <2>3, Zenon DEF DtlsInv, DtlsOf, Retiring, UdpTypes
  <2> QED
    BY <2>2, <2>3, Zenon DEF DtlsInv
<1>4. ~LoadSession /\ ~RegisterSession /\ ~AcceptSession /\ ~HandleMessage /\ ~ReaderCloses /\ ~Sweep /\ ~SweeperCloses
  BY Zenon DEF LoadSession, RegisterSession, AcceptSession, HandleMessage, ReaderCloses, Sweep, SweeperCloses, closeSession,
         ReaderTypes, SweeperTypes
<1>5. ASSUME NEW k \in Keys PROVE ~ReadDatagram(k)
  BY Zenon DEF ReadDatagram, ReaderTypes
<1>6. ASSUME NEW i \in Ids PROVE ~GoIdle(i)
  BY Zenon DEF GoIdle
<1>7. DtlsShape /\ StopperTypes /\ left \subseteq Keys \cup Ids /\ DtlsInv
  BY DtlsHasShape, Zenon DEF UdpTypes
<1> QED
  BY <1>2, <1>3, <1>4, <1>5, <1>6, <1>7, DtlsConn, DtlsStop, Zenon DEF Next, Reader, Sweeper, DtlsMoves

LEMMA UdpStep == UdpInv /\ [Next]_vars => UdpInv'
  BY ReaderStep, OthersStep, UdpTypesStep, PlainStep, DtlsStep, Zenon DEF UdpInv

LEMMA UdpInvSettles == UdpInv => SessionsSettled
<1> SUFFICES ASSUME UdpInv PROVE SessionsSettled
  BY Zenon
<1> USE DEF UdpInv
<1>1. slots \in 0..MaxSessions
  BY ActiveFinite, IdsAssumption DEF UdpTypes, PlainInv, PlainCounts, DtlsInv
<1>2. TypeOK
  BY <1>1, Zenon DEF TypeOK, UdpTypes, ReaderTypes, SweeperTypes, StopperTypes
<1>3. OnlyAcceptedServed
  BY Zenon DEF OnlyAcceptedServed, UdpTypes, ReaderTypes, PlainInv
<1>4. SlotsExact
  BY Zenon DEF SlotsExact, PlainInv, PlainCounts, ActiveIds
<1>5. DtlsOnCloseOnce
  BY Zenon DEF DtlsOnCloseOnce, DtlsInv, DtlsOf, Retiring
<1> QED
  BY <1>2, <1>3, <1>4, <1>5, Zenon DEF SessionsSettled

(* For any number of peers, sessions and direct closes: the read loop hands  *)
(* a message only to a session OnAccept admitted, the quota counts exactly   *)
(* the plain sessions that are not closed, and a DTLS session is reported    *)
(* closed once, by its goroutine or by CloseSessions (readLoop,              *)
(* getOrCreateSession, closeSession, handleDTLSConn, CloseSessions).         *)
THEOREM SessionsSettledHolds == Spec => []SessionsSettled
  BY UdpInitInv, UdpStep, UdpInvSettles, PTL DEF Spec

-----------------------------------------------------------------------------
(* The QUIC server. *)
QuicBusy == {c \in QConns : qPc[c] \notin {"new", "end"}}

QuicTypes ==
  /\ qPc \in [QConns -> {"new", "store", "register", "onAccept", "serve", "discard", "close", "done", "end"}]
  /\ qTable \subseteq QConns /\ qRegistered \subseteq QConns /\ qLive \subseteq QConns /\ qAccepted \subseteq QConns
  /\ qOnClosed \in [QConns -> {0, 1}]
  /\ streams \in [QConns -> Nat] /\ opened \in [QConns -> Nat] /\ queue \in [QConns -> 0..QueueSize]
  /\ \A c \in QConns : streams[c] <= opened[c] /\ opened[c] <= MaxStreams
  /\ writer \in [QConns -> {"off", "idle", "write", "out"}]
  /\ qStopPc \in {"run", "drain", "close", "stopped"}

QuicCounts == qSlots = Cardinality(QuicBusy) /\ qSlots <= MaxQConns

(* What is known of a connection: while only its own goroutine closes it the *)
(* table says where that goroutine is; an entry of the table was not closed  *)
(* yet; after a Drain that ran to its end there is nothing left of it.       *)
QuicOf(c) ==
  /\ qStopPc \in {"run", "drain"} =>
       /\ c \in qTable <=> qPc[c] \in {"register", "onAccept", "serve", "discard", "close"}
       /\ c \in qRegistered => c \in qTable
       /\ c \in qAccepted => qPc[c] \in {"serve", "close", "done", "end"}
       /\ qOnClosed[c] = IF c \in qAccepted /\ qPc[c] \in {"done", "end"} THEN 1 ELSE 0
  /\ qPc[c] \in {"new", "store"} => c \notin qTable
  /\ c \in qTable \/ qPc[c] \in {"new", "store"} => qOnClosed[c] = 0
  /\ qPc[c] \in {"serve", "close"} => c \in qAccepted
  /\ drained =>
       /\ qStopPc \in {"close", "stopped"} /\ qPc[c] \in {"new", "end"}
       /\ c \notin qTable /\ c \notin qRegistered
       /\ qOnClosed[c] = IF c \in qAccepted THEN 1 ELSE 0

QuicInv == QuicTypes /\ QuicCounts /\ drained \in BOOLEAN /\ \A c \in QConns : QuicOf(c)

LEMMA QuicInitInv == QuicInit => QuicInv
<1> SUFFICES ASSUME QuicInit PROVE QuicInv
  BY Zenon
<1>1. QuicTypes
  BY QuicAssumption DEF QuicInit, QuicTypes
<1>2. QuicBusy = {}
  BY Zenon DEF QuicInit, QuicBusy
<1>3. QuicCounts
  BY <1>2, FS_EmptySet, QuicAssumption DEF QuicInit, QuicCounts
<1>4. ASSUME NEW c \in QConns PROVE QuicOf(c)
  BY Zenon DEF QuicInit, QuicOf
<1>5. drained \in BOOLEAN
  BY Zenon DEF QuicInit
<1> QED
  BY <1>1, <1>3, <1>4, <1>5, Zenon DEF QuicInv

LEMMA QuicFinite == QuicTypes => IsFiniteSet(QuicBusy) /\ Cardinality(QuicBusy) \in Nat
<1>1. QuicBusy \subseteq QConns
  BY Zenon DEF QuicBusy
<1> QED
  BY <1>1, FS_Subset, FS_CardinalityType, QuicAssumption, Zenon

LEMMA QuicCountsStep ==
  ASSUME QuicInv, QuicNext PROVE QuicCounts'
<1> USE DEF QuicInv
<1>1. CASE QuicBusy' = QuicBusy /\ qSlots' = qSlots
  BY <1>1, Zenon DEF QuicCounts
<1>2. ASSUME NEW c \in QConns, QuicAccept(c) PROVE QuicCounts'
  <2>1. CASE qSlots < MaxQConns /\ Go(c, "new", "store") /\ qSlots' = qSlots + 1
    <3>1. QuicBusy' = QuicBusy \cup {c} /\ c \notin QuicBusy
      BY <2>1, Zenon DEF Go, QuicBusy, QuicTypes
    <3>2. Cardinality(QuicBusy') = Cardinality(QuicBusy) + 1
      BY <3>1, QuicFinite, FS_AddElement, Zenon
    <3> QED
      BY <2>1, <3>2, QuicFinite, QuicAssumption DEF QuicCounts
  <2>2. CASE Go(c, "new", "end") /\ qSlots' = qSlots
    <3>1. QuicBusy' = QuicBusy
      BY <2>2, Zenon DEF Go, QuicBusy, QuicTypes
    <3> QED
      BY <1>1, <2>2, <3>1, Zenon
  <2> QED
    BY <1>2, <2>1, <2>2, Zenon DEF QuicAccept
<1>3. ASSUME NEW c \in QConns, Done(c) PROVE QuicCounts'
  <2>1. QuicBusy' = QuicBusy \ {c} /\ c \in QuicBusy /\ qSlots' = qSlots - 1
    BY <1>3, Zenon DEF Done, Go, QuicBusy, QuicTypes
  <2>2. Cardinality(QuicBusy') = Cardinality(QuicBusy) - 1
    BY <2>1, QuicFinite, FS_RemoveElement, Zenon
  <2> QED
    BY <2>1, <2>2, QuicFinite, QuicAssumption DEF QuicCounts
<1>4. ASSUME NEW c \in QConns, Store(c) \/ QuicRegister(c) \/ QuicOnAccept(c) \/ Discard(c)
             \/ Close(c) \/ ServeEnds(c)
      PROVE QuicBusy' = QuicBusy /\ qSlots' = qSlots
  BY <1>4, Zenon DEF Store, QuicRegister, QuicOnAccept, Discard, Close, ServeEnds, Go,
              conn, QuicBusy, QuicTypes
<1>5. ASSUME NEW c \in QConns, AcceptStream(c) \/ StreamEnds(c) \/ Send(c) \/ WriteStep(c)
      PROVE QuicBusy' = QuicBusy /\ qSlots' = qSlots
  BY <1>5, Zenon DEF AcceptStream, StreamEnds, Send, WriteStep, Dequeue, Write,
              WriterEnds, conn, QuicBusy
<1>6. CASE QuicStopAccept \/ QuicDrain \/ QuicCloseSessions \/ UNCHANGED quicVars
  <2>1. QuicBusy' = QuicBusy /\ qSlots' = qSlots
    BY <1>6, Zenon DEF QuicStopAccept, QuicDrain, QuicCloseSessions, conn, quicVars, QuicBusy
  <2> QED
    BY <1>1, <2>1, Zenon
<1> QED
  BY <1>1, <1>2, <1>3, <1>4, <1>5, <1>6, Zenon DEF QuicNext, QuicConnStep

LEMMA QuicTypesStep ==
  ASSUME QuicInv, QuicNext PROVE QuicTypes'
<1> USE DEF QuicInv, QuicTypes
<1>1. ASSUME NEW c \in QConns, QuicAccept(c) \/ Done(c) \/ Store(c) \/ QuicRegister(c) \/ ServeEnds(c)
      PROVE QuicTypes'
  BY <1>1, Zenon DEF QuicAccept, Done, Store, QuicRegister, ServeEnds, Go,
              conn, strm, data, stop
<1>2. ASSUME NEW c \in QConns, QuicOnAccept(c) \/ Discard(c) PROVE QuicTypes'
  BY <1>2, Zenon DEF QuicOnAccept, Discard, Go, strm, data, stop
<1>3. ASSUME NEW c \in QConns, CloseSession(c)
      PROVE /\ qTable' \subseteq QConns /\ qRegistered' \subseteq QConns /\ qLive' \subseteq QConns
            /\ qOnClosed' \in [QConns -> {0, 1}]
  <2>1. c \in qTable => qOnClosed[c] = 0
    BY Zenon DEF QuicOf
  <2> QED
    BY <1>3, <2>1 DEF CloseSession
<1>4. ASSUME NEW c \in QConns, Close(c) PROVE QuicTypes'
  <2>1. CloseSession(c)
    BY <1>4, Zenon DEF Close
  <2> QED
    BY <1>3, <1>4, <2>1, Zenon DEF Close, Go, strm, data, stop
<1>5. ASSUME NEW c \in QConns, AcceptStream(c) \/ StreamEnds(c) PROVE QuicTypes'
  <2>1. UNCHANGED <<qPc, qTable, qRegistered, qLive, qAccepted, qOnClosed, queue, writer, qStopPc>>
    BY <1>5, Zenon DEF AcceptStream, StreamEnds, conn, data, stop
  <2>2. /\ streams' \in [QConns -> Nat] /\ opened' \in [QConns -> Nat]
        /\ \A d \in QConns : streams'[d] <= opened'[d] /\ opened'[d] <= MaxStreams
    BY <1>5, QuicAssumption DEF AcceptStream, StreamEnds
  <2> QED
    BY <2>1, <2>2, Zenon
<1>6. ASSUME NEW c \in QConns, Send(c) \/ WriteStep(c) PROVE QuicTypes'
  <2>1. UNCHANGED <<qPc, qTable, qRegistered, qLive, qAccepted, qOnClosed, streams, opened, qStopPc>>
    BY <1>6, Zenon DEF Send, WriteStep, Dequeue, Write, WriterEnds, conn, strm, stop
  <2>2. queue' \in [QConns -> 0..QueueSize]
    BY <1>6, QuicAssumption DEF Send, WriteStep, Dequeue, Write, WriterEnds
  <2>3. writer' \in [QConns -> {"off", "idle", "write", "out"}]
    BY <1>6, Zenon DEF Send, WriteStep, Dequeue, Write, WriterEnds
  <2> QED
    BY <2>1, <2>2, <2>3, Zenon
<1>7. CASE QuicStopAccept \/ QuicDrain \/ UNCHANGED quicVars
  BY <1>7, Zenon DEF QuicStopAccept, QuicDrain, conn, strm, data, quicVars
<1>8. CASE QuicCloseSessions
  <2>1. UNCHANGED <<qPc, qAccepted, streams, opened, queue, writer>> /\ qStopPc' \in {"close", "stopped"}
    BY <1>8, Zenon DEF QuicCloseSessions, strm, data
  <2>2. UNCHANGED <<qTable, qRegistered, qLive, qOnClosed>> \/ \E c \in qTable : CloseSession(c)
    BY <1>8, Zenon DEF QuicCloseSessions
  <2> QED
    BY <1>3, <2>1, <2>2, Zenon
<1> QED
  BY <1>1, <1>2, <1>4, <1>5, <1>6, <1>7, <1>8, Zenon DEF QuicNext, QuicConnStep

(* closeSession removes an entry of the table, whoever calls it. *)
LEMMA QuicCloseStep ==
  ASSUME QuicInv, NEW c \in QConns, CloseSession(c), NEW d \in QConns,
         UNCHANGED <<qAccepted, drained>>, qStopPc' = qStopPc,
         \/ qPc[c] = "close" /\ qPc' = [qPc EXCEPT ![c] = "done"]
         \/ qPc' = qPc /\ qStopPc = "close" /\ c \in qTable
  PROVE QuicOf(d)'
<1> USE DEF QuicInv, QuicTypes
<1>1. QuicOf(c) /\ QuicOf(d)
  BY Zenon
<1>2. CASE d = c
  <2>1. CASE c \in qTable
    <3>1. /\ c \notin qTable' /\ c \notin qRegistered' /\ qOnClosed'[c] = qOnClosed[c] + 1
      BY <2>1 DEF CloseSession
    <3>2. qPc'[c] = "done" \/ qPc'[c] = qPc[c]
      BY Zenon
    <3> QED
      BY <1>1, <1>2, <2>1, <3>1, <3>2 DEF QuicOf
  <2>2. CASE c \notin qTable
    <3>1. /\ qTable' = qTable /\ qRegistered' = qRegistered /\ qOnClosed' = qOnClosed
          /\ qPc[c] = "close" /\ qPc'[c] = "done"
      BY <2>2, Zenon DEF CloseSession
    <3> QED
      BY <1>1, <1>2, <2>2, <3>1, Zenon DEF QuicOf
  <2> QED
    BY <2>1, <2>2, Zenon
<1>3. CASE d # c
  <2>1. /\ qPc'[d] = qPc[d] /\ qOnClosed'[d] = qOnClosed[d]
        /\ d \in qTable' <=> d \in qTable
        /\ d \in qRegistered' <=> d \in qRegistered
    BY <1>3 DEF CloseSession
  <2> QED
    BY <1>1, <2>1, Zenon DEF QuicOf
<1> QED
  BY <1>2, <1>3, Zenon

LEMMA QuicOfStep ==
  ASSUME QuicInv, QuicNext, NEW d \in QConns PROVE QuicOf(d)'
<1> USE DEF QuicInv, QuicTypes
<1>0. QuicOf(d)
  BY Zenon
<1>1. ASSUME NEW c \in QConns, QuicAccept(c) \/ Done(c) \/ ServeEnds(c) PROVE QuicOf(d)'
  BY <1>0, <1>1 DEF QuicAccept, Done, ServeEnds, Go, conn, stop, QuicOf
<1>2. ASSUME NEW c \in QConns, Store(c) \/ QuicRegister(c) PROVE QuicOf(d)'
  BY <1>0, <1>2 DEF Store, QuicRegister, Go, stop, QuicOf
<1>3. ASSUME NEW c \in QConns, QuicOnAccept(c) \/ Discard(c) PROVE QuicOf(d)'
  BY <1>0, <1>3 DEF QuicOnAccept, Discard, Go, stop, QuicOf
<1>4. ASSUME NEW c \in QConns, Close(c) PROVE QuicOf(d)'
  <2>1. /\ CloseSession(c) /\ UNCHANGED <<qAccepted, drained>> /\ qStopPc' = qStopPc
        /\ qPc[c] = "close" /\ qPc' = [qPc EXCEPT ![c] = "done"]
    BY <1>4, Zenon DEF Close, Go, stop
  <2> QED
    BY <2>1, QuicCloseStep, Zenon
<1>5. ASSUME NEW c \in QConns, AcceptStream(c) \/ StreamEnds(c) \/ Send(c) \/ WriteStep(c)
      PROVE QuicOf(d)'
  <2>1. UNCHANGED <<qPc, qTable, qRegistered, qAccepted, qOnClosed, qStopPc, drained>>
    BY <1>5, Zenon DEF AcceptStream, StreamEnds, Send, WriteStep, Dequeue, Write,
                WriterEnds, conn, stop
  <2> QED
    BY <1>0, <2>1, Zenon DEF QuicOf
<1>6. CASE QuicStopAccept \/ UNCHANGED quicVars
  BY <1>0, <1>6 DEF QuicStopAccept, conn, quicVars, QuicOf
<1>7. CASE QuicDrain
  <2>1. /\ UNCHANGED <<qPc, qTable, qRegistered, qAccepted, qOnClosed>> /\ qStopPc = "drain" /\ qStopPc' = "close"
    BY <1>7, Zenon DEF QuicDrain, conn
  <2>2. drained' => qPc[d] \in {"new", "end"}
    BY <1>7, Zenon DEF QuicDrain, Quiet
  <2> QED
    BY <1>0, <2>1, <2>2, Zenon DEF QuicOf
<1>8. CASE QuicCloseSessions
  <2>1. CASE UNCHANGED <<qTable, qRegistered, qLive, qOnClosed>>
    <3>1. UNCHANGED <<qPc, qAccepted, drained>> /\ qStopPc = "close" /\ qStopPc' \in {"close", "stopped"}
      BY <1>8, Zenon DEF QuicCloseSessions
    <3> QED
      BY <1>0, <2>1, <3>1, Zenon DEF QuicOf
  <2>2. ASSUME NEW c \in qTable, CloseSession(c), UNCHANGED qStopPc PROVE QuicOf(d)'
    <3>1. UNCHANGED <<qAccepted, drained>> /\ qPc' = qPc /\ qStopPc = "close"
      BY <1>8, Zenon DEF QuicCloseSessions
    <3> QED
      BY <2>2, <3>1, QuicCloseStep, Zenon
  <2> QED
    BY <1>8, <2>1, <2>2, Zenon DEF QuicCloseSessions
<1> QED
  BY <1>1, <1>2, <1>3, <1>4, <1>5, <1>6, <1>7, <1>8, Zenon DEF QuicNext, QuicConnStep

LEMMA QuicStep == QuicInv /\ [QuicNext]_quicVars => QuicInv'
<1>1. ASSUME QuicInv, QuicNext PROVE drained' \in BOOLEAN
  <2>1. drained' = drained \/ QuicDrain
    BY <1>1, Zenon DEF QuicNext, QuicConnStep, WriteStep, QuicAccept, Store, QuicRegister, QuicOnAccept,
       Discard, Close, Done, AcceptStream, StreamEnds, ServeEnds, Send,
       Dequeue, Write, WriterEnds, QuicStopAccept, QuicCloseSessions, stop, quicVars
  <2>2. CASE QuicDrain
    BY <2>2, Zenon DEF QuicDrain, Quiet
  <2> QED
    BY <1>1, <2>1, <2>2, Zenon DEF QuicInv
<1>2. ASSUME QuicInv, QuicNext PROVE QuicInv'
  BY <1>1, <1>2, QuicTypesStep, QuicCountsStep, QuicOfStep, Zenon DEF QuicInv
<1>3. ASSUME QuicInv, UNCHANGED quicVars PROVE QuicInv'
  <2>1. QuicTypes' /\ QuicCounts' /\ \A c \in QConns : QuicOf(c)'
    BY <1>3, Zenon DEF quicVars, QuicInv, QuicTypes, QuicCounts, QuicBusy, QuicOf
  <2>2. drained' \in BOOLEAN
    BY <1>3, Zenon DEF quicVars, QuicInv
  <2> QED
    BY <2>1, <2>2, Zenon DEF QuicInv
<1> QED
  BY <1>2, <1>3, Zenon

(* A Drain of the QUIC server that was not cut short leaves no session in the *)
(* table or registered and no slot taken, and every accepted session was     *)
(* closed exactly once; no session is ever closed twice (Drain,              *)
(* closeSession), for any number of connections and streams and any queue.   *)
THEOREM DrainedCleanHolds == QuicSpec => []DrainedClean
<1>1. QuicInv => DrainedClean
  <2> SUFFICES ASSUME QuicInv PROVE DrainedClean
    BY Zenon
  <2>1. qSlots \in 0..MaxQConns /\ qOnClosed \in [QConns -> Nat] /\ streams \in [QConns -> 0..MaxStreams]
    BY QuicFinite, QuicAssumption DEF QuicInv, QuicTypes, QuicCounts
  <2>2. QuicTypeOK
    BY <2>1, Zenon DEF QuicInv, QuicTypes, QuicTypeOK
  <2>3. \A c \in QConns : qOnClosed[c] <= 1
    BY DEF QuicInv, QuicTypes
  <2>4. ASSUME drained PROVE qSlots = 0 /\ qTable = {} /\ qRegistered = {}
    <3>1. QuicBusy = {} /\ qTable = {} /\ qRegistered = {}
      BY <2>4, Zenon DEF QuicInv, QuicTypes, QuicOf, QuicBusy
    <3> QED
      BY <3>1, FS_EmptySet, Zenon DEF QuicInv, QuicCounts
  <2>5. ASSUME drained PROVE \A c \in QConns : qOnClosed[c] = IF c \in qAccepted THEN 1 ELSE 0
    BY <2>5, Zenon DEF QuicInv, QuicOf
  <2> QED
    BY <2>2, <2>3, <2>4, <2>5, Zenon DEF DrainedClean, LeftClean
<1> QED
  BY <1>1, QuicInitInv, QuicStep, PTL DEF QuicSpec
=============================================================================
