---------------------------- MODULE RuntimeProofs ----------------------------
(***************************************************************************)
(* The gateway is whole in every state it can reach, for every set of       *)
(* callers and servers, every plugin sequence and every bound on the calls; *)
(* and the handler pools, fixed and elastic, lose no task and implement     *)
(* TaskDispatch, for any tasks, workers and stoppers.                       *)
(***************************************************************************)
EXTENDS Gateway, WorkerPool, ScalablePool, TLAPS

USE SMTT(30)

(* The gateway.  Whoever is inside Start or Stop holds startMu, and where it *)
(* is says what is up: the first at plugins or servers on the way up, none   *)
(* beyond the index at on the way down.                                      *)
Plugged(k) == {Plugins[i] : i \in 1..k}
Served(k) == {order[i] : i \in 1..k}

Holding(c) ==
  /\ started = FALSE
  /\ pc[c] \in InStart => admin = FALSE
  /\ pc[c] \in {"plugins", "unplug", "unplugAll", "closeAll", "stopAll", "adminStop"} => serving = {}
  /\ pc[c] = "plugins" => at \in 1..(Len(Plugins) + 1) /\ running = Plugged(at - 1)
  /\ pc[c] \in {"unplug", "unplugAll", "stopAll"} => at \in 0..Len(Plugins) /\ running \subseteq Plugged(at)
  /\ pc[c] \in {"servers", "admin"} => running = Plugged(Len(Plugins))
  /\ pc[c] = "servers" => at \in 1..(Len(order) + 1) /\ serving = Served(at - 1)
  /\ pc[c] = "admin" => serving = Served(Len(order))
  /\ pc[c] = "unserve" => at \in 0..Len(order) /\ serving \subseteq Served(at)
  /\ pc[c] \in {"stopAccept", "drain"} => at \in 1..(Len(order) + 1)
  /\ pc[c] = "closeSessions" =>
       at \in 1..(Len(order) + 1) /\ serving \subseteq {order[i] : i \in at..Len(order)}
  /\ pc[c] = "adminStop" => running = {}
  /\ pc[c] \in {"stopAll", "adminStop"} /\ late = FALSE => live = {}

GateMutex == \A c \in Callers : pc[c] \in InStart \cup InStop <=> startMu = c

GateInv ==
  /\ TypeOK /\ GateMutex
  /\ serving \subseteq Served(Len(order))
  /\ \A c \in Callers : startMu = c => Holding(c)
  /\ ReadyMeansServing /\ NothingLeftBehind

LEMMA GateOutlive == GateInv => PluginsOutliveSessions
  BY Zenon DEF GateInv, GateMutex, Holding, TypeOK, PluginsOutliveSessions, InStart, InStop

LEMMA PluggedRange == Range(Plugins) = Plugged(Len(Plugins)) /\ Len(Plugins) \in Nat
  BY GatewayAssumption DEF Plugged, Range

(* One more plugin, or one less, from the first k of them. *)
LEMMA PluggedFacts ==
  /\ Plugged(0) = {}
  /\ \A k \in Nat \ {0} : /\ Plugged(k - 1) \cup {Plugins[k]} = Plugged(k)
                          /\ Plugged(k) \ {Plugins[k]} \subseteq Plugged(k - 1)
  BY DEF Plugged

(* The same for the servers. *)
LEMMA ServedFacts ==
  /\ Served(0) = {}
  /\ \A k \in Nat \ {0} : Served(k) \ {order[k]} \subseteq Served(k - 1)
  BY DEF Served

LEMMA GateInit == Init => GateInv
<1> SUFFICES ASSUME Init PROVE GateInv
  BY Zenon
<1> USE GatewayAssumption DEF Init
<1>1. order \in Seq(Servers) /\ Len(order) = 0 /\ IsInjective(order)
  BY DEF IsInjective
<1>2. arg \in [Callers -> Servers]
  BY Zenon
<1>3. pc \in [Callers -> {"idle", "added", "failed", "ok"} \cup Waiting \cup InStart \cup InStop]
  BY Zenon
<1>4. TypeOK
  <2>1. started \in BOOLEAN /\ admin \in BOOLEAN /\ late \in BOOLEAN
    BY Zenon
  <2>2. at \in Nat /\ calls \in 0..MaxCalls /\ serving \subseteq Servers /\ live \subseteq Servers
    OBVIOUS
  <2> QED
    BY <1>1, <1>2, <1>3, <2>1, <2>2, Zenon DEF TypeOK
<1>5. GateMutex
  BY Zenon DEF GateMutex, InStart, InStop
<1>6. ReadyMeansServing /\ NothingLeftBehind
  BY Zenon DEF ReadyMeansServing, NothingLeftBehind
<1> QED
  BY <1>4, <1>5, <1>6, Zenon DEF GateInv

LEMMA GateTypes == GateInv /\ [Next]_vars => TypeOK'
<1> SUFFICES ASSUME GateInv, [Next]_vars PROVE TypeOK'
  BY Zenon
<1> USE GatewayAssumption DEF GateInv, TypeOK, InStart, InStop, Waiting, Goto, envVars, callVars
<1>1. ASSUME NEW c \in Callers, Register(c) PROVE TypeOK'
  <2>1. CASE UNCHANGED order
    BY <1>1, <2>1, Zenon DEF Register
  <2>2. CASE arg[c] \notin Range(order) /\ order' = Append(order, arg[c])
    <3>1. order' \in Seq(Servers)
      BY <2>2
    <3>2. IsInjective(order')
      BY <2>2 DEF IsInjective, Range
    <3> QED
      BY <1>1, <3>1, <3>2, Zenon DEF Register
  <2> QED
    BY <1>1, <2>1, <2>2, Zenon DEF Register
<1>2. ASSUME NEW c \in Callers, Start(c) PROVE TypeOK'
  BY <1>2 DEF Start
<1>3. ASSUME NEW c \in Callers, Stop(c) PROVE TypeOK'
  BY <1>3, Zenon DEF Stop
<1>4. ASSUME NEW c \in Callers, Call(c) PROVE TypeOK'
  BY <1>4 DEF Call
<1>5. ASSUME NEW c \in Callers, StartPlugin(c) PROVE TypeOK'
  <2>1. at \in Nat \ {0}
    BY <1>5 DEF StartPlugin, GateMutex, Holding
  <2>2. at <= Len(Plugins) => Plugins[at] \in Range(Plugins)
    BY <2>1 DEF Range
  <2> QED
    <3>1. CASE at > Len(Plugins)
      BY <1>5, <2>1, <3>1 DEF StartPlugin
    <3>2. CASE at <= Len(Plugins) /\ UNCHANGED pc
      BY <1>5, <2>1, <2>2, <3>2, PluggedRange DEF StartPlugin
    <3>3. CASE at <= Len(Plugins) /\ UNCHANGED running
      BY <1>5, <2>1, <3>3, PluggedRange DEF StartPlugin
    <3> QED
      BY <1>5, <2>1, <3>1, <3>2, <3>3, PluggedRange DEF StartPlugin
<1>6. ASSUME NEW c \in Callers, UndoPlugin(c) PROVE TypeOK'
  BY <1>6 DEF UndoPlugin, Return
<1>7. ASSUME NEW c \in Callers, StartServer(c) PROVE TypeOK'
  <2>1. at \in Nat \ {0}
    BY <1>7 DEF StartServer, GateMutex, Holding
  <2>2. at <= Len(order) => order[at] \in Servers
    BY <2>1
  <2> QED
    BY <1>7, <2>1, <2>2 DEF StartServer
<1>8. ASSUME NEW c \in Callers, StartAdmin(c) PROVE TypeOK'
  <2>1. admin' \in BOOLEAN /\ started' \in BOOLEAN
    BY <1>8, Zenon DEF StartAdmin
  <2> QED
    BY <1>8, <2>1 DEF StartAdmin, Return
<1>9. ASSUME NEW c \in Callers, UndoServer(c) PROVE TypeOK'
  BY <1>9 DEF UndoServer
<1>10. ASSUME NEW c \in Callers, StopPlugin(c, "unplugAll", "failed") PROVE TypeOK'
  BY <1>10 DEF StopPlugin, Return
<1>11. ASSUME NEW c \in Callers, StopPlugin(c, "stopAll", "adminStop") PROVE TypeOK'
  BY <1>11 DEF StopPlugin
<1>12. ASSUME NEW c \in Callers, StopAccept(c) PROVE TypeOK'
  BY <1>12 DEF StopAccept
<1>13. ASSUME NEW c \in Callers, Stage(c, "stopAccept", "drain") PROVE TypeOK'
  BY <1>13, Zenon DEF Stage
<1>14. ASSUME NEW c \in Callers, Drain(c) PROVE TypeOK'
  BY <1>14 DEF Drain
<1>15. ASSUME NEW c \in Callers, Stage(c, "drain", "closeSessions") PROVE TypeOK'
  BY <1>15, Zenon DEF Stage
<1>16. ASSUME NEW c \in Callers, CloseSessions(c) PROVE TypeOK'
  <2>1. late' \in BOOLEAN
    BY <1>16, Zenon DEF CloseSessions
  <2> QED
    BY <1>16, <2>1 DEF CloseSessions
<1>17. ASSUME NEW c \in Callers, Stage(c, "closeSessions", "closeAll") PROVE TypeOK'
  BY <1>17, Zenon DEF Stage
<1>18. ASSUME NEW c \in Callers, CloseAll(c) PROVE TypeOK'
  <2>1. late' \in BOOLEAN
    BY <1>18, Zenon DEF CloseAll
  <2> QED
    BY <1>18, <2>1 DEF CloseAll
<1>19. ASSUME NEW c \in Callers, StopAdmin(c) PROVE TypeOK'
  BY <1>19, Zenon DEF StopAdmin, Return
<1>20. ASSUME NEW s \in Servers, Connect(s) PROVE TypeOK'
  BY <1>20, Zenon DEF Connect
<1>21. CASE UNCHANGED vars
  BY <1>21, Zenon DEF vars
<1> QED
  BY <1>1, <1>2, <1>3, <1>4, <1>5, <1>6, <1>7, <1>8, <1>9, <1>10, <1>11, <1>12, <1>13, <1>14,
     <1>15, <1>16, <1>17, <1>18, <1>19, <1>20, <1>21, Zenon
     DEF Next, Finished, vars, Working, Locking

(* A step of the holder of startMu that keeps it: what is to be shown. *)
LEMMA GateKeeps ==
  ASSUME GateInv, TypeOK', NEW c \in Callers, startMu = c, startMu' = c, started' = started,
         \A d \in Callers \ {c} : pc'[d] = pc[d], pc'[c] \in InStart \cup InStop,
         Holding(c)', serving' \subseteq Served(Len(order))'
  PROVE  GateInv'
<1>1. GateMutex'
  BY Zenon DEF GateInv, GateMutex, TypeOK
<1>2. started' = FALSE /\ c # Nobody
  BY GatewayAssumption, Zenon DEF Holding
<1>3. ReadyMeansServing' /\ NothingLeftBehind'
  BY <1>2, Zenon DEF ReadyMeansServing, NothingLeftBehind
<1>. QED BY <1>1, <1>3, Zenon DEF GateInv

(* A step of the holder that releases it, the gateway down or ready. *)
LEMMA GateReleases ==
  ASSUME GateInv, TypeOK', NEW c \in Callers, startMu = c, startMu' = Nobody,
         \A d \in Callers \ {c} : pc'[d] = pc[d], pc'[c] \notin InStart \cup InStop,
         serving' \subseteq Served(Len(order))', ReadyMeansServing', NothingLeftBehind'
  PROVE  GateInv'
  BY GatewayAssumption, Zenon DEF GateInv, GateMutex, TypeOK

(* A step of a client, or none: sessions only open while a server accepts. *)
LEMMA HoldingKept ==
  ASSUME NEW d \in Callers, Holding(d), UNCHANGED <<order, started, pc, at, serving, running, admin, late>>,
         UNCHANGED live \/ serving # {}
  PROVE  Holding(d)'
<1>1. /\ order' = order /\ started' = started /\ pc' = pc /\ at' = at /\ serving' = serving
      /\ running' = running /\ admin' = admin /\ late' = late
  OBVIOUS
<1>2. CASE UNCHANGED live
  <2>1. live' = live
    BY <1>2
  <2>. QED BY <1>1, <2>1 DEF Holding, Plugged, Served
<1>3. CASE serving # {}
  <2>1. pc[d] \notin {"stopAll", "adminStop"}
    BY <1>3, Zenon DEF Holding
  <2>. QED BY <1>1, <2>1 DEF Holding, Plugged, Served
<1>. QED BY <1>2, <1>3, Zenon

LEMMA GateStep == GateInv /\ [Next]_vars => GateInv'
<1> SUFFICES ASSUME GateInv, [Next]_vars PROVE GateInv'
  BY Zenon
<1>0. TypeOK'
  BY GateTypes, Zenon
<1>22. pc \in [Callers -> {"idle", "added", "failed", "ok"} \cup Waiting \cup InStart \cup InStop]
  BY Zenon DEF GateInv, TypeOK
<1>23. /\ order \in Seq(Servers) /\ at \in Nat /\ serving \subseteq Served(Len(order))
       /\ Range(Plugins) = Plugged(Len(Plugins)) /\ Len(Plugins) \in Nat
       /\ running \subseteq Plugged(Len(Plugins))
  BY PluggedRange, Zenon DEF GateInv, TypeOK
<1> USE <1>22, <1>23, GatewayAssumption
<1>5. ASSUME NEW c \in Callers, StartPlugin(c) PROVE GateInv'
  <2>1. startMu = c /\ Holding(c) /\ pc[c] = "plugins"
    BY <1>5, Zenon DEF StartPlugin, GateInv, GateMutex, InStart, InStop
  <2>2. /\ at \in 1..(Len(Plugins) + 1) /\ running = Plugged(at - 1)
        /\ serving = {} /\ started = FALSE /\ admin = FALSE
    BY <2>1, Zenon DEF Holding, InStart
  <2>3. UNCHANGED <<order, started, startMu, serving, live, admin, late>>
    BY <1>5, Zenon DEF StartPlugin
  <2>4. \/ at > Len(Plugins) /\ pc' = [pc EXCEPT ![c] = "servers"] /\ at' = 1 /\ UNCHANGED running
        \/ at \in 1..Len(Plugins) /\ running' = running \cup {Plugins[at]} /\ at' = at + 1 /\ UNCHANGED pc
        \/ at \in 1..Len(Plugins) /\ at' = at - 1 /\ pc' = [pc EXCEPT ![c] = "unplug"] /\ UNCHANGED running
    <3>1. at > Len(Plugins) \/ at \in 1..Len(Plugins)
      BY <2>2
    <3>2. at \in 1..Len(Plugins) => ~(at > Len(Plugins))
      OBVIOUS
    <3>. QED BY <1>5, <3>1, <3>2, Zenon DEF StartPlugin, Goto
  <2>5. pc'[c] \in {"plugins", "servers", "unplug"} /\ \A d \in Callers \ {c} : pc'[d] = pc[d]
    BY <2>1, <2>4, Zenon
  <2>6. /\ pc'[c] = "plugins" => at' \in 1..(Len(Plugins) + 1) /\ running' = Plugged(at' - 1)
        /\ pc'[c] = "servers" => at' = 1 /\ running' = Plugged(Len(Plugins))
        /\ pc'[c] = "unplug" => at' \in 0..Len(Plugins) /\ running' = Plugged(at')
    <3>1. CASE at > Len(Plugins) /\ pc' = [pc EXCEPT ![c] = "servers"] /\ at' = 1 /\ UNCHANGED running
      <4>1. at - 1 = Len(Plugins)
        BY <2>2, <3>1
      <4>. QED BY <2>2, <3>1, <4>1, Zenon
    <3>2. CASE at \in 1..Len(Plugins) /\ running' = running \cup {Plugins[at]} /\ at' = at + 1 /\ UNCHANGED pc
      <4>1. at \in Nat \ {0} /\ at' - 1 = at /\ at' \in 1..(Len(Plugins) + 1)
        BY <3>2
      <4>2. running' = Plugged(at)
        BY <2>2, <3>2, <4>1, PluggedFacts, Zenon
      <4>. QED BY <2>1, <3>2, <4>1, <4>2, Zenon
    <3>3. CASE at \in 1..Len(Plugins) /\ at' = at - 1 /\ pc' = [pc EXCEPT ![c] = "unplug"] /\ UNCHANGED running
      <4>1. at' \in 0..Len(Plugins)
        BY <3>3
      <4>. QED BY <2>2, <3>3, <4>1, Zenon
    <3>. QED BY <2>4, <3>1, <3>2, <3>3, Zenon
  <2>7. 1 \in 1..(Len(order) + 1) /\ {order[i] : i \in 1..(1 - 1)} = {}
    OBVIOUS
  <2>8. Holding(c)'
    <3>1. CASE pc'[c] = "plugins"
      <4>1. at' \in 1..(Len(Plugins) + 1) /\ running' = {Plugins[i] : i \in 1..(at' - 1)}
        BY <2>6, <3>1, Zenon DEF Plugged
      <4>. QED BY <2>2, <2>3, <3>1, <4>1, Zenon DEF Holding, Plugged
    <3>2. CASE pc'[c] = "servers"
      <4>1. at' = 1 /\ order' = order /\ serving' = {}
        BY <2>2, <2>3, <2>6, <3>2, Zenon
      <4>2. at' \in 1..(Len(order') + 1) /\ serving' = {order'[i] : i \in 1..(at' - 1)}
        BY <2>7, <4>1, Zenon
      <4>3. running' = {Plugins[i] : i \in 1..Len(Plugins)}
        BY <2>6, <3>2, Zenon DEF Plugged
      <4>. QED BY <2>2, <2>3, <3>2, <4>2, <4>3, Zenon DEF Holding, Plugged, Served
    <3>3. CASE pc'[c] = "unplug"
      BY <2>2, <2>3, <2>6, <3>3, Zenon DEF Holding, InStart, Plugged
    <3>. QED BY <2>5, <3>1, <3>2, <3>3, Zenon
  <2>9. serving' \subseteq Served(Len(order))'
    BY <2>2, <2>3, Zenon DEF Served
  <2>. QED BY <1>0, <2>1, <2>3, <2>5, <2>8, <2>9, GateKeeps, Zenon DEF InStart, InStop
<1>6. ASSUME NEW c \in Callers, UndoPlugin(c) PROVE GateInv'
  <2>1. startMu = c /\ Holding(c) /\ pc[c] = "unplug"
    BY <1>6, Zenon DEF UndoPlugin, GateInv, GateMutex, InStart, InStop
  <2>2. /\ at \in 0..Len(Plugins) /\ running \subseteq Plugged(at)
        /\ serving = {} /\ started = FALSE
    BY <2>1, Zenon DEF Holding
  <2>3. UNCHANGED <<order, started, serving, live, admin, late>>
    BY <1>6, Zenon DEF UndoPlugin
  <2>4. CASE at = 0
    <3>1. running = {}
      BY <2>2, <2>4, PluggedFacts, Zenon
    <3>2. /\ startMu' = Nobody /\ pc'[c] = "failed" /\ UNCHANGED running
          /\ \A d \in Callers \ {c} : pc'[d] = pc[d]
      BY <1>6, <2>4, Zenon DEF UndoPlugin, Return, Goto
    <3>3. admin = FALSE
      BY <2>1, Zenon DEF Holding, InStart
    <3>4. serving' \subseteq Served(Len(order))' /\ ReadyMeansServing' /\ NothingLeftBehind'
      BY <2>2, <2>3, <3>1, <3>2, <3>3, Zenon DEF ReadyMeansServing, NothingLeftBehind
    <3>. QED BY <1>0, <2>1, <2>3, <3>2, <3>4, GateReleases, Zenon DEF InStart, InStop
  <2>5. CASE at # 0
    <3>1. /\ startMu' = c /\ UNCHANGED pc
          /\ running' = running \ {Plugins[at]} /\ at' = at - 1
      BY <1>6, <2>1, <2>5, Zenon DEF UndoPlugin
    <3>2. at \in Nat \ {0} /\ at' \in 0..Len(Plugins)
      BY <2>2, <2>5, <3>1
    <3>3. running' \subseteq Plugged(at')
      BY <2>2, <3>1, <3>2, PluggedFacts, Zenon
    <3>4. Holding(c)'
      BY <2>1, <2>3, <3>1, <3>2, <3>3, Zenon DEF Holding, InStart, Plugged
    <3>5. serving' \subseteq Served(Len(order))'
      BY <2>2, <2>3, Zenon DEF Served
    <3>. QED BY <1>0, <2>1, <2>3, <3>1, <3>4, <3>5, GateKeeps, Zenon DEF InStart, InStop
  <2> QED
    BY <2>4, <2>5, Zenon
<1>7. ASSUME NEW c \in Callers, StartServer(c) PROVE GateInv'
  <2>1. startMu = c /\ Holding(c) /\ pc[c] = "servers"
    BY <1>7, Zenon DEF StartServer, GateInv, GateMutex, InStart, InStop
  <2>2. /\ at \in 1..(Len(order) + 1) /\ serving = Served(at - 1)
        /\ running = Plugged(Len(Plugins)) /\ started = FALSE /\ admin = FALSE
    BY <2>1, Zenon DEF Holding, InStart
  <2>3. UNCHANGED <<order, started, startMu, live, running, admin, late>>
    BY <1>7, Zenon DEF StartServer
  <2>4. \/ at > Len(order) /\ pc' = [pc EXCEPT ![c] = "admin"] /\ UNCHANGED <<serving, at>>
        \/ at \in 1..Len(order) /\ serving' = serving \cup {order[at]} /\ at' = at + 1 /\ UNCHANGED pc
        \/ at \in 1..Len(order) /\ at' = at - 1 /\ pc' = [pc EXCEPT ![c] = "unserve"] /\ UNCHANGED serving
    <3>1. at > Len(order) \/ at \in 1..Len(order)
      BY <2>2
    <3>2. at \in 1..Len(order) => ~(at > Len(order))
      OBVIOUS
    <3>. QED BY <1>7, <3>1, <3>2, Zenon DEF StartServer, Goto
  <2>. DEFINE last == pc'[c]
  <2>5. last \in {"admin", "servers", "unserve"} /\ \A d \in Callers \ {c} : pc'[d] = pc[d]
    BY <2>1, <2>4, Zenon
  <2>7. /\ last = "admin" => serving' = {order[i] : i \in 1..Len(order)}
        /\ last = "servers" => at' \in 1..(Len(order) + 1) /\ serving' = {order[i] : i \in 1..(at' - 1)}
        /\ last = "unserve" => at' \in 0..Len(order) /\ serving' \subseteq {order[i] : i \in 1..at'}
        /\ serving' \subseteq {order[i] : i \in 1..Len(order)}
    <3>1. CASE at > Len(order) /\ pc' = [pc EXCEPT ![c] = "admin"] /\ UNCHANGED <<serving, at>>
      <4>1. last = "admin" /\ at - 1 = Len(order)
        BY <2>2, <3>1
      <4>. QED BY <2>2, <3>1, <4>1, Zenon DEF Served
    <3>2. CASE at \in 1..Len(order) /\ serving' = serving \cup {order[at]} /\ at' = at + 1 /\ UNCHANGED pc
      <4>1. last = "servers"
        BY <2>1, <3>2, Zenon
      <4>2. {order[i] : i \in 1..(at - 1)} \cup {order[at]} = {order[i] : i \in 1..at}
        BY <3>2
      <4>3. at' - 1 = at /\ at' \in 1..(Len(order) + 1)
            /\ {order[i] : i \in 1..at} \subseteq {order[i] : i \in 1..Len(order)}
        BY <3>2
      <4>. QED BY <2>2, <3>2, <4>1, <4>2, <4>3, Zenon DEF Served
    <3>3. CASE at \in 1..Len(order) /\ at' = at - 1 /\ pc' = [pc EXCEPT ![c] = "unserve"] /\ UNCHANGED serving
      <4>1. last = "unserve"
        BY <3>3, Zenon
      <4>2. at' \in 0..Len(order) /\ {order[i] : i \in 1..(at - 1)} \subseteq {order[i] : i \in 1..Len(order)}
        BY <3>3
      <4>. QED BY <2>2, <3>3, <4>1, <4>2, Zenon DEF Served
    <3>. QED BY <2>4, <3>1, <3>2, <3>3, Zenon
  <2>8. Holding(c)'
    BY <2>2, <2>3, <2>5, <2>7, Zenon DEF Holding, InStart, Served, Plugged
  <2>9. serving' \subseteq Served(Len(order))'
    BY <2>3, <2>7, Zenon DEF Served
  <2>. QED BY <1>0, <2>1, <2>3, <2>5, <2>8, <2>9, GateKeeps, Zenon DEF InStart, InStop
<1>8. ASSUME NEW c \in Callers, StartAdmin(c) PROVE GateInv'
  <2>1. startMu = c /\ Holding(c) /\ pc[c] = "admin"
    BY <1>8, Zenon DEF StartAdmin, GateInv, GateMutex, InStart, InStop
  <2> USE <1>8, <1>0, <2>1 DEF StartAdmin, Goto, Return
  <2>2. CASE admin' = Admin /\ started' = TRUE /\ Return(c, "ok")
    <3>1. /\ startMu' = Nobody /\ pc'[c] = "ok" /\ order' = order
          /\ \A d \in Callers \ {c} : pc'[d] = pc[d]
      BY <2>2, Zenon
    <3>2. serving' = serving /\ running' = running /\ admin' = Admin /\ started' = TRUE
      BY <2>2, Zenon
    <3>3. serving = Served(Len(order)) /\ running = Plugged(Len(Plugins))
      BY Zenon DEF Holding
    <3>4. Range(order) = Served(Len(order)) /\ Served(Len(order))' = Served(Len(order))
      BY <3>1 DEF Range, Served
    <3>5. Range(order') = Range(order)
      BY <3>1, Zenon
    <3>6. serving' \subseteq Served(Len(order))' /\ ReadyMeansServing' /\ NothingLeftBehind'
      BY <3>2, <3>3, <3>4, <3>5, Zenon DEF ReadyMeansServing, NothingLeftBehind
    <3> HIDE <1>8 DEF StartAdmin
    <3> QED
      BY <3>1, <3>6, GateReleases, Zenon DEF InStart, InStop
  <2>3. CASE pc' = [pc EXCEPT ![c] = "unserve"] /\ at' = Len(order) /\ UNCHANGED <<admin, started, startMu>>
    <3>1. /\ startMu' = c /\ started' = started /\ pc'[c] = "unserve" /\ order' = order
          /\ \A d \in Callers \ {c} : pc'[d] = pc[d]
      BY <2>3, Zenon
    <3>2. serving' = serving /\ running' = running /\ admin' = admin /\ at' = Len(order)
      BY <2>3, Zenon
    <3>3. running = Plugged(Len(Plugins)) /\ admin = FALSE /\ started = FALSE
      BY Zenon DEF Holding, InStart
    <3> HIDE <1>8, <2>1 DEF StartAdmin, Goto, Return
    <3>4. serving' \subseteq Served(Len(order))'
      BY <3>1, <3>2, Zenon DEF Served
    <3>5. at' \in 0..Len(order)'
      BY <3>1, <3>2
    <3>6. serving' \subseteq Served(at)'
      BY <3>1, <3>2, <3>4, Zenon DEF Served
    <3>7. Holding(c)'
      BY <3>1, <3>2, <3>3, <3>5, <3>6, Zenon DEF Holding, InStart
    <3> QED
      BY <2>1, <3>1, <3>4, <3>7, GateKeeps, Zenon DEF InStart, InStop
  <2> QED
    BY <2>2, <2>3, Zenon
<1>9. ASSUME NEW c \in Callers, UndoServer(c) PROVE GateInv'
  <2>1. startMu = c /\ Holding(c) /\ pc[c] = "unserve"
    BY <1>9, Zenon DEF UndoServer, GateInv, GateMutex, InStart, InStop
  <2>2. at \in 0..Len(order) /\ serving \subseteq Served(at) /\ started = FALSE /\ admin = FALSE
    BY <2>1, Zenon DEF Holding, InStart
  <2>3. UNCHANGED <<order, started, startMu, running, admin, late>>
    BY <1>9, Zenon DEF UndoServer
  <2>4. CASE at = 0
    <3>1. /\ pc'[c] = "unplugAll" /\ at' = Len(Plugins) /\ serving' = serving
          /\ \A d \in Callers \ {c} : pc'[d] = pc[d]
      BY <1>9, <2>4, Zenon DEF UndoServer, Goto
    <3>2. serving' = {} /\ Len(Plugins) \in 0..Len(Plugins)
      <4>1. serving = {}
        BY <2>2, <2>4, ServedFacts, Zenon
      <4>2. Len(Plugins) \in 0..Len(Plugins)
        BY PluggedRange
      <4>. QED BY <3>1, <4>1, <4>2, Zenon
    <3>3. Holding(c)'
      BY <2>2, <2>3, <3>1, <3>2, Zenon DEF Holding, InStart, Plugged
    <3>4. serving' \subseteq Served(Len(order))'
      BY <3>2, Zenon
    <3>. QED BY <1>0, <2>1, <2>3, <3>1, <3>3, <3>4, GateKeeps, Zenon DEF InStart, InStop
  <2>5. CASE at # 0
    <3>1. serving' = serving \ {order[at]} /\ at' = at - 1 /\ UNCHANGED pc
      BY <1>9, <2>5, Zenon DEF UndoServer
    <3>2. at \in Nat \ {0} /\ at' \in 0..Len(order)
      BY <2>2, <2>5, <3>1
    <3>3. serving' \subseteq Served(at - 1) /\ serving' \subseteq Served(Len(order))
      BY <2>2, <3>1, <3>2, ServedFacts, Zenon
    <3>4. Holding(c)'
      BY <2>1, <2>2, <2>3, <3>1, <3>2, <3>3, Zenon DEF Holding, InStart, Served
    <3>5. serving' \subseteq Served(Len(order))'
      BY <2>3, <3>3, Zenon DEF Served
    <3>. QED BY <1>0, <2>1, <2>3, <3>1, <3>4, <3>5, GateKeeps, Zenon DEF InStart, InStop
  <2> QED
    BY <2>4, <2>5, Zenon
<1>10. ASSUME NEW c \in Callers, StopPlugin(c, "unplugAll", "failed") PROVE GateInv'
  <2>1. startMu = c /\ Holding(c) /\ pc[c] = "unplugAll"
    BY <1>10, Zenon DEF StopPlugin, GateInv, GateMutex, InStart, InStop
  <2>2. /\ at \in 0..Len(Plugins) /\ running \subseteq Plugged(at)
        /\ serving = {} /\ started = FALSE
    BY <2>1, Zenon DEF Holding
  <2>3. UNCHANGED <<order, started, serving, live, admin, late>>
    BY <1>10, Zenon DEF StopPlugin
  <2>4. CASE at = 0
    <3>1. running = {}
      BY <2>2, <2>4, PluggedFacts, Zenon
    <3>2. /\ startMu' = Nobody /\ pc'[c] = "failed" /\ UNCHANGED running
          /\ \A d \in Callers \ {c} : pc'[d] = pc[d]
      BY <1>10, <2>4, Zenon DEF StopPlugin, Return, Goto
    <3>3. admin = FALSE
      BY <2>1, Zenon DEF Holding, InStart
    <3>4. serving' \subseteq Served(Len(order))' /\ ReadyMeansServing' /\ NothingLeftBehind'
      BY <2>2, <2>3, <3>1, <3>2, <3>3, Zenon DEF ReadyMeansServing, NothingLeftBehind
    <3>. QED BY <1>0, <2>1, <2>3, <3>2, <3>4, GateReleases, Zenon DEF InStart, InStop
  <2>5. CASE at # 0
    <3>1. /\ startMu' = c /\ UNCHANGED pc
          /\ running' = running \ {Plugins[at]} /\ at' = at - 1
      BY <1>10, <2>1, <2>5, Zenon DEF StopPlugin
    <3>2. at \in Nat \ {0} /\ at' \in 0..Len(Plugins)
      BY <2>2, <2>5, <3>1
    <3>3. running' \subseteq Plugged(at')
      BY <2>2, <3>1, <3>2, PluggedFacts, Zenon
    <3>4. Holding(c)'
      BY <2>1, <2>3, <3>1, <3>2, <3>3, Zenon DEF Holding, InStart, Plugged
    <3>5. serving' \subseteq Served(Len(order))'
      BY <2>2, <2>3, Zenon DEF Served
    <3>. QED BY <1>0, <2>1, <2>3, <3>1, <3>4, <3>5, GateKeeps, Zenon DEF InStart, InStop
  <2> QED
    BY <2>4, <2>5, Zenon
<1>11. ASSUME NEW c \in Callers, StopPlugin(c, "stopAll", "adminStop") PROVE GateInv'
  <2>1. startMu = c /\ Holding(c) /\ pc[c] = "stopAll"
    BY <1>11, Zenon DEF StopPlugin, GateInv, GateMutex, InStart, InStop
  <2>2. /\ at \in 0..Len(Plugins) /\ running \subseteq Plugged(at)
        /\ serving = {} /\ started = FALSE
    BY <2>1, Zenon DEF Holding
  <2>3. UNCHANGED <<order, started, serving, live, admin, late>>
    BY <1>11, Zenon DEF StopPlugin
  <2>4. CASE at = 0
    <3>1. running = {}
      BY <2>2, <2>4, PluggedFacts, Zenon
    <3>2. /\ startMu' = c /\ pc'[c] = "adminStop" /\ UNCHANGED running
          /\ \A d \in Callers \ {c} : pc'[d] = pc[d]
      BY <1>11, <2>1, <2>4, Zenon DEF StopPlugin, Goto
    <3>3. Holding(c)'
      BY <2>1, <2>2, <2>3, <3>1, <3>2, Zenon DEF Holding, InStart
    <3>4. serving' \subseteq Served(Len(order))'
      BY <2>2, <2>3, Zenon DEF Served
    <3>. QED BY <1>0, <2>1, <2>3, <3>2, <3>3, <3>4, GateKeeps, Zenon DEF InStart, InStop
  <2>5. CASE at # 0
    <3>1. /\ startMu' = c /\ UNCHANGED pc
          /\ running' = running \ {Plugins[at]} /\ at' = at - 1
      BY <1>11, <2>1, <2>5, Zenon DEF StopPlugin
    <3>2. at \in Nat \ {0} /\ at' \in 0..Len(Plugins)
      BY <2>2, <2>5, <3>1
    <3>3. running' \subseteq Plugged(at')
      BY <2>2, <3>1, <3>2, PluggedFacts, Zenon
    <3>4. Holding(c)'
      BY <2>1, <2>3, <3>1, <3>2, <3>3, Zenon DEF Holding, InStart, Plugged
    <3>5. serving' \subseteq Served(Len(order))'
      BY <2>2, <2>3, Zenon DEF Served
    <3>. QED BY <1>0, <2>1, <2>3, <3>1, <3>4, <3>5, GateKeeps, Zenon DEF InStart, InStop
  <2> QED
    BY <2>4, <2>5, Zenon
<1>1. ASSUME NEW c \in Callers, Register(c) PROVE GateInv'
  <2>1. /\ startMu = Nobody /\ GateMutex /\ ReadyMeansServing /\ NothingLeftBehind
        /\ \A d \in Callers : pc[d] \notin InStart \cup InStop
    BY <1>1, Zenon DEF GateInv, GateMutex, Register
  <2>2. GateMutex' /\ startMu' = Nobody
    BY <1>1, <2>1 DEF GateMutex, Register, Goto, InStart, InStop
  <2>3. CASE UNCHANGED order
    <3>1. ReadyMeansServing' /\ NothingLeftBehind' /\ serving' \subseteq Served(Len(order))'
      BY <1>1, <2>1, <2>3, Zenon DEF Register, envVars, ReadyMeansServing, NothingLeftBehind, Range, Served
    <3> QED
      BY <1>0, <2>2, <3>1, Zenon DEF GateInv
  <2>4. CASE ~started
    <3>1. serving' = {} /\ running' = {} /\ ~admin' /\ ~started'
      BY <1>1, <2>1, <2>4, Zenon DEF Register, envVars, NothingLeftBehind
    <3> QED
      BY <1>0, <2>2, <3>1, Zenon DEF GateInv, ReadyMeansServing, NothingLeftBehind
  <2> QED
    BY <1>1, <2>3, <2>4, Zenon DEF Register
<1>2. ASSUME NEW c \in Callers, Start(c) PROVE GateInv'
  <2>1. /\ startMu = Nobody /\ GateMutex /\ ReadyMeansServing /\ NothingLeftBehind
        /\ \A d \in Callers : pc[d] \notin InStart \cup InStop
    BY <1>2, Zenon DEF GateInv, GateMutex, Start
  <2>2. CASE UNCHANGED startMu
    <3>1. GateMutex'
      BY <1>2, <2>1, <2>2, Zenon DEF GateMutex, Start, Goto, InStart, InStop
    <3>2. ReadyMeansServing' /\ NothingLeftBehind' /\ serving' \subseteq Served(Len(order))'
      BY <1>2, <2>1, <2>2, Zenon DEF Start, envVars, ReadyMeansServing, NothingLeftBehind, Range, Served
    <3> QED
      BY <1>0, <2>1, <2>2, <3>1, <3>2, Zenon DEF GateInv
  <2>3. CASE pc' = [pc EXCEPT ![c] = "plugins"] /\ startMu' = c /\ at' = 1 /\ ~started
    <3>1. serving' = {} /\ running' = {} /\ admin' = FALSE /\ started' = FALSE
      BY <1>2, <2>1, <2>3 DEF Start, envVars, NothingLeftBehind
    <3>2. Holding(c)'
      BY <2>3, <3>1 DEF Holding, Plugged
    <3>3. GateMutex'
      BY <2>1, <2>3, Zenon DEF GateMutex, InStart, InStop
    <3> QED
      BY <1>0, <2>3, <3>1, <3>2, <3>3, Zenon DEF GateInv, ReadyMeansServing, NothingLeftBehind
  <2> QED
    BY <1>2, <2>2, <2>3, Zenon DEF Start, Goto
<1>3. ASSUME NEW c \in Callers, Stop(c) PROVE GateInv'
  <2>1. /\ startMu = Nobody /\ GateMutex /\ ReadyMeansServing /\ NothingLeftBehind
        /\ \A d \in Callers : pc[d] \notin InStart \cup InStop
    BY <1>3, Zenon DEF GateInv, GateMutex, Stop
  <2>2. pc' = [pc EXCEPT ![c] = "stopAccept"] /\ startMu' = c /\ at' = 1
        /\ started' = FALSE /\ UNCHANGED <<order, serving>>
    BY <1>3, Zenon DEF Stop, Goto, envVars
  <2>3. Holding(c)'
    BY <2>2 DEF Holding, InStart
  <2>4. GateMutex'
    BY <2>1, <2>2, Zenon DEF GateMutex, InStart, InStop
  <2>5. serving' \subseteq Served(Len(order))'
    BY <2>2, Zenon DEF Served
  <2> QED
    BY <1>0, <2>2, <2>3, <2>4, <2>5, Zenon DEF GateInv, ReadyMeansServing, NothingLeftBehind
<1>4. ASSUME NEW c \in Callers, Call(c) PROVE GateInv'
  <2>1. /\ \A d \in Callers \ {c} : pc'[d] = pc[d]
        /\ pc[c] \notin InStart \cup InStop /\ pc'[c] \notin InStart \cup InStop
    BY <1>4, Zenon DEF Call, Goto, Waiting, InStart, InStop
  <2>2. UNCHANGED <<order, started, startMu, at, serving, live, running, admin, late>>
    BY <1>4, Zenon DEF Call, envVars
  <2>3. GateMutex'
    BY <2>1, <2>2, Zenon DEF GateInv, GateMutex
  <2>4. \A d \in Callers : startMu' = d => Holding(d)'
    <3>1. ASSUME NEW d \in Callers, startMu' = d PROVE Holding(d)'
      <4>1. d # c /\ Holding(d)
        BY <2>1, <2>2, <3>1, Zenon DEF GateInv, GateMutex
      <4>2. pc'[d] = pc[d]
        BY <2>1, <4>1, Zenon
      <4> QED
        BY <2>2, <4>1, <4>2 DEF Holding, Served
    <3> QED
      BY <3>1, Zenon
  <2> QED
    BY <1>0, <2>2, <2>3, <2>4, Zenon DEF GateInv, Served, ReadyMeansServing, NothingLeftBehind, Range
<1>12. ASSUME NEW c \in Callers, StopAccept(c) PROVE GateInv'
  <2>1. startMu = c /\ Holding(c) /\ pc[c] = "stopAccept"
    BY <1>12, Zenon DEF StopAccept, GateInv, GateMutex, InStart, InStop
  <2>2. at \in 1..(Len(order) + 1) /\ started = FALSE
    BY <2>1, Zenon DEF Holding
  <2>3. UNCHANGED <<order, started, startMu, live, running, admin, late>>
    BY <1>12, Zenon DEF StopAccept, envVars
  <2>4. /\ pc'[c] = "stopAccept" /\ \A d \in Callers \ {c} : pc'[d] = pc[d]
        /\ at <= Len(order) /\ at' = at + 1 /\ serving' \subseteq serving
    BY <1>12, <2>1, Zenon DEF StopAccept, Goto
  <2>5. at' \in 1..(Len(order) + 1)
    BY <2>2, <2>3, <2>4
  <2>6. Holding(c)'
    BY <2>1, <2>2, <2>3, <2>4, <2>5, Zenon DEF Holding, InStart
  <2>7. serving' \subseteq Served(Len(order))'
    BY <2>2, <2>3, <2>4, <2>5, Zenon DEF Served
  <2>. QED BY <1>0, <2>1, <2>3, <2>4, <2>6, <2>7, GateKeeps, Zenon DEF InStart, InStop
<1>13. ASSUME NEW c \in Callers, Stage(c, "stopAccept", "drain") PROVE GateInv'
  <2>1. startMu = c /\ Holding(c) /\ pc[c] = "stopAccept"
    BY <1>13, Zenon DEF Stage, GateInv, GateMutex, InStart, InStop
  <2>2. at \in 1..(Len(order) + 1) /\ started = FALSE
    BY <2>1, Zenon DEF Holding
  <2>3. UNCHANGED <<order, started, startMu, serving, live, running, admin, late>>
    BY <1>13, Zenon DEF Stage, envVars
  <2>4. /\ pc'[c] = "drain" /\ \A d \in Callers \ {c} : pc'[d] = pc[d]
        /\ at' = 1
    BY <1>13, <2>1, Zenon DEF Stage, Goto
  <2>5. 1 \in 1..(Len(order) + 1)
    OBVIOUS
  <2>6. Holding(c)'
    BY <2>1, <2>2, <2>3, <2>4, <2>5, Zenon DEF Holding, InStart
  <2>7. serving' \subseteq Served(Len(order))'
    BY <2>2, <2>3, <2>4, <2>5, Zenon DEF Served
  <2>. QED BY <1>0, <2>1, <2>3, <2>4, <2>6, <2>7, GateKeeps, Zenon DEF InStart, InStop
<1>14. ASSUME NEW c \in Callers, Drain(c) PROVE GateInv'
  <2>1. startMu = c /\ Holding(c) /\ pc[c] = "drain"
    BY <1>14, Zenon DEF Drain, GateInv, GateMutex, InStart, InStop
  <2>2. at \in 1..(Len(order) + 1) /\ started = FALSE
    BY <2>1, Zenon DEF Holding
  <2>3. UNCHANGED <<order, started, startMu, serving, live, running, admin, late>>
    BY <1>14, Zenon DEF Drain, envVars
  <2>4. /\ pc'[c] = "drain" /\ \A d \in Callers \ {c} : pc'[d] = pc[d]
        /\ at <= Len(order) /\ at' = at + 1
    BY <1>14, <2>1, Zenon DEF Drain, Goto
  <2>5. at' \in 1..(Len(order) + 1)
    BY <2>2, <2>3, <2>4
  <2>6. Holding(c)'
    BY <2>1, <2>2, <2>3, <2>4, <2>5, Zenon DEF Holding, InStart
  <2>7. serving' \subseteq Served(Len(order))'
    BY <2>2, <2>3, <2>4, <2>5, Zenon DEF Served
  <2>. QED BY <1>0, <2>1, <2>3, <2>4, <2>6, <2>7, GateKeeps, Zenon DEF InStart, InStop
<1>15. ASSUME NEW c \in Callers, Stage(c, "drain", "closeSessions") PROVE GateInv'
  <2>1. startMu = c /\ Holding(c) /\ pc[c] = "drain"
    BY <1>15, Zenon DEF Stage, GateInv, GateMutex, InStart, InStop
  <2>2. at \in 1..(Len(order) + 1) /\ started = FALSE
    BY <2>1, Zenon DEF Holding
  <2>3. UNCHANGED <<order, started, startMu, serving, live, running, admin, late>>
    BY <1>15, Zenon DEF Stage, envVars
  <2>4. /\ pc'[c] = "closeSessions" /\ \A d \in Callers \ {c} : pc'[d] = pc[d]
        /\ at' = 1
    BY <1>15, <2>1, Zenon DEF Stage, Goto
  <2>5. /\ 1 \in 1..(Len(order) + 1)
        /\ serving \subseteq {order[i] : i \in 1..Len(order)}
    <3>1. 1 \in 1..(Len(order) + 1)
      OBVIOUS
    <3>. QED BY <3>1, Zenon DEF Served
  <2>6. Holding(c)'
    BY <2>1, <2>2, <2>3, <2>4, <2>5, Zenon DEF Holding, InStart
  <2>7. serving' \subseteq Served(Len(order))'
    BY <2>2, <2>3, <2>4, <2>5, Zenon DEF Served
  <2>. QED BY <1>0, <2>1, <2>3, <2>4, <2>6, <2>7, GateKeeps, Zenon DEF InStart, InStop
<1>16. ASSUME NEW c \in Callers, CloseSessions(c) PROVE GateInv'
  <2>1. startMu = c /\ Holding(c) /\ pc[c] = "closeSessions"
    BY <1>16, Zenon DEF CloseSessions, GateInv, GateMutex, InStart, InStop
  <2>2. at \in 1..(Len(order) + 1) /\ started = FALSE /\ serving \subseteq {order[i] : i \in at..Len(order)}
    BY <2>1, Zenon DEF Holding
  <2>3. UNCHANGED <<order, started, startMu, running, admin>>
    BY <1>16, Zenon DEF CloseSessions, envVars
  <2>4. /\ pc'[c] = "closeSessions" /\ \A d \in Callers \ {c} : pc'[d] = pc[d]
        /\ at <= Len(order) /\ at' = at + 1 /\ serving' = serving \ {order[at]}
    BY <1>16, <2>1, Zenon DEF CloseSessions, Goto
  <2>5. at' \in 1..(Len(order) + 1) /\ serving' \subseteq {order[i] : i \in at'..Len(order)}
    <3>1. at' \in 1..(Len(order) + 1)
      BY <2>2, <2>4
    <3>2. {order[i] : i \in at..Len(order)} \ {order[at]} \subseteq {order[i] : i \in (at + 1)..Len(order)}
      BY <2>2
    <3>. QED BY <2>2, <2>4, <3>1, <3>2, Zenon
  <2>6. Holding(c)'
    BY <2>1, <2>2, <2>3, <2>4, <2>5, Zenon DEF Holding, InStart
  <2>7. serving' \subseteq Served(Len(order))'
    BY <2>2, <2>3, <2>4, <2>5, Zenon DEF Served
  <2>. QED BY <1>0, <2>1, <2>3, <2>4, <2>6, <2>7, GateKeeps, Zenon DEF InStart, InStop
<1>17. ASSUME NEW c \in Callers, Stage(c, "closeSessions", "closeAll") PROVE GateInv'
  <2>1. startMu = c /\ Holding(c) /\ pc[c] = "closeSessions"
    BY <1>17, Zenon DEF Stage, GateInv, GateMutex, InStart, InStop
  <2>2. at \in 1..(Len(order) + 1) /\ started = FALSE /\ serving \subseteq {order[i] : i \in at..Len(order)}
    BY <2>1, Zenon DEF Holding
  <2>3. UNCHANGED <<order, started, startMu, serving, live, running, admin, late>>
    BY <1>17, Zenon DEF Stage, envVars
  <2>4. /\ pc'[c] = "closeAll" /\ \A d \in Callers \ {c} : pc'[d] = pc[d]
        /\ at > Len(order) /\ at' = 1
    BY <1>17, <2>1, Zenon DEF Stage, Goto
  <2>5. serving' = {}
    <3>1. at..Len(order) = {}
      BY <2>2, <2>4
    <3>2. serving = {}
      BY <2>2, <3>1, Zenon
    <3>. QED BY <2>3, <3>2, Zenon
  <2>6. Holding(c)'
    BY <2>1, <2>2, <2>3, <2>4, <2>5, Zenon DEF Holding, InStart
  <2>7. serving' \subseteq Served(Len(order))'
    BY <2>2, <2>3, <2>4, <2>5, Zenon DEF Served
  <2>. QED BY <1>0, <2>1, <2>3, <2>4, <2>6, <2>7, GateKeeps, Zenon DEF InStart, InStop
<1>18. ASSUME NEW c \in Callers, CloseAll(c) PROVE GateInv'
  <2>1. startMu = c /\ Holding(c) /\ pc[c] = "closeAll"
    BY <1>18, Zenon DEF CloseAll, GateInv, GateMutex, InStart, InStop
  <2>2. serving = {} /\ started = FALSE
    BY <2>1, Zenon DEF Holding
  <2>3. UNCHANGED <<order, started, startMu, serving, running, admin>>
    BY <1>18, Zenon DEF CloseAll, envVars
  <2>4. /\ pc'[c] = "stopAll" /\ \A d \in Callers \ {c} : pc'[d] = pc[d]
        /\ at' = Len(Plugins) /\ (live' = {} \/ late' = TRUE)
    BY <1>18, <2>1, Zenon DEF CloseAll, Goto
  <2>5. Len(Plugins) \in 0..Len(Plugins)
    BY PluggedRange
  <2>6. Holding(c)'
    BY <2>1, <2>2, <2>3, <2>4, <2>5, Zenon DEF Holding, InStart, Plugged
  <2>7. serving' \subseteq Served(Len(order))'
    BY <2>2, <2>3, <2>4, <2>5, Zenon DEF Served
  <2>. QED BY <1>0, <2>1, <2>3, <2>4, <2>6, <2>7, GateKeeps, Zenon DEF InStart, InStop
<1>19. ASSUME NEW c \in Callers, StopAdmin(c) PROVE GateInv'
  <2>1. startMu = c /\ Holding(c) /\ pc[c] = "adminStop"
    BY <1>19, Zenon DEF StopAdmin, GateInv, GateMutex, InStart, InStop
  <2> USE <1>19, <1>0, <2>1 DEF StopAdmin, Goto, Return
  <2>2. /\ startMu' = Nobody /\ pc'[c] = "ok" /\ order' = order
          /\ \A d \in Callers \ {c} : pc'[d] = pc[d]
    BY Zenon
  <2>3. serving' \subseteq Served(Len(order))' /\ ReadyMeansServing' /\ NothingLeftBehind'
    BY <2>2, Zenon DEF Holding, InStart, ReadyMeansServing, NothingLeftBehind, Plugged, Served, Range
  <2> HIDE <1>19 DEF StopAdmin
  <2> QED
    BY <2>2, <2>3, GateReleases, Zenon DEF InStart, InStop
<1>20. ASSUME NEW s \in Servers, Connect(s) PROVE GateInv'
  <2>1. UNCHANGED <<order, started, startMu, pc, at, serving, running, admin, late>> /\ serving # {}
    BY <1>20, Zenon DEF Connect
  <2>2. GateMutex'
    BY <2>1, Zenon DEF GateInv, GateMutex
  <2>3. ASSUME NEW d \in Callers, startMu' = d PROVE Holding(d)'
    <3>1. Holding(d)
      BY <2>1, <2>3, Zenon DEF GateInv
    <3> QED
      BY <2>1, <3>1, HoldingKept, Zenon
  <2> QED
    BY <1>0, <2>1, <2>2, <2>3, Zenon DEF GateInv, Served, ReadyMeansServing, NothingLeftBehind, Range
<1>21. CASE UNCHANGED vars
  <2>1. GateMutex' /\ serving' \subseteq Served(Len(order))' /\ ReadyMeansServing' /\ NothingLeftBehind'
    BY <1>21, Zenon DEF vars, GateInv, GateMutex, Served, ReadyMeansServing, NothingLeftBehind, Range
  <2>2. ASSUME NEW d \in Callers, startMu' = d PROVE Holding(d)'
    <3>1. Holding(d)
      BY <1>21, <2>2, Zenon DEF vars, GateInv
    <3> QED
      BY <1>21, <3>1, HoldingKept, Zenon DEF vars
  <2> QED
    BY <1>0, <2>1, <2>2, Zenon DEF GateInv
<1> QED
  BY <1>1, <1>2, <1>3, <1>4, <1>5, <1>6, <1>7, <1>8, <1>9, <1>10, <1>11, <1>12, <1>13, <1>14,
     <1>15, <1>16, <1>17, <1>18, <1>19, <1>20, <1>21, Zenon
     DEF Next, Finished, vars, Working, Locking

(* Whatever Register, Start and Stop do from any number of goroutines, the   *)
(* gateway reports ready only while every server serves, leaves nothing      *)
(* running after Stop or a failed Start, and stops no plugin while a session *)
(* may still call it.                                                        *)
THEOREM GatewayWholeHolds == Spec => []GatewayWhole
<1>1. GateInv => GatewayWhole
  BY GateOutlive, Zenon DEF GateInv, GatewayWhole
<1> QED
  BY <1>1, GateInit, GateStep, PTL DEF Spec

-----------------------------------------------------------------------------
(* Facts about the steps of PoolCore that every pool built on it uses: each *)
(* step keeps the types and keeps every accepted task in exactly one place.  *)

(* What is in a queue after a send ... *)
LEMMA AppendFacts ==
  ASSUME NEW S, NEW q \in Seq(S), NEW x \in S
  PROVE  /\ Append(q, x) \in Seq(S)
         /\ Len(Append(q, x)) = Len(q) + 1
         /\ \A i \in 1..Len(q) : Append(q, x)[i] = q[i]
         /\ Append(q, x)[Len(q) + 1] = x
  OBVIOUS

(* ... and after a receive. *)
LEMMA TailFacts ==
  ASSUME NEW S, NEW q \in Seq(S), q # <<>>
  PROVE  /\ Tail(q) \in Seq(S)
         /\ Len(Tail(q)) = Len(q) - 1
         /\ Len(q) \in Nat \ {0}
         /\ \A i \in 1..Len(Tail(q)) : Tail(q)[i] = q[i + 1]
         /\ Head(q) = q[1]
         /\ Head(q) \in S
  OBVIOUS

(* The initial state of a pool holds no task anywhere. *)
LEMMA CoreInitOnce ==
  ASSUME CoreInit
  PROVE  CoreTypeOK /\ EachTaskOnce
<1>1. /\ queue = <<>>
      /\ Len(queue) = 0
      /\ queue \in Seq(Tasks)
      /\ Len(queue) <= QueueCap
  BY QueueCapAssumption DEF CoreInit
<1>2. CoreTypeOK
  BY <1>1, Zenon DEF CoreInit, CoreTypeOK, SubmitStates, ActorStates
<1>3. \A t \in Tasks : ~InQueue(t) /\ ~InHand(t) /\ ~Accepted(t) /\ handled[t] = 0
  BY <1>1, NoTaskAssumption DEF CoreInit, InQueue, InHand, Accepted
<1>4. \A a \in Actors : hand[a] = NoTask
  BY Zenon DEF CoreInit
<1>. QED BY <1>1, <1>2, <1>3, <1>4 DEF EachTaskOnce

(* Enqueueing puts a task in exactly one place. *)
LEMMA EnqueueOnce ==
  ASSUME CoreTypeOK, EachTaskOnce, NEW t \in Tasks, SubmitEnqueue(t)
  PROVE  CoreTypeOK' /\ EachTaskOnce'
<1>. DEFINE q == queue
            n == Len(queue)
<1>1. /\ n \in Nat
      /\ queue' = Append(q, t)
      /\ queue' \in Seq(Tasks)
      /\ Len(queue') = n + 1
      /\ \A i \in 1..n : queue'[i] = q[i]
      /\ queue'[n + 1] = t
      /\ \A i \in 1..n : q[i] \in Tasks
  BY AppendFacts DEF CoreTypeOK, SubmitEnqueue
<1>2. CoreTypeOK'
  BY <1>1, QueueCapAssumption DEF CoreTypeOK, SubmitEnqueue, SubmitStates, Results
<1>3. ~InQueue(t) /\ ~InHand(t) /\ handled[t] # 1
  BY Zenon DEF EachTaskOnce, SubmitEnqueue, Accepted
<1>4. \A u \in Tasks : InQueue(u)' <=> InQueue(u) \/ u = t
  <2>. TAKE u \in Tasks
  <2>1. InQueue(u) => InQueue(u)'
    BY <1>1 DEF InQueue
  <2>2. u = t => InQueue(u)'
    BY <1>1 DEF InQueue
  <2>3. InQueue(u)' => InQueue(u) \/ u = t
    BY <1>1 DEF InQueue
  <2>. QED BY <2>1, <2>2, <2>3, Zenon
<1>5. \A u \in Tasks : InHand(u)' <=> InHand(u)
  BY Zenon DEF InHand, SubmitEnqueue
<1>6. \A u \in Tasks : Accepted(u)' <=> Accepted(u) \/ u = t
  BY Zenon DEF Accepted, SubmitEnqueue, CoreTypeOK
<1>7. \A i, j \in 1..Len(queue') : queue'[i] = queue'[j] => i = j
  <2>. SUFFICES ASSUME NEW i \in 1..(n + 1), NEW j \in 1..(n + 1),
                       queue'[i] = queue'[j]
                PROVE  i = j
    BY <1>1, Zenon
  <2>1. CASE i \in 1..n /\ j \in 1..n
    BY <2>1, <1>1, Zenon DEF EachTaskOnce
  <2>2. CASE i = n + 1 /\ j \in 1..n
    BY <2>2, <1>1, <1>3, Zenon DEF InQueue
  <2>3. CASE j = n + 1 /\ i \in 1..n
    BY <2>3, <1>1, <1>3, Zenon DEF InQueue
  <2>. QED BY <2>1, <2>2, <2>3, <1>1
<1>8. handled' = handled /\ hand' = hand
  BY Zenon DEF SubmitEnqueue
<1>. QED
  BY <1>2, <1>3, <1>4, <1>5, <1>6, <1>7, <1>8, Zenon DEF EachTaskOnce

(* Receiving moves a task from the queue into one goroutine's hands. *)
LEMMA TakeOnce ==
  ASSUME CoreTypeOK, EachTaskOnce, NEW a \in Actors, TakeTask(a)
  PROVE  CoreTypeOK' /\ EachTaskOnce'
<1>. DEFINE n == Len(queue)
            h == Head(queue)
<1>1. /\ n \in Nat \ {0}
      /\ h \in Tasks
      /\ h = queue[1]
      /\ queue' \in Seq(Tasks)
      /\ Len(queue') = n - 1
      /\ \A i \in 1..(n - 1) : queue'[i] = queue[i + 1]
      /\ \A i \in 1..n : queue[i] \in Tasks
  BY TailFacts DEF CoreTypeOK, TakeTask
<1>2. hand' = [hand EXCEPT ![a] = h] /\ hand[a] = NoTask /\ h # NoTask
  BY <1>1, NoTaskAssumption, Zenon DEF TakeTask
<1>3. CoreTypeOK'
  BY <1>1, <1>2, QueueCapAssumption DEF CoreTypeOK, TakeTask
<1>4. InQueue(h) /\ ~InHand(h) /\ handled[h] # 1 /\ Accepted(h)
  <2>1. InQueue(h)
    BY <1>1 DEF InQueue
  <2>. QED BY <2>1, <1>1, Zenon DEF EachTaskOnce
<1>5. \A u \in Tasks : InQueue(u)' <=> InQueue(u) /\ u # h
  <2>. TAKE u \in Tasks
  <2>1. ASSUME InQueue(u)' PROVE InQueue(u) /\ u # h
    <3>1. PICK i \in 1..(n - 1) : queue'[i] = u
      BY <2>1, <1>1, Zenon DEF InQueue
    <3>2. i + 1 \in 1..n /\ queue[i + 1] = u /\ i + 1 # 1 /\ 1 \in 1..n
      BY <3>1, <1>1
    <3>. QED BY <3>2, <1>1 DEF InQueue, EachTaskOnce
  <2>2. ASSUME InQueue(u), u # h PROVE InQueue(u)'
    <3>1. PICK i \in 1..n : queue[i] = u
      BY <2>2, Zenon DEF InQueue
    <3>2. i - 1 \in 1..(n - 1) /\ queue'[i - 1] = u
      BY <3>1, <2>2, <1>1
    <3>. QED BY <3>2, <1>1, Zenon DEF InQueue
  <2>. QED BY <2>1, <2>2, Zenon
<1>6. \A u \in Tasks : InHand(u)' <=> InHand(u) \/ u = h
  BY <1>2, NoTaskAssumption, Zenon DEF InHand, CoreTypeOK
<1>7. \A u \in Tasks : Accepted(u)' <=> Accepted(u)
  BY Zenon DEF Accepted, TakeTask
<1>8. \A i, j \in 1..Len(queue') : queue'[i] = queue'[j] => i = j
  <2>. SUFFICES ASSUME NEW i \in 1..(n - 1), NEW j \in 1..(n - 1),
                       queue'[i] = queue'[j]
                PROVE  i = j
    BY <1>1, Zenon
  <2>1. i + 1 \in 1..n /\ j + 1 \in 1..n /\ queue[i + 1] = queue[j + 1]
    BY <1>1
  <2>. QED BY <2>1 DEF EachTaskOnce
<1>9. \A b, c \in Actors : hand'[b] = hand'[c] /\ hand'[b] # NoTask => b = c
  BY <1>2, <1>4 DEF InHand, EachTaskOnce, CoreTypeOK
<1>10. handled' = handled
  BY Zenon DEF TakeTask
<1>. QED
  BY <1>3, <1>4, <1>5, <1>6, <1>7, <1>8, <1>9, <1>10, Zenon DEF EachTaskOnce

(* Running the handler moves a task from a goroutine's hands to handled. *)
LEMMA HandleOnce ==
  ASSUME CoreTypeOK, EachTaskOnce, NEW a \in Actors, Handle(a)
  PROVE  CoreTypeOK' /\ EachTaskOnce'
<1>. DEFINE h == hand[a]
<1>1. h \in Tasks /\ h # NoTask /\ InHand(h)
  BY Zenon DEF Handle, CoreTypeOK, InHand
<1>2. handled[h] = 0 /\ ~InQueue(h) /\ Accepted(h)
  <2>1. handled[h] \in Nat /\ handled[h] <= 1 /\ handled[h] # 1
    BY <1>1, Zenon DEF EachTaskOnce, CoreTypeOK
  <2>2. handled[h] = 0
    BY <2>1
  <2>. QED BY <1>1, <2>2, Zenon DEF EachTaskOnce
<1>3. /\ hand' = [hand EXCEPT ![a] = NoTask]
      /\ handled' = [handled EXCEPT ![h] = 1]
      /\ queue' = queue
      /\ spc' = spc
  <2>1. /\ hand' = [hand EXCEPT ![a] = NoTask] /\ queue' = queue /\ spc' = spc
        /\ handled' = [handled EXCEPT ![h] = handled[h] + 1]
    BY Zenon DEF Handle
  <2>2. handled[h] + 1 = 1
    BY <1>2
  <2>. QED BY <2>1, <2>2, Zenon
<1>4. gone' \in SUBSET Sessions
  <2>1. Owner[h] \in Sessions /\ gone \in SUBSET Sessions
    BY <1>1, OwnerAssumption, Zenon DEF CoreTypeOK
  <2>2. gone' = gone \/ gone' = gone \cup {Owner[h]}
    BY Zenon DEF Handle
  <2>. QED BY <2>1, <2>2, Zenon
<1>5. CoreTypeOK'
  <2>1. hand' \in [Actors -> Tasks \cup {NoTask}]
    BY <1>3, Zenon DEF CoreTypeOK
  <2>2. handled \in [Tasks -> Nat] /\ 1 \in Nat
    BY Zenon DEF CoreTypeOK
  <2>3. handled' \in [Tasks -> Nat]
    BY <1>3, <2>2, Zenon
  <2>. QED BY <1>4, <2>1, <2>3, Zenon DEF Handle, CoreTypeOK
<1>6. \A u \in Tasks : InHand(u)' <=> InHand(u) /\ u # h
  <2>. TAKE u \in Tasks
  <2>1. ASSUME InHand(u)' PROVE InHand(u) /\ u # h
    <3>1. PICK b \in Actors : hand'[b] = u
      BY <2>1, Zenon DEF InHand
    <3>2. b # a /\ hand[b] = u
      BY <1>3, <3>1, NoTaskAssumption, Zenon DEF CoreTypeOK
    <3>. QED BY <1>1, <3>2, Zenon DEF InHand, EachTaskOnce
  <2>2. ASSUME InHand(u), u # h PROVE InHand(u)'
    <3>1. PICK b \in Actors : hand[b] = u
      BY <2>2, Zenon DEF InHand
    <3>2. hand'[b] = u
      BY <1>3, <2>2, <3>1, Zenon DEF CoreTypeOK
    <3>. QED BY <3>2, Zenon DEF InHand
  <2>. QED BY <2>1, <2>2, Zenon
<1>7. \A u \in Tasks : InQueue(u)' <=> InQueue(u)
  BY <1>3, Zenon DEF InQueue
<1>8. \A u \in Tasks : Accepted(u)' <=> Accepted(u)
  BY <1>3, Zenon DEF Accepted
<1>9. \A u \in Tasks : handled'[u] = IF u = h THEN 1 ELSE handled[u]
  BY <1>1, <1>3, Zenon DEF CoreTypeOK
<1>10. \A b, c \in Actors : hand'[b] = hand'[c] /\ hand'[b] # NoTask => b = c
  BY <1>3, Zenon DEF EachTaskOnce, CoreTypeOK
<1>11. 1 <= 1
  OBVIOUS
<1>12. ASSUME NEW u \in Tasks
       PROVE  /\ handled'[u] <= 1
              /\ Accepted(u)' <=> InQueue(u)' \/ InHand(u)' \/ handled'[u] = 1
              /\ ~(InQueue(u)' /\ InHand(u)')
              /\ handled'[u] = 1 => ~InQueue(u)' /\ ~InHand(u)'
  <2>1. CASE u = h
    <3>1. handled'[u] = 1 /\ Accepted(u)' /\ ~InQueue(u)' /\ ~InHand(u)'
      BY <1>1, <1>2, <1>6, <1>7, <1>8, <1>9, <2>1, Zenon
    <3>. QED BY <1>11, <3>1, Zenon
  <2>2. CASE u # h
    <3>1. /\ handled'[u] = handled[u]
          /\ Accepted(u)' <=> Accepted(u)
          /\ InQueue(u)' <=> InQueue(u)
          /\ InHand(u)' <=> InHand(u)
      BY <1>6, <1>7, <1>8, <1>9, <2>2, Zenon
    <3>. QED BY <3>1, Zenon DEF EachTaskOnce
  <2>. QED BY <2>1, <2>2, Zenon
<1>13. \A i, j \in 1..Len(queue') : queue'[i] = queue'[j] => i = j
  BY <1>3, Zenon DEF EachTaskOnce
<1>. QED
  BY <1>5, <1>10, <1>12, <1>13, Zenon DEF EachTaskOnce

(* A step that moves no task: queue, hand and handled stay, and spc changes *)
(* only between values that are not "ok".                                   *)
LEMMA IdleOnce ==
  ASSUME EachTaskOnce, UNCHANGED <<queue, hand, handled>>,
         \A t \in Tasks : Accepted(t)' <=> Accepted(t)
  PROVE  EachTaskOnce'
<1>1. queue' = queue /\ hand' = hand /\ handled' = handled
  OBVIOUS
<1>2. \A t \in Tasks : (InQueue(t)' <=> InQueue(t)) /\ (InHand(t)' <=> InHand(t))
  BY <1>1, Zenon DEF InQueue, InHand
<1>. QED BY <1>1, <1>2, Zenon DEF EachTaskOnce

(* The submit steps that do not enqueue refuse the task or only take the     *)
(* read lock.                                                                *)
LEMMA RefuseOnce ==
  ASSUME CoreTypeOK, EachTaskOnce, NEW t \in Tasks,
         SubmitEnter(t) \/ SubmitFull(t) \/ SubmitAbort(t)
  PROVE  CoreTypeOK' /\ EachTaskOnce'
<1>1. CoreTypeOK'
  BY OwnerAssumption, Zenon DEF CoreTypeOK, SubmitEnter, SubmitFull, SubmitAbort, SubmitStates, Results
<1>2. UNCHANGED <<queue, hand, handled>>
  BY Zenon DEF SubmitEnter, SubmitFull, SubmitAbort
<1>3. \A u \in Tasks : Accepted(u)' <=> Accepted(u)
  BY Zenon DEF Accepted, SubmitEnter, SubmitFull, SubmitAbort, CoreTypeOK
<1>. QED BY <1>1, <1>2, <1>3, IdleOnce, Zenon

(* The steps of workers and Stop calls that only move a program counter. *)
LEMMA ControlOnce ==
  ASSUME CoreTypeOK, EachTaskOnce,
         UNCHANGED <<policy, queue, spc, hand, handled, gone>>,
         closed' \in BOOLEAN, done' \in BOOLEAN,
         apc' \in [Actors -> ActorStates]
  PROVE  CoreTypeOK' /\ EachTaskOnce'
<1>1. \A u \in Tasks : Accepted(u)' <=> Accepted(u)
  BY Zenon DEF Accepted
<1>2. CoreTypeOK'
  BY Zenon DEF CoreTypeOK
<1>. QED BY <1>1, <1>2, IdleOnce, Zenon

-----------------------------------------------------------------------------

AtGate(s) == apc[s] \in {"pending", "wait", "drain"}

(* Who may be where while Stop calls are under way: the write lock admits    *)
(* one of them, none while a submitter is inside; the sweep runs alone, after *)
(* every worker has exited; and a returned Stop leaves nothing behind.  This  *)
(* is what makes "the sweep cannot race a new enqueue" true.                  *)
StopProtocol ==
  /\ \A w \in Workers : apc[w] \in {"off", "run", "drain", "exited"}
  /\ \A s \in Stoppers :
       apc[s] \in {"off", "closing", "purge", "lock", "pending", "wait", "drain", "returned"}
  /\ \A w \in Workers : apc[w] \in {"off", "exited"} => hand[w] = NoTask
  /\ \A s \in Stoppers : apc[s] # "drain" => hand[s] = NoTask
  /\ \A r, s \in Stoppers : AtGate(r) /\ AtGate(s) => r = s
  /\ \A s \in Stoppers : apc[s] # "off" => closed
  /\ \A s \in Stoppers : apc[s] \in {"wait", "drain"} => ReadersInside = {}
  /\ \A s \in Stoppers : apc[s] \in {"drain", "returned"} =>
       \A w \in Workers : apc[w] \in {"off", "exited"}
  /\ StopReturned =>
       /\ queue = <<>>
       /\ ReadersInside = {}
       /\ \A a \in Actors : hand[a] = NoTask

(* The inductive invariant: the types, the fact the runs check, and the Stop *)
(* protocol it rests on.                                                     *)
PoolInv == CoreTypeOK /\ EachTaskOnce /\ StopProtocol

(* Workers start, while nobody has called Stop: all at once in Start, one at *)
(* a time in addWorker.                                                      *)
WorkersStart ==
  /\ \A s \in Stoppers : apc[s] = "off"
  /\ \E W \in SUBSET Workers :
       /\ \A w \in W : apc[w] = "off"
       /\ apc' = [a \in Actors |-> IF a \in W THEN "run" ELSE apc[a]]
  /\ UNCHANGED <<policy, queue, closed, done, spc, gone, hand, handled>>

(* A worker leaves because its retire channel is closed. *)
WorkerLeaves(w) ==
  /\ apc[w] = "run" /\ hand[w] = NoTask
  /\ apc' = [apc EXCEPT ![w] = "exited"]
  /\ UNCHANGED <<policy, queue, closed, done, spc, gone, hand, handled>>

(* Stop up to its turn at the write lock: beginClose, close(done), the purge *)
(* of the elastic pool.                                                      *)
StopBegins(s) ==
  \/ \E next \in {"lock", "purge"} : BeginClose(s, next) \/ CloseDone(s, next)
  \/ /\ apc[s] = "purge"
     /\ apc' = [apc EXCEPT ![s] = "lock"]
     /\ UNCHANGED <<policy, queue, closed, done, spc, gone, hand, handled>>

(* The steps of either pool, as its core sees them. *)
PoolStep ==
  \/ WorkersStart
  \/ \E t \in Tasks : SubmitEnter(t) \/ SubmitEnqueue(t) \/ SubmitFull(t) \/ SubmitAbort(t)
  \/ \E a \in Actors : TakeTask(a) \/ Handle(a)
  \/ \E w \in Workers : WorkerSeesDone(w) \/ DrainEnds(w) \/ WorkerLeaves(w)
  \/ \E s \in Stoppers : \/ StopBegins(s)
                         \/ LockPending(s)
                         \/ LockGranted(s)
                         \/ WaitWorkers(s)
                         \/ DrainEnds(s)
  \/ \E s \in Sessions : SessionEnds(s)

-----------------------------------------------------------------------------
(* After every step each accepted task is in one place. *)
LEMMA TasksStep ==
  ASSUME CoreTypeOK, EachTaskOnce, [PoolStep]_coreVars
  PROVE  CoreTypeOK' /\ EachTaskOnce'
<1>1. ASSUME NEW t \in Tasks, SubmitEnter(t) \/ SubmitEnqueue(t) \/ SubmitFull(t) \/ SubmitAbort(t)
      PROVE  CoreTypeOK' /\ EachTaskOnce'
  BY <1>1, EnqueueOnce, RefuseOnce, Zenon
<1>2. ASSUME NEW a \in Actors, TakeTask(a) \/ Handle(a)
      PROVE  CoreTypeOK' /\ EachTaskOnce'
  BY <1>2, TakeOnce, HandleOnce, Zenon
<1>3. CASE WorkersStart
  <2>1. apc' \in [Actors -> ActorStates]
    BY <1>3, Zenon DEF WorkersStart, ActorStates, CoreTypeOK
  <2>. QED BY <1>3, <2>1, ControlOnce, Zenon DEF WorkersStart, CoreTypeOK
<1>4. ASSUME NEW a \in Actors, WorkerSeesDone(a) \/ DrainEnds(a) \/ WorkerLeaves(a)
      PROVE  CoreTypeOK' /\ EachTaskOnce'
  <2>1. apc' \in [Actors -> ActorStates]
    BY <1>4, Zenon DEF WorkerSeesDone, DrainEnds, WorkerLeaves, ActorStates, CoreTypeOK
  <2>. QED BY <1>4, <2>1, ControlOnce, Zenon DEF WorkerSeesDone, DrainEnds, WorkerLeaves, CoreTypeOK
<1>5. ASSUME NEW s \in Stoppers,
             StopBegins(s) \/ LockPending(s) \/ LockGranted(s) \/ WaitWorkers(s)
      PROVE  CoreTypeOK' /\ EachTaskOnce'
  <2>1. apc' \in [Actors -> ActorStates]
    BY <1>5, Zenon DEF StopBegins, BeginClose, CloseDone, LockPending, LockGranted, WaitWorkers,
                ActorStates, CoreTypeOK
  <2>2. closed' \in BOOLEAN /\ done' \in BOOLEAN
    BY <1>5, Zenon DEF StopBegins, BeginClose, CloseDone, LockPending, LockGranted, WaitWorkers,
                CoreTypeOK
  <2>3. UNCHANGED <<policy, queue, spc, hand, handled, gone>>
    BY <1>5, Zenon DEF StopBegins, BeginClose, CloseDone, LockPending, LockGranted, WaitWorkers
  <2>. QED BY <2>1, <2>2, <2>3, ControlOnce, Zenon
<1>6. ASSUME NEW s \in Sessions, SessionEnds(s)
      PROVE  CoreTypeOK' /\ EachTaskOnce'
  <2>1. CoreTypeOK'
    BY <1>6, Zenon DEF SessionEnds, CoreTypeOK
  <2>. QED BY <1>6, <2>1, IdleOnce, Zenon DEF SessionEnds, Accepted
<1>7. CASE UNCHANGED coreVars
  <2>1. CoreTypeOK'
    BY <1>7, Zenon DEF coreVars, CoreTypeOK
  <2>. QED BY <1>7, <2>1, IdleOnce, Zenon DEF coreVars, Accepted
<1>8. Workers \subseteq Actors /\ Stoppers \subseteq Actors
  BY Zenon DEF Actors
<1>. QED
  BY <1>1, <1>2, <1>3, <1>4, <1>5, <1>6, <1>7, <1>8, Zenon DEF PoolStep

-----------------------------------------------------------------------------
(* The Stop protocol survives every step. *)
LEMMA ProtocolStep ==
  ASSUME CoreTypeOK, StopProtocol, [PoolStep]_coreVars
  PROVE  StopProtocol'
<1>. USE ActorsDisjoint DEF AtGate, StopReturned, Actors
<1>1. CASE WorkersStart
  <2>1. /\ UNCHANGED <<queue, hand, closed, spc>>
        /\ \A s \in Stoppers : apc'[s] = "off"
        /\ \A w \in Workers : apc'[w] = apc[w] \/ (apc[w] = "off" /\ apc'[w] = "run")
    BY <1>1, Zenon DEF WorkersStart, CoreTypeOK
  <2>2. /\ \A w \in Workers : apc'[w] \in {"off", "run", "drain", "exited"}
        /\ \A w \in Workers : apc'[w] \in {"off", "exited"} => hand'[w] = NoTask
    BY <2>1, Zenon DEF StopProtocol
  <2>3. \A s \in Stoppers : apc[s] = "off" /\ hand'[s] = NoTask
    BY <1>1, <2>1, Zenon DEF StopProtocol, WorkersStart
  <2>4. ~StopReturned' /\ \A s \in Stoppers : ~AtGate(s)'
    BY <2>1, Zenon
  <2>. QED BY <2>1, <2>2, <2>3, <2>4, Zenon DEF StopProtocol
<1>2. ASSUME NEW t \in Tasks, SubmitEnter(t)
      PROVE  StopProtocol'
  <2>1. \A s \in Stoppers : ~AtGate(s)
    BY <1>2, Zenon DEF SubmitEnter, WriterAtGate
  <2>2. StopReturned => ReadersInside' = ReadersInside
    BY <1>2, Zenon DEF SubmitEnter, StopProtocol, ReadersInside, CoreTypeOK
  <2>. QED BY <1>2, <2>1, <2>2, Zenon DEF SubmitEnter, StopProtocol
<1>3. ASSUME NEW t \in Tasks, SubmitEnqueue(t) \/ SubmitFull(t) \/ SubmitAbort(t)
      PROVE  StopProtocol'
  <2>1. t \in ReadersInside /\ ReadersInside' \subseteq ReadersInside
    BY <1>3, Zenon DEF SubmitEnqueue, SubmitFull, SubmitAbort, ReadersInside, CoreTypeOK
  <2>2. ~StopReturned
    BY <2>1, Zenon DEF StopProtocol
  <2>3. UNCHANGED <<apc, hand, closed>>
    BY <1>3, Zenon DEF SubmitEnqueue, SubmitFull, SubmitAbort
  <2>. QED BY <2>1, <2>2, <2>3, Zenon DEF StopProtocol
<1>4. ASSUME NEW a \in Actors, TakeTask(a)
      PROVE  StopProtocol'
  <2>1. ~StopReturned /\ ReadersInside' = ReadersInside
    BY <1>4, Zenon DEF TakeTask, StopProtocol, ReadersInside
  <2>2. \A b \in Actors : b # a => hand'[b] = hand[b]
    BY <1>4, Zenon DEF TakeTask, CoreTypeOK
  <2>3. apc' = apc /\ closed' = closed /\ apc[a] \in {"run", "drain"}
    BY <1>4, Zenon DEF TakeTask
  <2>. QED BY <2>1, <2>2, <2>3, Zenon DEF StopProtocol
<1>5. ASSUME NEW a \in Actors, Handle(a)
      PROVE  StopProtocol'
  <2>1. ~StopReturned /\ ReadersInside' = ReadersInside
    BY <1>5, Zenon DEF Handle, StopProtocol, ReadersInside
  <2>2. hand' = [hand EXCEPT ![a] = NoTask] /\ UNCHANGED <<apc, closed, queue>>
    BY <1>5, Zenon DEF Handle
  <2>. QED BY <2>1, <2>2, Zenon DEF StopProtocol, CoreTypeOK
<1>6. ASSUME NEW w \in Workers, WorkerSeesDone(w) \/ DrainEnds(w) \/ WorkerLeaves(w)
      PROVE  StopProtocol'
  <2>1. /\ UNCHANGED <<queue, hand, closed, spc>>
        /\ \A b \in Actors : b # w => apc'[b] = apc[b]
        /\ apc[w] \in {"run", "drain"}
        /\ apc'[w] \in {"drain", "exited"}
        /\ hand[w] = NoTask
    BY <1>6, Zenon DEF WorkerSeesDone, DrainEnds, WorkerLeaves, CoreTypeOK
  <2>2. \A s \in Stoppers : apc'[s] = apc[s] /\ apc[s] \notin {"drain", "returned"}
    BY <2>1, Zenon DEF StopProtocol
  <2>3. ReadersInside' = ReadersInside /\ ~StopReturned'
    BY <2>1, <2>2, Zenon DEF ReadersInside
  <2>4. /\ \A v \in Workers : apc'[v] \in {"off", "run", "drain", "exited"}
        /\ \A v \in Workers : apc'[v] \in {"off", "exited"} => hand'[v] = NoTask
    BY <2>1, Zenon DEF StopProtocol
  <2>5. \A s \in Stoppers : hand'[s] = hand[s] /\ (AtGate(s)' <=> AtGate(s))
    BY <2>1, <2>2, Zenon
  <2>. QED BY <2>1, <2>2, <2>3, <2>4, <2>5, Zenon DEF StopProtocol
<1>7. ASSUME NEW s \in Stoppers, StopBegins(s)
      PROVE  StopProtocol'
  <2>1. /\ UNCHANGED <<queue, hand, spc>>
        /\ \A b \in Actors : b # s => apc'[b] = apc[b]
        /\ apc[s] \in {"off", "closing", "purge"}
        /\ apc'[s] \in {"closing", "purge", "lock"}
        /\ closed'
    BY <1>7, Zenon DEF StopBegins, BeginClose, CloseDone, CoreTypeOK, StopProtocol
  <2>2. ReadersInside' = ReadersInside /\ (StopReturned' <=> StopReturned)
    BY <2>1, Zenon DEF ReadersInside
  <2>3. \A w \in Workers : apc'[w] = apc[w]
    BY <2>1, Zenon
  <2>4. ~AtGate(s)' /\ \A r \in Stoppers : r # s => apc'[r] = apc[r]
    BY <2>1, Zenon
  <2>5. /\ \A r \in Stoppers :
             apc'[r] \in {"off", "closing", "purge", "lock", "pending", "wait", "drain", "returned"}
        /\ \A r \in Stoppers : apc'[r] # "drain" => hand'[r] = NoTask
    BY <2>1, <2>4, Zenon DEF StopProtocol
  <2>6. \A r \in Stoppers : /\ apc'[r] \in {"wait", "drain"} => apc[r] \in {"wait", "drain"}
                            /\ apc'[r] \in {"drain", "returned"} => apc[r] \in {"drain", "returned"}
                            /\ AtGate(r)' => AtGate(r)
    BY <2>1, <2>4, Zenon
  <2>. QED BY <2>1, <2>2, <2>3, <2>5, <2>6, Zenon DEF StopProtocol
<1>8. ASSUME NEW s \in Stoppers, LockPending(s)
      PROVE  StopProtocol'
  <2>1. /\ UNCHANGED <<queue, hand, spc, closed>>
        /\ \A b \in Actors : b # s => apc'[b] = apc[b]
        /\ apc[s] = "lock"
        /\ apc'[s] = "pending"
        /\ \A r \in Stoppers : ~AtGate(r)
    BY <1>8, Zenon DEF LockPending, WriterAtGate, CoreTypeOK
  <2>. QED BY <2>1, Zenon DEF StopProtocol, ReadersInside
<1>9. ASSUME NEW s \in Stoppers, LockGranted(s)
      PROVE  StopProtocol'
  <2>1. /\ UNCHANGED <<queue, hand, spc, closed>>
        /\ \A b \in Actors : b # s => apc'[b] = apc[b]
        /\ apc[s] = "pending"
        /\ apc'[s] = "wait"
        /\ ReadersInside = {}
    BY <1>9, Zenon DEF LockGranted, CoreTypeOK
  <2>. QED BY <2>1, Zenon DEF StopProtocol, ReadersInside
<1>10. ASSUME NEW s \in Stoppers, WaitWorkers(s)
       PROVE  StopProtocol'
  <2>1. /\ UNCHANGED <<queue, hand, spc, closed>>
        /\ \A b \in Actors : b # s => apc'[b] = apc[b]
        /\ apc[s] = "wait"
        /\ apc'[s] = "drain"
        /\ \A w \in Workers : apc[w] \in {"off", "exited"}
    BY <1>10, Zenon DEF WaitWorkers, CoreTypeOK
  <2>. QED BY <2>1, Zenon DEF StopProtocol, ReadersInside
<1>11. ASSUME NEW s \in Stoppers, DrainEnds(s)
       PROVE  StopProtocol'
  <2>1. /\ UNCHANGED <<queue, hand, spc, closed>>
        /\ \A b \in Actors : b # s => apc'[b] = apc[b]
        /\ apc[s] = "drain"
        /\ apc'[s] = "returned"
        /\ hand[s] = NoTask
        /\ queue = <<>>
    BY <1>11, Zenon DEF DrainEnds, CoreTypeOK
  <2>2. \A a \in Actors : hand[a] = NoTask
    BY <2>1, Zenon DEF StopProtocol
  <2>3. ReadersInside = {} /\ ReadersInside' = ReadersInside
    BY <2>1, Zenon DEF StopProtocol, ReadersInside
  <2>. QED BY <2>1, <2>2, <2>3, Zenon DEF StopProtocol
<1>12. CASE (\E s \in Sessions : SessionEnds(s)) \/ UNCHANGED coreVars
  <2>1. UNCHANGED <<queue, hand, closed, spc, apc>>
    BY <1>12, Zenon DEF SessionEnds, coreVars
  <2>. QED BY <2>1, Zenon DEF StopProtocol, ReadersInside
<1>. QED
  BY <1>1, <1>2, <1>3, <1>4, <1>5, <1>6, <1>7, <1>8, <1>9, <1>10, <1>11, <1>12, Zenon DEF PoolStep

-----------------------------------------------------------------------------
(* The initial states of either pool, and their steps. *)
LEMMA PoolStarts == CoreInit => PoolInv
<1>. SUFFICES ASSUME CoreInit PROVE StopProtocol
  BY CoreInitOnce, Zenon DEF PoolInv
<1>. QED
  BY Zenon DEF CoreInit, StopProtocol, AtGate, StopReturned, Actors

LEMMA PoolStepInv == PoolInv /\ [PoolStep]_coreVars => PoolInv'
  BY TasksStep, ProtocolStep, Zenon DEF PoolInv

(* A step of the fixed pool is a step of the core. *)
LEMMA FixedStep == [PoolNext]_coreVars => [PoolStep]_coreVars
<1>. SUFFICES ASSUME PoolNext PROVE [PoolStep]_coreVars
  BY Zenon
<1>1. CASE StartWorkers
  <2>1. apc' = [a \in Actors |-> IF a \in Workers THEN "run" ELSE apc[a]]
    BY <1>1, Zenon DEF StartWorkers
  <2>2. \A a \in Workers \cup Stoppers : apc[a] = "off"
    BY <1>1, Zenon DEF StartWorkers, Actors
  <2>. QED BY <1>1, <2>1, <2>2, Zenon DEF StartWorkers, WorkersStart, PoolStep
<1>2. CASE \E t \in Tasks : PoolSubmit(t)
  BY <1>2, Zenon DEF PoolSubmit, PoolStep
<1>3. CASE \E w \in Workers : PoolRun(w)
  BY <1>3, Zenon DEF PoolRun, PoolStep, Actors
<1>4. CASE \E s \in Stoppers : PoolStop(s)
  BY <1>4, Zenon DEF PoolStop, StopBegins, PoolStep, Actors
<1>5. CASE \E s \in Sessions : SessionEnds(s)
  BY <1>5, Zenon DEF PoolStep
<1>6. CASE PoolFinished
  BY <1>6, Zenon DEF PoolFinished
<1>. QED BY <1>1, <1>2, <1>3, <1>4, <1>5, <1>6, Zenon DEF PoolNext

(* The inductive invariant holds in every reachable state of the pool. *)
THEOREM PoolInvariance == PoolSpec => []PoolInv
<1>1. PoolInv /\ [PoolNext]_coreVars => PoolInv'
  BY PoolStepInv, FixedStep, Zenon
<1>. QED BY <1>1, PoolStarts, PTL DEF PoolSpec

(* No interleaving of Submit, workers and Stop loses an accepted task or     *)
(* runs its handler twice, in pools of any size.                             *)
THEOREM TasksHandledOnce == PoolSpec => []EachTaskOnce
  BY PoolInvariance, PTL DEF PoolInv

(* What the invariant says of a returned Stop. *)
LEMMA InvDrains == PoolInv => StopDrains
<1>. SUFFICES ASSUME PoolInv, StopReturned PROVE StopDrains
  BY Zenon DEF StopDrains
<1>1. /\ queue = <<>> /\ ReadersInside = {}
      /\ \A a \in Actors : hand[a] = NoTask
  BY Zenon DEF PoolInv, StopProtocol
<1>2. \A t \in Tasks : ~InQueue(t) /\ ~InHand(t)
  BY <1>1, NoTaskAssumption DEF InQueue, InHand
<1>. QED BY <1>1, <1>2, Zenon DEF StopDrains, PoolInv, EachTaskOnce

(* Whatever the pool's size, when a Stop returns every accepted task has     *)
(* been handled, no handler runs and no submitter is inside.                 *)
THEOREM StopDrainsAll == PoolSpec => []StopDrains
  BY InvDrains, PoolInvariance, PTL

(* No step after a returned Stop touches the queue or a task in hand. *)
LEMMA QuietStep ==
  ASSUME PoolInv, [PoolStep]_coreVars, StopReturned
  PROVE  UNCHANGED <<queue, hand, handled>>
<1>1. /\ queue = <<>> /\ ReadersInside = {}
      /\ \A a \in Actors : hand[a] = NoTask
  BY Zenon DEF PoolInv, StopProtocol
<1>2. \A t \in Tasks : ~SubmitEnqueue(t)
  BY <1>1, Zenon DEF SubmitEnqueue, ReadersInside
<1>3. \A a \in Actors : ~TakeTask(a) /\ ~Handle(a)
  BY <1>1, Zenon DEF TakeTask, Handle
<1>. QED
  BY <1>2, <1>3, Zenon DEF PoolStep, WorkersStart, WorkerLeaves, StopBegins, SubmitEnter, SubmitFull,
      SubmitAbort, WorkerSeesDone, DrainEnds, BeginClose, CloseDone,
      LockPending, LockGranted, WaitWorkers, SessionEnds, coreVars

(* After a Stop has returned no step of the pool touches the queue or runs   *)
(* a handler.                                                                *)
THEOREM StopIsFinal == PoolSpec => QuietAfterStop
<1>1. PoolInv /\ [PoolNext]_coreVars => [StopReturned => UNCHANGED <<queue, hand, handled>>]_coreVars
  BY QuietStep, FixedStep, Zenon
<1>. QED BY <1>1, PoolInvariance, PTL DEF PoolSpec, QuietAfterStop

-----------------------------------------------------------------------------
(* How the pool's steps look to a TaskDispatch: a task whose place changed   *)
(* changes status, every other keeps its own.                                *)
LEMMA DispatchStep ==
  ASSUME PoolInv, PoolStep
  PROVE  [Dispatch!Next]_(Dispatch!dispatchVars)
<1>. DEFINE st == [t \in Tasks |-> StatusOf(t)]
<1>. USE DEF PoolInv
<1>1. ASSUME NEW t \in Tasks, SubmitEnqueue(t)
      PROVE  Dispatch!Accept(t)
  <2>1. ~StopReturned /\ StopReturned' = StopReturned
    BY <1>1, Zenon DEF SubmitEnqueue, StopProtocol, StopReturned, ReadersInside
  <2>2. Accepted(t)' /\ ~Accepted(t) /\ spc[t] = "sending"
    BY <1>1, Zenon DEF SubmitEnqueue, Accepted, CoreTypeOK
  <2>3. handled[t] = 0 /\ ~InHand(t)
    <3>1. handled[t] \in Nat /\ handled[t] <= 1 /\ handled[t] # 1 /\ ~InHand(t)
      BY <2>2, Zenon DEF EachTaskOnce, CoreTypeOK
    <3>. QED BY <3>1
  <2>4. handled' = handled /\ hand' = hand /\ \A u \in Tasks : u # t => spc'[u] = spc[u]
    BY <1>1, Zenon DEF SubmitEnqueue, CoreTypeOK
  <2>5. \A u \in Tasks : u # t => StatusOf(u)' = StatusOf(u)
    BY <2>4, Zenon DEF StatusOf, InHand, Accepted
  <2>6. StatusOf(t) = "new" /\ StatusOf(t)' = "accepted"
    <3>1. ~(handled[t] > 0) /\ ~(handled'[t] > 0) /\ ~InHand(t)'
      <4>1. ~(0 > 0)
        OBVIOUS
      <4>. QED BY <2>3, <2>4, <4>1, Zenon DEF InHand
    <3>. QED BY <2>2, <2>3, <3>1, Zenon DEF StatusOf
  <2>7. st' = [st EXCEPT ![t] = "accepted"]
    BY <2>5, <2>6, Zenon
  <2>. QED BY <2>1, <2>6, <2>7, Zenon DEF Dispatch!Accept
<1>2. ASSUME NEW t \in Tasks, SubmitEnter(t) \/ SubmitFull(t) \/ SubmitAbort(t)
      PROVE  Dispatch!Refuse(t) \/ UNCHANGED <<st, StopReturned>>
  <2>1. /\ handled' = handled /\ hand' = hand /\ apc' = apc
        /\ \A u \in Tasks : u # t => spc'[u] = spc[u]
        /\ spc[t] \in {"idle", "sending"}
        /\ spc'[t] \in {"sending", "full", "closed", "sessionClosed"}
    BY <1>2, Zenon DEF SubmitEnter, SubmitFull, SubmitAbort, CoreTypeOK
  <2>2. handled[t] = 0 /\ ~InHand(t)
    <3>1. handled[t] \in Nat /\ handled[t] <= 1 /\ handled[t] # 1 /\ ~InHand(t)
      BY <2>1, Zenon DEF EachTaskOnce, CoreTypeOK, Accepted
    <3>. QED BY <3>1
  <2>3. \A u \in Tasks : u # t => StatusOf(u)' = StatusOf(u)
    BY <2>1, Zenon DEF StatusOf, InHand, Accepted
  <2>4. StatusOf(t) = "new"
    BY <2>1, <2>2 DEF StatusOf, InHand, Accepted
  <2>5. StatusOf(t)' = IF spc'[t] = "sending" THEN "new" ELSE "refused"
    BY <2>1, <2>2 DEF StatusOf, InHand, Accepted
  <2>6. StopReturned' = StopReturned
    BY <2>1, Zenon DEF StopReturned
  <2>7. CASE spc'[t] = "sending"
    BY <2>3, <2>4, <2>5, <2>6, <2>7, Zenon
  <2>8. CASE spc'[t] # "sending"
    <3>1. st' = [st EXCEPT ![t] = "refused"]
      BY <2>3, <2>5, <2>8, Zenon
    <3>. QED BY <3>1, <2>4, <2>6, Zenon DEF Dispatch!Refuse
  <2>. QED BY <2>7, <2>8, Zenon
<1>3. ASSUME NEW a \in Actors, TakeTask(a)
      PROVE  \E t \in Tasks : Dispatch!Run(t)
  <2>0. PICK h \in Tasks : h = Head(queue)
    BY <1>3, TailFacts, Zenon DEF TakeTask, CoreTypeOK
  <2>1. h \in Tasks /\ InQueue(h) /\ h # NoTask
    BY <1>3, <2>0, TailFacts, NoTaskAssumption DEF TakeTask, CoreTypeOK, InQueue
  <2>2. /\ hand' = [hand EXCEPT ![a] = h] /\ hand[a] = NoTask
        /\ handled' = handled /\ spc' = spc /\ apc' = apc
    BY <1>3, <2>0, Zenon DEF TakeTask
  <2>3. Accepted(h) /\ ~InHand(h) /\ handled[h] = 0
    <3>1. handled[h] \in Nat /\ handled[h] <= 1 /\ handled[h] # 1 /\ ~InHand(h)
          /\ Accepted(h)
      BY <2>1, Zenon DEF EachTaskOnce, CoreTypeOK
    <3>. QED BY <3>1
  <2>4. \A u \in Tasks : InHand(u)' <=> InHand(u) \/ u = h
    BY <2>1, <2>2, NoTaskAssumption, Zenon DEF InHand, CoreTypeOK
  <2>5. \A u \in Tasks : u # h => StatusOf(u)' = StatusOf(u)
    BY <2>2, <2>4, Zenon DEF StatusOf, Accepted
  <2>6. StatusOf(h) = "accepted" /\ StatusOf(h)' = "running"
    BY <2>1, <2>2, <2>3, <2>4 DEF StatusOf, Accepted
  <2>7. st' = [st EXCEPT ![h] = "running"]
    BY <2>5, <2>6, Zenon
  <2>8. ~StopReturned /\ StopReturned' = StopReturned
    BY <1>3, <2>2, Zenon DEF TakeTask, StopProtocol, StopReturned
  <2>. QED BY <2>1, <2>6, <2>7, <2>8, Zenon DEF Dispatch!Run
<1>4. ASSUME NEW a \in Actors, Handle(a)
      PROVE  \E t \in Tasks : Dispatch!Finish(t)
  <2>0. PICK h \in Tasks : h = hand[a]
    BY <1>4, Zenon DEF Handle, CoreTypeOK
  <2>1. h \in Tasks /\ InHand(h) /\ h # NoTask
    BY <1>4, <2>0, Zenon DEF Handle, CoreTypeOK, InHand
  <2>2. handled[h] = 0
    <3>1. handled[h] \in Nat /\ handled[h] <= 1 /\ handled[h] # 1
      BY <2>1, Zenon DEF EachTaskOnce, CoreTypeOK
    <3>. QED BY <3>1
  <2>3. /\ hand' = [hand EXCEPT ![a] = NoTask]
        /\ handled' = [handled EXCEPT ![h] = 1]
        /\ spc' = spc /\ apc' = apc
    BY <2>0, <2>1, <2>2, <1>4 DEF Handle, CoreTypeOK
  <2>4. \A u \in Tasks : u # h => (InHand(u)' <=> InHand(u)) /\ handled'[u] = handled[u]
    BY <2>0, <2>1, <2>3, NoTaskAssumption, Zenon DEF InHand, CoreTypeOK
  <2>5. \A u \in Tasks : u # h => StatusOf(u)' = StatusOf(u)
    BY <2>3, <2>4, Zenon DEF StatusOf, Accepted
  <2>6. StatusOf(h) = "running" /\ StatusOf(h)' = "done"
    BY <2>1, <2>2, <2>3 DEF StatusOf, CoreTypeOK
  <2>7. st' = [st EXCEPT ![h] = "done"]
    BY <2>5, <2>6, Zenon
  <2>8. ~StopReturned /\ StopReturned' = StopReturned
    BY <1>4, <2>3, Zenon DEF Handle, StopProtocol, StopReturned
  <2>. QED BY <2>1, <2>6, <2>7, <2>8, Zenon DEF Dispatch!Finish
<1>5. ASSUME NEW s \in Stoppers, DrainEnds(s)
      PROVE  Dispatch!Stop
  <2>1. /\ UNCHANGED <<hand, handled, spc>>
        /\ apc'[s] = "returned" /\ apc[s] = "drain" /\ queue = <<>> /\ hand[s] = NoTask
    BY <1>5, Zenon DEF DrainEnds, CoreTypeOK, Actors
  <2>2. \A a \in Actors : hand[a] = NoTask
    BY <2>1, Zenon DEF StopProtocol, AtGate, Actors
  <2>3. \A t \in Tasks : ~InQueue(t) /\ ~InHand(t)
    BY <2>1, <2>2, NoTaskAssumption DEF InQueue, InHand
  <2>4. \A t \in Tasks : handled[t] = 1 \/ ~Accepted(t)
    BY <2>3, Zenon DEF EachTaskOnce
  <2>5. \A t \in Tasks : StatusOf(t) \notin {"accepted", "running"}
    BY <2>3, <2>4 DEF StatusOf
  <2>6. \A t \in Tasks : StatusOf(t)' = StatusOf(t)
    BY <2>1, Zenon DEF StatusOf, InHand, Accepted
  <2>7. StopReturned' /\ st' = st
    BY <2>1, <2>6, Zenon DEF StopReturned
  <2>. QED BY <2>5, <2>7, Zenon DEF Dispatch!Stop
<1>6. ASSUME UNCHANGED <<hand, handled, spc>>,
             \A s \in Stoppers : apc'[s] = "returned" <=> apc[s] = "returned"
      PROVE  UNCHANGED <<st, StopReturned>>
  BY <1>6, Zenon DEF StatusOf, InHand, Accepted, StopReturned
<1>7. ASSUME \/ WorkersStart
             \/ \E w \in Workers : WorkerSeesDone(w) \/ DrainEnds(w) \/ WorkerLeaves(w)
             \/ \E s \in Stoppers : \/ StopBegins(s)
                                    \/ LockPending(s)
                                    \/ LockGranted(s)
                                    \/ WaitWorkers(s)
             \/ \E s \in Sessions : SessionEnds(s)
      PROVE  UNCHANGED <<st, StopReturned>>
  <2>1. UNCHANGED <<hand, handled, spc>>
    BY <1>7, Zenon DEF WorkersStart, WorkerSeesDone, DrainEnds, WorkerLeaves, StopBegins, BeginClose,
       CloseDone, LockPending, LockGranted, WaitWorkers, SessionEnds
  <2>2. CASE WorkersStart
    <3>1. \A s \in Stoppers : apc'[s] = apc[s]
      BY <2>2, ActorsDisjoint, Zenon DEF WorkersStart, Actors, CoreTypeOK
    <3>. QED BY <3>1, <2>1, <1>6, Zenon
  <2>3. CASE \E w \in Workers : WorkerSeesDone(w) \/ DrainEnds(w) \/ WorkerLeaves(w)
    <3>1. \A s \in Stoppers : apc'[s] = apc[s]
      BY <2>3, ActorsDisjoint, Zenon DEF WorkerSeesDone, DrainEnds, WorkerLeaves, Actors, CoreTypeOK
    <3>. QED BY <3>1, <2>1, <1>6, Zenon
  <2>4. CASE \E s \in Stoppers : StopBegins(s) \/ LockPending(s) \/ LockGranted(s) \/ WaitWorkers(s)
    <3>1. PICK r \in Stoppers : StopBegins(r) \/ LockPending(r) \/ LockGranted(r) \/ WaitWorkers(r)
      BY <2>4, Zenon
    <3>2. apc[r] # "returned" /\ apc'[r] # "returned"
      BY <3>1, Zenon DEF StopBegins, BeginClose, CloseDone, LockPending, LockGranted, WaitWorkers,
         Actors, CoreTypeOK
    <3>3. \A s \in Stoppers : s # r => apc'[s] = apc[s]
      BY <3>1, Zenon DEF StopBegins, BeginClose, CloseDone, LockPending, LockGranted, WaitWorkers,
         Actors, CoreTypeOK
    <3>. QED BY <3>2, <3>3, <2>1, <1>6, Zenon
  <2>5. CASE \E s \in Sessions : SessionEnds(s)
    BY <2>5, <2>1, <1>6, Zenon DEF SessionEnds
  <2>. QED BY <1>7, <2>2, <2>3, <2>4, <2>5, Zenon
<1>8. Workers \subseteq Actors /\ Stoppers \subseteq Actors
  BY Zenon DEF Actors
<1>. DEFINE Goal == [Dispatch!Next]_(Dispatch!dispatchVars)
<1>9. ASSUME NEW t \in Tasks,
             \/ Dispatch!Accept(t)
             \/ Dispatch!Refuse(t)
             \/ Dispatch!Run(t)
             \/ Dispatch!Finish(t)
      PROVE  Goal
  BY <1>9, Zenon DEF Dispatch!Next
<1>10. Dispatch!Stop => Goal
  BY Zenon DEF Dispatch!Next
<1>11. UNCHANGED <<st, StopReturned>> => Goal
  BY Zenon DEF Dispatch!dispatchVars
<1>. HIDE DEF Goal, st
<1>12. ASSUME NEW t \in Tasks, SubmitEnter(t) \/ SubmitEnqueue(t) \/ SubmitFull(t) \/ SubmitAbort(t)
       PROVE  Goal
  BY <1>12, <1>1, <1>2, <1>9, <1>11, Zenon
<1>13. ASSUME NEW a \in Actors, TakeTask(a) \/ Handle(a) PROVE Goal
  BY <1>13, <1>3, <1>4, <1>9, Zenon
<1>14. Goal
  BY <1>5, <1>7, <1>10, <1>11, <1>12, <1>13, Zenon DEF PoolStep
<1>. QED BY <1>14, Zenon DEF Goal

(* The same with the steps that leave the core alone, and the initial states. *)
LEMMA DispatchSteps == PoolInv /\ [PoolStep]_coreVars => [Dispatch!Next]_(Dispatch!dispatchVars)
<1>1. CASE UNCHANGED coreVars
  BY <1>1, Zenon DEF coreVars, Dispatch!dispatchVars, StatusOf, InHand, Accepted, StopReturned
<1>. QED BY <1>1, DispatchStep, Zenon

LEMMA DispatchStarts == CoreInit => Dispatch!Init
<1>. SUFFICES ASSUME CoreInit PROVE Dispatch!Init
  BY Zenon
<1>1. \A t \in Tasks : StatusOf(t) = "new"
  BY NoTaskAssumption DEF CoreInit, StatusOf, InHand, Accepted
<1>2. ~StopReturned
  BY Zenon DEF CoreInit, StopReturned, Actors
<1>. QED BY <1>1, <1>2 DEF Dispatch!Init

(* A worker pool of any size implements TaskDispatch: seen from the          *)
(* transports it accepts or refuses, runs what it accepted once, and is      *)
(* quiet once Stop has returned.                                             *)
THEOREM PoolImplementsDispatch == PoolSpec => ImplementsDispatch
<1>1. PoolInv /\ [PoolNext]_coreVars => [Dispatch!Next]_(Dispatch!dispatchVars)
  BY DispatchSteps, FixedStep, Zenon
<1>. QED BY <1>1, DispatchStarts, PoolInvariance, PTL DEF PoolSpec, Dispatch!Spec, ImplementsDispatch
-----------------------------------------------------------------------------
(* The elastic pool. *)

(* A step of the elastic pool is one of the core, or one of maybeScale that  *)
(* leaves the core alone.                                                    *)
LEMMA ElasticStep == PoolInv /\ [ElasticNext]_elasticVars => [PoolStep]_coreVars
<1>. SUFFICES ASSUME PoolInv, ElasticNext PROVE [PoolStep]_coreVars
  BY Zenon DEF elasticVars, coreVars
<1>1. CASE Launch
  <2>1. PICK W \in SUBSET Workers : apc' = [a \in Actors |-> IF a \in W THEN "run" ELSE "off"]
    BY <1>1, Zenon DEF Launch
  <2>2. \A a \in Actors : apc[a] = "off"
    BY <1>1, Zenon DEF Launch
  <2>3. apc' = [a \in Actors |-> IF a \in W THEN "run" ELSE apc[a]]
    BY <2>1, <2>2, Zenon
  <2>4. \A a \in Workers \cup Stoppers : apc[a] = "off"
    BY <2>2, Zenon DEF Actors
  <2>5. \A w \in W : apc[w] = "off"
    BY <2>4, Zenon
  <2>6. UNCHANGED <<policy, queue, closed, done, spc, gone, hand, handled>>
    BY <1>1, Zenon DEF Launch
  <2>. QED BY <2>3, <2>4, <2>5, <2>6, Zenon DEF WorkersStart, PoolStep
<1>2. ASSUME NEW t \in Tasks, AddWorker(t) PROVE [PoolStep]_coreVars
  <2>1. CASE closed \/ Cardinality(workers) >= MaxWorker
    BY <1>2, <2>1, Zenon DEF AddWorker, coreVars
  <2>2. CASE ~(closed \/ Cardinality(workers) >= MaxWorker)
    <3>1. PICK w \in Workers : apc[w] = "off" /\ apc' = [apc EXCEPT ![w] = "run"]
      BY <1>2, <2>2, Zenon DEF AddWorker
    <3>2. \A s \in Stoppers : apc[s] = "off"
      BY <2>2, Zenon DEF PoolInv, StopProtocol
    <3>3. apc' = [a \in Actors |-> IF a \in {w} THEN "run" ELSE apc[a]]
      BY <3>1, Zenon DEF PoolInv, CoreTypeOK
    <3>4. UNCHANGED <<policy, queue, closed, done, spc, gone, hand, handled>>
      BY <1>2, Zenon DEF AddWorker
    <3>5. {w} \in SUBSET Workers /\ \A v \in {w} : apc[v] = "off"
      BY <3>1, Zenon
    <3>. QED BY <3>2, <3>3, <3>4, <3>5, Zenon DEF WorkersStart, PoolStep
  <2>. QED BY <2>1, <2>2, Zenon
<1>3. ASSUME NEW t \in Tasks, ElasticSubmit(t) \/ MaybeScale(t) PROVE [PoolStep]_coreVars
  <2>1. CASE ElasticSubmit(t)
    BY <2>1, Zenon DEF ElasticSubmit, PoolStep
  <2>2. CASE MaybeScale(t) /\ ~AddWorker(t)
    <3>1. UNCHANGED coreVars
      BY <2>2, Zenon DEF MaybeScale, Tick, ScaleObserve, ScaleJudge, RetireReset, RetirePick, RetireClose
    <3>. QED BY <3>1, Zenon
  <2>. QED BY <1>2, <1>3, <2>1, <2>2, Zenon
<1>4. ASSUME NEW w \in Workers, ElasticRun(w) PROVE [PoolStep]_coreVars
  <2>1. CASE WorkerRetires(w)
    BY <2>1, Zenon DEF WorkerRetires, WorkerLeaves, PoolStep
  <2>. QED BY <1>4, <2>1, Zenon DEF ElasticRun, PoolStep, Actors
<1>5. ASSUME NEW s \in Stoppers, ElasticStop(s) PROVE [PoolStep]_coreVars
  <2>1. CASE Purge(s)
    BY <2>1, Zenon DEF Purge, StopBegins, PoolStep
  <2>. QED BY <1>5, <2>1, Zenon DEF ElasticStop, StopBegins, PoolStep, Actors
<1>6. CASE \E s \in Sessions : SessionEnds(s) /\ UNCHANGED scaleVars
  BY <1>6, Zenon DEF PoolStep
<1>7. CASE ElasticFinished
  BY <1>7, Zenon DEF ElasticFinished, elasticVars
<1>. QED BY <1>1, <1>3, <1>4, <1>5, <1>6, <1>7, Zenon DEF ElasticNext

LEMMA ElasticInvariance == ElasticSpec => []PoolInv
<1>1. ElasticInit => PoolInv
  BY PoolStarts, Zenon DEF ElasticInit
<1>2. PoolInv /\ [ElasticNext]_elasticVars => PoolInv'
  BY PoolStepInv, ElasticStep, Zenon
<1>. QED BY <1>1, <1>2, PTL DEF ElasticSpec

(* The elastic pool drains like the fixed one: no scaling up or down beside  *)
(* Submit and Stop loses an accepted task, runs one twice, or lets Stop      *)
(* return while one is queued or running.                                    *)
THEOREM ElasticDrains == ElasticSpec => [](EachTaskOnce /\ StopDrains)
  BY ElasticInvariance, InvDrains, PTL DEF PoolInv

(* The elastic pool implements TaskDispatch too, whatever its bounds, ratios *)
(* and hold: maybeScale, addWorker and retireOneWorker are invisible to the  *)
(* transports.                                                               *)
THEOREM ElasticImplementsDispatch == ElasticSpec => ImplementsDispatch
<1>1. ElasticInit => Dispatch!Init
  BY DispatchStarts, Zenon DEF ElasticInit
<1>2. PoolInv /\ [ElasticNext]_elasticVars => [Dispatch!Next]_(Dispatch!dispatchVars)
  BY DispatchSteps, ElasticStep, Zenon
<1>. QED BY <1>1, <1>2, ElasticInvariance, PTL DEF ElasticSpec, Dispatch!Spec, ImplementsDispatch

(* Once a Stop has purged the map no addWorker starts another worker, so     *)
(* that wg.Wait covers every worker there is.                                *)
THEOREM NoWorkerStartsAfterPurge == ElasticSpec => NoWorkerAfterPurge
<1>. DEFINE Purged == \E s \in Stoppers : apc[s] \in {"lock", "pending", "wait", "drain", "returned"}
            NoneStarts == \A w \in Workers : apc[w] = "off" => apc'[w] = "off"
<1>1. ASSUME PoolInv, [PoolStep]_coreVars, Purged PROVE NoneStarts
  <2>1. ~WorkersStart
    BY <1>1, Zenon DEF WorkersStart
  <2>2. \A a \in Actors : apc[a] = "off" /\ a \notin Stoppers => apc'[a] = "off"
    BY <1>1, <2>1, Zenon DEF PoolStep, WorkerLeaves, StopBegins, SubmitEnter, SubmitEnqueue, SubmitFull,
      SubmitAbort, TakeTask, Handle, WorkerSeesDone, DrainEnds, BeginClose, CloseDone,
      LockPending, LockGranted, WaitWorkers, SessionEnds, coreVars, PoolInv, CoreTypeOK
  <2>. QED BY <2>2, ActorsDisjoint, Zenon DEF Actors
<1>2. PoolInv /\ [ElasticNext]_elasticVars => [Purged => NoneStarts]_elasticVars
  BY <1>1, ElasticStep, Zenon
<1>. QED BY <1>2, ElasticInvariance, PTL DEF ElasticSpec, NoWorkerAfterPurge

-----------------------------------------------------------------------------
(* Who is responsible for a worker's retire channel.  A worker in the map    *)
(* has an open one and nobody is about to close it; whoever takes a worker   *)
(* out of the map (one maybeScale, or Stop's purge) closes it; and a worker  *)
(* that was not started has never been near the map.                         *)
Channels ==
  /\ \A w \in workers : retire[w] = 0 /\ apc[w] # "off"
  /\ \A t \in Tasks : mpc[t] = "close" =>
       victim[t] \in Workers \ workers /\ retire[victim[t]] = 0 /\ apc[victim[t]] # "off"
  /\ \A t, u \in Tasks : mpc[t] = "close" /\ mpc[u] = "close" /\ victim[t] = victim[u] => t = u
  /\ \A w \in Workers : retire[w] \in {0, 1} /\ (apc[w] = "off" => retire[w] = 0)

ScaleTypes ==
  /\ workers \in SUBSET Workers
  /\ retire \in [Workers -> Nat]
  /\ downStreak \in Nat
  /\ submitTick \in Nat
  /\ mpc \in [Tasks -> ScaleStates]
  /\ victim \in [Tasks -> Workers \cup {NoWorker}]

ScaleInv == ScaleTypes /\ Channels /\ NoOrphanWorker

LEMMA ScaleStarts == ElasticInit => ScaleInv
<1>. SUFFICES ASSUME ElasticInit PROVE ScaleInv
  BY Zenon
<1>1. ScaleTypes
  BY DEF ElasticInit, ScaleTypes, ScaleStates
<1>2. Channels
  BY DEF ElasticInit, Channels
<1>3. NoOrphanWorker
  BY Zenon DEF ElasticInit, CoreInit, NoOrphanWorker, Actors
<1>. QED BY <1>1, <1>2, <1>3, Zenon DEF ScaleInv

(* A step that starts no worker and leaves map, channels and closers alone. *)
LEMMA ScaleIdle ==
  ASSUME ScaleInv, UNCHANGED <<workers, retire, victim>>,
         \A t \in Tasks : mpc'[t] = "close" <=> mpc[t] = "close",
         \A w \in Workers : /\ apc'[w] = "off" <=> apc[w] = "off"
                            /\ apc'[w] \in {"run", "drain"} => apc[w] \in {"run", "drain"}
  PROVE  Channels' /\ NoOrphanWorker'
<1>1. Channels'
  <2>1. \A w \in workers' : retire'[w] = 0 /\ apc'[w] # "off"
    BY Zenon DEF ScaleInv, Channels, ScaleTypes
  <2>2. \A t \in Tasks : mpc'[t] = "close" =>
         victim'[t] \in Workers \ workers' /\ retire'[victim'[t]] = 0 /\ apc'[victim'[t]] # "off"
    BY Zenon DEF ScaleInv, Channels
  <2>3. \A t, u \in Tasks : mpc'[t] = "close" /\ mpc'[u] = "close" /\ victim'[t] = victim'[u] => t = u
    BY Zenon DEF ScaleInv, Channels
  <2>4. \A w \in Workers : retire'[w] \in {0, 1} /\ (apc'[w] = "off" => retire'[w] = 0)
    BY Zenon DEF ScaleInv, Channels
  <2>. QED BY <2>1, <2>2, <2>3, <2>4, Zenon DEF Channels
<1>2. NoOrphanWorker'
  BY Zenon DEF ScaleInv, NoOrphanWorker
<1>. QED BY <1>1, <1>2, Zenon

(* Workers that start were never in the map. *)
LEMMA ScaleAdds ==
  ASSUME ScaleInv, NEW W \in SUBSET Workers, \A w \in W : apc[w] = "off",
         workers' = workers \cup W, UNCHANGED <<retire, victim>>,
         \A t \in Tasks : mpc'[t] = "close" <=> mpc[t] = "close",
         \A w \in Workers : apc'[w] = IF w \in W THEN "run" ELSE apc[w]
  PROVE  Channels' /\ NoOrphanWorker'
<1>1. \A w \in workers' : retire'[w] = 0 /\ apc'[w] # "off"
  BY Zenon DEF ScaleInv, Channels, ScaleTypes
<1>2. \A t \in Tasks : mpc'[t] = "close" =>
       victim'[t] \in Workers \ workers' /\ retire'[victim'[t]] = 0 /\ apc'[victim'[t]] # "off"
  BY Zenon DEF ScaleInv, Channels
<1>3. \A t, u \in Tasks : mpc'[t] = "close" /\ mpc'[u] = "close" /\ victim'[t] = victim'[u] => t = u
  BY Zenon DEF ScaleInv, Channels
<1>4. \A w \in Workers : retire'[w] \in {0, 1} /\ (apc'[w] = "off" => retire'[w] = 0)
  BY Zenon DEF ScaleInv, Channels
<1>5. NoOrphanWorker'
  BY Zenon DEF ScaleInv, NoOrphanWorker
<1>. QED BY <1>1, <1>2, <1>3, <1>4, <1>5, Zenon DEF Channels

(* A worker that exits leaves the map, wherever its channel is. *)
LEMMA ScaleExits ==
  ASSUME ScaleInv, NEW w \in Workers, apc'[w] = "exited", apc[w] # "off",
         \A v \in Workers : v # w => apc'[v] = apc[v],
         workers' = workers \ {w}, UNCHANGED <<retire, victim, mpc>>
  PROVE  Channels' /\ NoOrphanWorker'
<1>1. \A v \in workers' : retire'[v] = 0 /\ apc'[v] # "off"
  BY Zenon DEF ScaleInv, Channels, ScaleTypes
<1>2. \A t \in Tasks : mpc'[t] = "close" =>
       victim'[t] \in Workers \ workers' /\ retire'[victim'[t]] = 0 /\ apc'[victim'[t]] # "off"
  BY Zenon DEF ScaleInv, Channels
<1>3. \A t, u \in Tasks : mpc'[t] = "close" /\ mpc'[u] = "close" /\ victim'[t] = victim'[u] => t = u
  BY Zenon DEF ScaleInv, Channels
<1>4. \A v \in Workers : retire'[v] \in {0, 1} /\ (apc'[v] = "off" => retire'[v] = 0)
  BY Zenon DEF ScaleInv, Channels
<1>5. NoOrphanWorker'
  BY Zenon DEF ScaleInv, NoOrphanWorker
<1>. QED BY <1>1, <1>2, <1>3, <1>4, <1>5, Zenon DEF Channels

(* The rest of maybeScale, and the purge. *)
LEMMA ScalePick ==
  ASSUME ScaleInv, NEW t \in Tasks, RetirePick(t)
  PROVE  Channels' /\ NoOrphanWorker'
<1>1. CASE workers = {} /\ mpc' = [mpc EXCEPT ![t] = "end"] /\ UNCHANGED <<workers, victim>>
  <2>1. \A u \in Tasks : mpc'[u] = "close" <=> mpc[u] = "close"
    BY <1>1, Zenon DEF RetirePick, ScaleInv, ScaleTypes
  <2>. QED BY <1>1, <2>1, ScaleIdle, Zenon DEF RetirePick, coreVars
<1>2. ASSUME NEW w \in workers,
             workers' = workers \ {w}, victim' = [victim EXCEPT ![t] = w], mpc' = [mpc EXCEPT ![t] = "close"]
      PROVE  Channels' /\ NoOrphanWorker'
  <2>0. UNCHANGED <<apc, retire>> /\ mpc[t] = "pick" /\ w \in Workers
    BY Zenon DEF RetirePick, coreVars, ScaleInv, ScaleTypes
  <2>1. /\ mpc'[t] = "close" /\ victim'[t] = w
        /\ \A u \in Tasks : u # t => mpc'[u] = mpc[u] /\ victim'[u] = victim[u]
    BY <1>2, Zenon DEF ScaleInv, ScaleTypes
  <2>2. \A v \in workers' : retire'[v] = 0 /\ apc'[v] # "off"
    BY <1>2, <2>0, Zenon DEF ScaleInv, Channels
  <2>. DEFINE Closes(u) == /\ victim'[u] \in Workers \ workers'
                           /\ retire'[victim'[u]] = 0 /\ apc'[victim'[u]] # "off"
  <2>a. Closes(t)
    <3>1. retire[w] = 0 /\ apc[w] # "off" /\ w \notin workers'
      BY <1>2, Zenon DEF ScaleInv, Channels
    <3>. QED BY <2>0, <2>1, <3>1, Zenon
  <2>b. \A u \in Tasks : u # t /\ mpc'[u] = "close" => Closes(u) /\ victim'[u] # w
    <3>. SUFFICES ASSUME NEW u \in Tasks, u # t, mpc'[u] = "close" PROVE Closes(u) /\ victim'[u] # w
      BY Zenon
    <3>1. mpc[u] = "close" /\ victim'[u] = victim[u]
      BY <2>1, Zenon
    <3>2. victim[u] \in Workers /\ victim[u] \notin workers /\ retire[victim[u]] = 0 /\ apc[victim[u]] # "off"
      BY <3>1, Zenon DEF ScaleInv, Channels
    <3>3. victim[u] \notin workers' /\ victim[u] # w
      BY <1>2, <3>2, Zenon
    <3>. QED BY <2>0, <3>1, <3>2, <3>3, Zenon
  <2>3. \A u \in Tasks : mpc'[u] = "close" => Closes(u)
    BY <2>a, <2>b, Zenon
  <2>4. \A u, v \in Tasks : mpc'[u] = "close" /\ mpc'[v] = "close" /\ victim'[u] = victim'[v] => u = v
    <3>. SUFFICES ASSUME NEW u \in Tasks, NEW v \in Tasks,
                         mpc'[u] = "close", mpc'[v] = "close", victim'[u] = victim'[v], u # v
                  PROVE  FALSE
      BY Zenon
    <3>1. u # t /\ v # t
      BY <2>1, <2>b, Zenon
    <3>2. mpc[u] = "close" /\ mpc[v] = "close" /\ victim[u] = victim[v]
      BY <2>1, <3>1, Zenon
    <3>. QED BY <3>2, Zenon DEF ScaleInv, Channels
  <2>5. \A v \in Workers : retire'[v] \in {0, 1} /\ (apc'[v] = "off" => retire'[v] = 0)
    BY <2>0, Zenon DEF ScaleInv, Channels
  <2>6. NoOrphanWorker'
    <3>. SUFFICES ASSUME NEW v \in Workers \ workers', apc'[v] \in {"run", "drain"}
                  PROVE  retire'[v] = 1 \/ \E u \in Tasks : mpc'[u] = "close" /\ victim'[u] = v
      BY Zenon DEF NoOrphanWorker
    <3>1. CASE v = w
      BY <2>1, <3>1, Zenon
    <3>2. CASE v # w
      <4>1. v \in Workers \ workers /\ apc[v] \in {"run", "drain"}
        BY <1>2, <2>0, <3>2, Zenon
      <4>2. retire[v] = 1 \/ \E u \in Tasks : mpc[u] = "close" /\ victim[u] = v
        BY <4>1, Zenon DEF ScaleInv, NoOrphanWorker
      <4>3. mpc[t] # "close"
        BY <2>0, Zenon
      <4>. QED BY <2>0, <2>1, <4>2, <4>3, Zenon
    <3>. QED BY <3>1, <3>2, Zenon
  <2>. QED BY <2>2, <2>3, <2>4, <2>5, <2>6, Zenon DEF Channels
<1>. QED BY <1>1, <1>2, Zenon DEF RetirePick

LEMMA ScaleClose ==
  ASSUME ScaleInv, NEW t \in Tasks, RetireClose(t)
  PROVE  Channels' /\ NoOrphanWorker'
<1>. DEFINE w == victim[t]
<1>0. /\ UNCHANGED <<apc, workers, victim>> /\ mpc[t] = "close"
      /\ w \in Workers /\ w \notin workers /\ retire[w] = 0 /\ apc[w] # "off"
  BY Zenon DEF RetireClose, coreVars, ScaleInv, Channels
<1>1. /\ mpc'[t] = "end" /\ \A u \in Tasks : u # t => mpc'[u] = mpc[u]
      /\ \A v \in Workers : v # w => retire'[v] = retire[v]
  BY <1>0, Zenon DEF RetireClose, ScaleInv, ScaleTypes
<1>2. retire'[w] = 1
  BY <1>0 DEF RetireClose, ScaleInv, ScaleTypes
<1>. HIDE DEF w
<1>3. \A v \in workers' : retire'[v] = 0 /\ apc'[v] # "off"
  BY <1>0, <1>1, Zenon DEF ScaleInv, Channels, ScaleTypes
<1>4. \A u \in Tasks : mpc'[u] = "close" =>
       victim'[u] \in Workers \ workers' /\ retire'[victim'[u]] = 0 /\ apc'[victim'[u]] # "off"
  BY <1>0, <1>1, Zenon DEF ScaleInv, Channels, w
<1>a. \A u \in Tasks : mpc'[u] = "close" => u # t /\ mpc[u] = "close"
  BY <1>1, Zenon
<1>5. \A u, v \in Tasks : mpc'[u] = "close" /\ mpc'[v] = "close" /\ victim'[u] = victim'[v] => u = v
  BY <1>0, <1>a, Zenon DEF ScaleInv, Channels
<1>6. \A v \in Workers : retire'[v] \in {0, 1} /\ (apc'[v] = "off" => retire'[v] = 0)
  BY <1>0, <1>1, <1>2, Zenon DEF ScaleInv, Channels
<1>7. NoOrphanWorker'
  <2>. SUFFICES ASSUME NEW v \in Workers \ workers', apc'[v] \in {"run", "drain"}
                PROVE  retire'[v] = 1 \/ \E u \in Tasks : mpc'[u] = "close" /\ victim'[u] = v
    BY Zenon DEF NoOrphanWorker
  <2>1. retire[v] = 1 \/ \E u \in Tasks : mpc[u] = "close" /\ victim[u] = v
    BY <1>0, Zenon DEF ScaleInv, NoOrphanWorker
  <2>2. CASE v = w
    BY <1>2, <2>2, Zenon
  <2>3. CASE v # w
    BY <1>0, <1>1, <2>1, <2>3, Zenon DEF w
  <2>. QED BY <2>2, <2>3, Zenon
<1>. QED BY <1>3, <1>4, <1>5, <1>6, <1>7, Zenon DEF Channels

LEMMA ScalePurge ==
  ASSUME ScaleInv, NEW s \in Stoppers, Purge(s), apc \in [Actors -> ActorStates]
  PROVE  Channels' /\ NoOrphanWorker'
<1>1. /\ workers' = {} /\ UNCHANGED <<mpc, victim>>
      /\ \A w \in Workers : apc'[w] = apc[w]
  BY ActorsDisjoint, Zenon DEF Purge, Actors
<1>2. \A w \in Workers : retire'[w] = IF w \in workers THEN 1 ELSE retire[w]
  BY DEF Purge, ScaleInv, Channels
<1>3. \A t \in Tasks : mpc'[t] = "close" =>
       victim'[t] \in Workers \ workers' /\ retire'[victim'[t]] = 0 /\ apc'[victim'[t]] # "off"
  BY <1>1, <1>2, Zenon DEF ScaleInv, Channels
<1>4. \A t, u \in Tasks : mpc'[t] = "close" /\ mpc'[u] = "close" /\ victim'[t] = victim'[u] => t = u
  BY <1>1, Zenon DEF ScaleInv, Channels
<1>5. \A w \in Workers : retire'[w] \in {0, 1} /\ (apc'[w] = "off" => retire'[w] = 0)
  BY <1>1, <1>2, Zenon DEF ScaleInv, Channels
<1>6. NoOrphanWorker'
  BY <1>1, <1>2, Zenon DEF ScaleInv, NoOrphanWorker
<1>. QED BY <1>1, <1>3, <1>4, <1>5, <1>6, Zenon DEF Channels

(* Types of the scaling state. *)
LEMMA ScaleTypesStep ==
  ASSUME ScaleTypes, [ElasticNext]_elasticVars
  PROVE  ScaleTypes'
<1>1. CASE UNCHANGED scaleVars
  BY <1>1, Zenon DEF scaleVars, ScaleTypes
<1>2. CASE Launch
  BY <1>2, Zenon DEF Launch, ScaleTypes
<1>3. ASSUME NEW t \in Tasks, MaybeScale(t) PROVE ScaleTypes'
  <2>1. CASE Tick(t)
    <3>1. submitTick' \in Nat
      BY <2>1 DEF Tick, ScaleTypes
    <3>. QED BY <2>1, <3>1, Zenon DEF Tick, ScaleTypes, ScaleStates
  <2>2. CASE ScaleObserve(t)
    BY <2>2, Zenon DEF ScaleObserve, Occupancy, ScaleTypes, ScaleStates
  <2>3. CASE ScaleJudge(t)
    <3>1. downStreak' \in {0, downStreak + 1} /\ downStreak + 1 \in Nat
      BY <2>3 DEF ScaleJudge, ScaleTypes
    <3>2. downStreak' \in Nat
      BY <3>1
    <3>3. \E next \in {"add", "reset", "end"} : mpc' = [mpc EXCEPT ![t] = next]
      BY <2>3, Zenon DEF ScaleJudge
    <3>. QED BY <2>3, <3>2, <3>3, Zenon DEF ScaleJudge, ScaleTypes, ScaleStates
  <2>4. CASE AddWorker(t)
    BY <2>4, Zenon DEF AddWorker, ScaleTypes, ScaleStates
  <2>5. CASE RetireReset(t)
    <3>1. downStreak' \in Nat
      BY <2>5 DEF RetireReset
    <3>. QED BY <2>5, <3>1, Zenon DEF RetireReset, ScaleTypes, ScaleStates
  <2>6. CASE RetirePick(t)
    BY <2>6, Zenon DEF RetirePick, ScaleTypes, ScaleStates
  <2>7. CASE RetireClose(t)
    <3>1. retire' = [retire EXCEPT ![victim[t]] = retire[victim[t]] + 1]
      BY <2>7, Zenon DEF RetireClose
    <3>2. \A w \in Workers : retire[w] + 1 \in Nat
      BY DEF ScaleTypes
    <3>3. retire' \in [Workers -> Nat]
      BY <3>1, <3>2, Zenon DEF ScaleTypes
    <3>. QED BY <2>7, <3>3, Zenon DEF RetireClose, ScaleTypes, ScaleStates
  <2>. QED BY <1>3, <2>1, <2>2, <2>3, <2>4, <2>5, <2>6, <2>7, Zenon DEF MaybeScale
<1>4. ASSUME NEW w \in Workers, ElasticRun(w) PROVE ScaleTypes'
  BY <1>1, <1>4, Zenon DEF ElasticRun, WorkerRetires, ScaleTypes
<1>5. ASSUME NEW s \in Stoppers, Purge(s) PROVE ScaleTypes'
  <2>1. retire' \in [Workers -> Nat]
    BY <1>5 DEF Purge, ScaleTypes
  <2>. QED BY <1>5, <2>1, Zenon DEF Purge, ScaleTypes
<1>6. CASE UNCHANGED elasticVars
  BY <1>1, <1>6, Zenon DEF elasticVars
<1>. QED
  BY <1>1, <1>2, <1>3, <1>4, <1>5, <1>6, Zenon DEF ElasticNext, ElasticSubmit, ElasticStop, ElasticFinished

(* One lemma per kind of step gives the invariant. *)
LEMMA ScaleStep == PoolInv /\ ScaleInv /\ [ElasticNext]_elasticVars => ScaleInv'
<1>. SUFFICES ASSUME PoolInv, ScaleInv, [ElasticNext]_elasticVars
              PROVE  Channels' /\ NoOrphanWorker'
  BY ScaleTypesStep, Zenon DEF ScaleInv
<1>0. apc \in [Actors -> ActorStates] /\ mpc \in [Tasks -> ScaleStates]
  BY Zenon DEF PoolInv, CoreTypeOK, ScaleInv, ScaleTypes
<1>1. ASSUME UNCHANGED scaleVars, \A w \in Workers : apc'[w] = apc[w] \/ (apc[w] = "run" /\ apc'[w] = "drain")
      PROVE  Channels' /\ NoOrphanWorker'
  BY <1>1, ScaleIdle, Zenon DEF scaleVars
<1>2. CASE Launch
  <2>1. PICK W \in SUBSET Workers : workers' = W /\ apc' = [a \in Actors |-> IF a \in W THEN "run" ELSE "off"]
    BY <1>2, Zenon DEF Launch
  <2>2. \A w \in Workers : apc[w] = "off" /\ apc'[w] = IF w \in W THEN "run" ELSE apc[w]
    BY <1>2, <2>1, Zenon DEF Launch, Actors
  <2>3. workers = {}
    BY <2>2, Zenon DEF ScaleInv, Channels, ScaleTypes
  <2>4. workers' = workers \cup W /\ \A w \in W : apc[w] = "off"
    BY <2>1, <2>2, <2>3, Zenon
  <2>. QED BY <1>2, <2>2, <2>4, ScaleAdds, Zenon DEF Launch
<1>3. ASSUME NEW t \in Tasks, ElasticSubmit(t) PROVE Channels' /\ NoOrphanWorker'
  BY <1>1, <1>3, Zenon DEF ElasticSubmit, SubmitEnter, SubmitEnqueue, SubmitFull, SubmitAbort
<1>4. ASSUME NEW t \in Tasks, Tick(t) \/ ScaleObserve(t) \/ ScaleJudge(t) \/ RetireReset(t)
      PROVE  Channels' /\ NoOrphanWorker'
  <2>1. UNCHANGED <<apc, workers, retire, victim>>
    BY <1>4, Zenon DEF Tick, ScaleObserve, ScaleJudge, RetireReset, coreVars
  <2>2. \A u \in Tasks : mpc'[u] = "close" <=> mpc[u] = "close"
    <3>1. CASE Tick(t)
      BY <3>1, <1>0, Zenon DEF Tick
    <3>2. CASE ScaleObserve(t)
      BY <3>2, <1>0, Zenon DEF ScaleObserve, Occupancy
    <3>3. CASE ScaleJudge(t)
      BY <3>3, <1>0, Zenon DEF ScaleJudge
    <3>4. CASE RetireReset(t)
      BY <3>4, <1>0, Zenon DEF RetireReset
    <3>. QED BY <1>4, <3>1, <3>2, <3>3, <3>4, Zenon
  <2>. QED BY <2>1, <2>2, ScaleIdle, Zenon
<1>5. ASSUME NEW t \in Tasks, AddWorker(t) PROVE Channels' /\ NoOrphanWorker'
  <2>1. UNCHANGED <<retire, victim>> /\ \A u \in Tasks : mpc'[u] = "close" <=> mpc[u] = "close"
    BY <1>5, <1>0, Zenon DEF AddWorker
  <2>2. CASE UNCHANGED <<workers, apc>>
    BY <2>1, <2>2, ScaleIdle, Zenon
  <2>3. ASSUME NEW w \in Workers, apc[w] = "off", workers' = workers \cup {w},
               apc' = [apc EXCEPT ![w] = "run"]
        PROVE  Channels' /\ NoOrphanWorker'
    <3>1. \A v \in Workers : apc'[v] = IF v \in {w} THEN "run" ELSE apc[v]
      BY <2>3, <1>0, Zenon DEF Actors
    <3>2. {w} \in SUBSET Workers /\ \A v \in {w} : apc[v] = "off"
      BY <2>3, Zenon
    <3>. QED BY <2>1, <2>3, <3>1, <3>2, ScaleAdds, Zenon
  <2>. QED BY <1>5, <2>2, <2>3, Zenon DEF AddWorker
<1>6. ASSUME NEW w \in Workers, ElasticRun(w) PROVE Channels' /\ NoOrphanWorker'
  <2>1. CASE (TakeTask(w) \/ Handle(w) \/ WorkerSeesDone(w)) /\ UNCHANGED scaleVars
    BY <2>1, <1>0, <1>1, Zenon DEF TakeTask, Handle, WorkerSeesDone, Actors
  <2>2. CASE ~((TakeTask(w) \/ Handle(w) \/ WorkerSeesDone(w)) /\ UNCHANGED scaleVars)
    <3>1. /\ apc'[w] = "exited" /\ apc[w] # "off"
          /\ \A v \in Workers : v # w => apc'[v] = apc[v]
          /\ workers' = workers \ {w} /\ UNCHANGED <<retire, victim, mpc>>
      BY <1>6, <2>2, <1>0, ActorsDisjoint, Zenon DEF ElasticRun, WorkerRetires, DrainEnds, Actors
    <3>. QED BY <3>1, ScaleExits, Zenon
  <2>. QED BY <2>1, <2>2, Zenon
<1>7. ASSUME NEW s \in Stoppers, ElasticStop(s) PROVE Channels' /\ NoOrphanWorker'
  <2>1. CASE Purge(s)
    BY <2>1, <1>0, ScalePurge, Zenon
  <2>2. CASE ~Purge(s)
    <3>1. UNCHANGED scaleVars /\ \A a \in Actors : a # s => apc'[a] = apc[a]
      BY <1>7, <2>2, <1>0, Zenon DEF ElasticStop, BeginClose, CloseDone, LockPending, LockGranted, WaitWorkers,
         TakeTask, Handle, DrainEnds
    <3>. QED BY <3>1, <1>1, ActorsDisjoint, Zenon DEF Actors
  <2>. QED BY <2>1, <2>2, Zenon
<1>8. CASE (\E s \in Sessions : SessionEnds(s) /\ UNCHANGED scaleVars) \/ UNCHANGED elasticVars
  BY <1>8, <1>1, Zenon DEF SessionEnds, elasticVars, coreVars
<1>. QED
  BY <1>2, <1>3, <1>4, <1>5, <1>6, <1>7, <1>8, ScalePick, ScaleClose, Zenon
     DEF ElasticNext, MaybeScale, ElasticFinished

(* For every bound, ratio and hold, and any number of submitters that scale  *)
(* beside Stop: a worker out of the map is on its way out, because whoever   *)
(* took it out closes its retire channel, and no such channel is closed      *)
(* twice, which would panic.                                                 *)
THEOREM WorkersAccountedAlways == ElasticSpec => []WorkersAccounted
<1>1. ElasticInit => PoolInv /\ ScaleInv
  BY PoolStarts, ScaleStarts, Zenon DEF ElasticInit
<1>2. PoolInv /\ ScaleInv /\ [ElasticNext]_elasticVars => (PoolInv /\ ScaleInv)'
  BY PoolStepInv, ElasticStep, ScaleStep, Zenon
<1>3. PoolInv /\ ScaleInv => WorkersAccounted
  <2>. SUFFICES ASSUME PoolInv, ScaleInv PROVE WorkersAccounted
    BY Zenon
  <2>1. RetireClosedOnce
    BY DEF ScaleInv, Channels, RetireClosedOnce
  <2>. QED BY <2>1, Zenon DEF PoolInv, ScaleInv, ScaleTypes, ElasticTypeOK, WorkersAccounted
<1>. QED BY <1>1, <1>2, <1>3, PTL DEF ElasticSpec
=============================================================================
