------------------------------- MODULE Gateway -------------------------------
(***************************************************************************)
(* The gateway's lifecycle (internal/runtime/gateway.go) with the plugin    *)
(* chain's StartAll and StopAll (plugin_chain.go).                          *)
(*                                                                          *)
(* Callers invoke Register, Start and Stop from any goroutine; startMu      *)
(* serialises them, and every call the gateway makes while it holds startMu *)
(* (a server's stage, a plugin's Start or Stop, the admin listener) is a    *)
(* step that may fail.  Servers and plugins are the gateway's collaborators:*)
(* a server accepts from Start to StopAccept, a staged one has closed its   *)
(* sessions when CloseSessions returns before its deadline.                 *)
(***************************************************************************)
EXTENDS Integers, Sequences, Functions

CONSTANTS
  Callers,    \* goroutines that call the gateway
  Servers,    \* the servers that can be registered
  Staged,     \* those that implement StagedServer
  Plugins,    \* the lifecycle-aware plugins, in priority order
  Admin,      \* whether an admin address is configured
  MaxCalls,   \* bound: calls made in a behaviour
  Nobody

ASSUME GatewayAssumption ==
  /\ Nobody \notin Callers /\ Servers # {} /\ Admin \in BOOLEAN /\ MaxCalls \in Nat
  /\ Plugins \in Seq({Plugins[i] : i \in DOMAIN Plugins})

VARIABLES
  order,      \* the registered servers, in registration order
  started,    \* started atomic.Bool
  startMu,    \* the caller that holds startMu
  pc,         \* progress of each caller
  arg,        \* arg[c]: the server caller c registers
  at,         \* the index the holder of startMu has reached
  serving,    \* the servers that accept connections
  live,       \* the servers that have open sessions
  running,    \* the plugins between Start and Stop
  admin,      \* whether the admin listener is up
  late,       \* whether a stage of this Stop ran into its deadline
  calls       \* calls made so far

vars == <<order, started, startMu, pc, arg, at, serving, live, running, admin,
          late, calls>>
envVars == <<serving, live, running, admin>>
callVars == <<arg, calls>>

InStart == {"plugins", "unplug", "servers", "unserve", "unplugAll", "admin"}
InStop == {"stopAccept", "drain", "closeSessions", "closeAll", "stopAll", "adminStop"}
Waiting == {"register", "start", "stop"}

TypeOK ==
  /\ order \in Seq(Servers) /\ IsInjective(order)
  /\ started \in BOOLEAN
  /\ startMu \in Callers \cup {Nobody}
  /\ pc \in [Callers -> {"idle", "added", "failed", "ok"} \cup Waiting \cup InStart \cup InStop]
  /\ arg \in [Callers -> Servers]
  /\ at \in Nat
  /\ serving \subseteq Servers /\ live \subseteq Servers
  /\ running \subseteq Range(Plugins)
  /\ admin \in BOOLEAN /\ late \in BOOLEAN
  /\ calls \in 0..MaxCalls

Init ==
  /\ order = <<>>
  /\ started = FALSE
  /\ startMu = Nobody
  /\ pc = [c \in Callers |-> "idle"]
  /\ arg = [c \in Callers |-> CHOOSE s \in Servers : TRUE]
  /\ at = 0
  /\ serving = {} /\ live = {} /\ running = {}
  /\ admin = FALSE /\ late = FALSE
  /\ calls = 0

Goto(c, l) == pc' = [pc EXCEPT ![c] = l]

(* A caller invokes an operation and waits for startMu. *)
Call(c) ==
  /\ pc[c] \in {"idle", "added", "failed", "ok"}
  /\ calls < MaxCalls
  /\ calls' = calls + 1
  /\ \E op \in Waiting, s \in Servers :
       /\ op # "register" => s = arg[c]
       /\ Goto(c, op)
       /\ arg' = [arg EXCEPT ![c] = s]
  /\ UNCHANGED <<order, started, startMu, at, envVars, late>>

-----------------------------------------------------------------------------
(* Register, all of it under startMu. *)
Register(c) ==
  /\ pc[c] = "register"
  /\ startMu = Nobody
  /\ IF started \/ arg[c] \in Range(order)
       THEN Goto(c, "failed") /\ UNCHANGED order
       ELSE Goto(c, "added") /\ order' = Append(order, arg[c])
  /\ UNCHANGED <<started, startMu, at, envVars, late, callVars>>

-----------------------------------------------------------------------------
(* Start: refuse, or take startMu and start the plugins in priority order.   *)
Start(c) ==
  /\ pc[c] = "start"
  /\ startMu = Nobody
  /\ IF started \/ order = <<>>
       THEN Goto(c, "failed") /\ UNCHANGED <<startMu, at>>
       ELSE Goto(c, "plugins") /\ startMu' = c /\ at' = 1
  /\ UNCHANGED <<order, started, envVars, late, callVars>>

(* StartAll; a plugin that fails has the ones before it stopped, last first. *)
StartPlugin(c) ==
  /\ pc[c] = "plugins"
  /\ IF at > Len(Plugins)
       THEN Goto(c, "servers") /\ at' = 1 /\ UNCHANGED running
       ELSE \/ running' = running \cup {Plugins[at]} /\ at' = at + 1 /\ UNCHANGED pc
            \/ at' = at - 1 /\ Goto(c, "unplug") /\ UNCHANGED running
  /\ UNCHANGED <<order, started, startMu, serving, live, admin, late, callVars>>

(* Release startMu with outcome l. *)
Return(c, l) == Goto(c, l) /\ startMu' = Nobody /\ at' = 0

(* Mutation of UndoPlugin: off by one, the first plugin keeps running. *)
UndoPluginShort(c) ==
  /\ pc[c] = "unplug"
  /\ IF at <= 1
       THEN Return(c, "failed") /\ UNCHANGED running
       ELSE running' = running \ {Plugins[at]} /\ at' = at - 1 /\ UNCHANGED <<pc, startMu>>
  /\ UNCHANGED <<order, started, serving, live, admin, late, callVars>>

(* Mutation of UndoPlugin: an early return without the unlock. *)
UndoPluginLocked(c) ==
  /\ pc[c] = "unplug"
  /\ IF at = 0
       THEN Goto(c, "failed") /\ UNCHANGED <<running, at, startMu>>
       ELSE running' = running \ {Plugins[at]} /\ at' = at - 1 /\ UNCHANGED <<pc, startMu>>
  /\ UNCHANGED <<order, started, serving, live, admin, late, callVars>>

UndoPlugin(c) ==
  /\ pc[c] = "unplug"
  /\ IF at = 0
       THEN Return(c, "failed") /\ UNCHANGED running
       ELSE running' = running \ {Plugins[at]} /\ at' = at - 1 /\ UNCHANGED <<pc, startMu>>
  /\ UNCHANGED <<order, started, serving, live, admin, late, callVars>>

StartServer(c) ==
  /\ pc[c] = "servers"
  /\ IF at > Len(order)
       THEN Goto(c, "admin") /\ UNCHANGED <<serving, at>>
       ELSE \/ serving' = serving \cup {order[at]} /\ at' = at + 1 /\ UNCHANGED pc
            \/ at' = at - 1 /\ Goto(c, "unserve") /\ UNCHANGED serving
  /\ UNCHANGED <<order, started, startMu, live, running, admin, late, callVars>>

(* The admin listener comes up last, and only then is the gateway ready.     *)
StartAdmin(c) ==
  /\ pc[c] = "admin"
  /\ \/ /\ admin' = Admin
        /\ started' = TRUE
        /\ Return(c, "ok")
     \/ /\ Admin
        /\ Goto(c, "unserve")
        /\ at' = Len(order)
        /\ UNCHANGED <<admin, started, startMu>>
  /\ UNCHANGED <<order, serving, live, running, late, callVars>>

(* rollbackStart: the started servers, last first, then the whole chain.  A  *)
(* server whose Stop overruns keeps its sessions but accepts no more.        *)
UndoServer(c) ==
  /\ pc[c] = "unserve"
  /\ IF at = 0
       THEN Goto(c, "unplugAll") /\ at' = Len(Plugins) /\ UNCHANGED <<serving, live>>
       ELSE /\ serving' = serving \ {order[at]}
            /\ live' \in {live, live \ {order[at]}}
            /\ at' = at - 1
            /\ UNCHANGED pc
  /\ UNCHANGED <<order, started, startMu, running, admin, late, callVars>>

(* StopAll, from rollbackStart or from Stop, which goes on to label next.    *)
StopPlugin(c, here, next) ==
  /\ pc[c] = here
  /\ IF at = 0
       THEN /\ IF next = "failed" THEN Return(c, next)
               ELSE Goto(c, next) /\ UNCHANGED <<startMu, at>>
            /\ UNCHANGED running
       ELSE running' = running \ {Plugins[at]} /\ at' = at - 1 /\ UNCHANGED <<pc, startMu>>
  /\ UNCHANGED <<order, started, serving, live, admin, late, callVars>>

-----------------------------------------------------------------------------
(* Stop: not ready from the first step, whatever happens after.              *)
Stop(c) ==
  /\ pc[c] = "stop"
  /\ startMu = Nobody
  /\ startMu' = c
  /\ started' = FALSE
  /\ late' = FALSE
  /\ at' = 1
  /\ Goto(c, "stopAccept")
  /\ UNCHANGED <<order, envVars, callVars>>

(* One stage over all servers; the next stage begins when all have had it.   *)
Stage(c, here, next) ==
  /\ pc[c] = here
  /\ at > Len(order)
  /\ at' = 1
  /\ Goto(c, next)
  /\ UNCHANGED <<order, started, startMu, envVars, late, callVars>>

StopAccept(c) ==
  /\ pc[c] = "stopAccept"
  /\ at <= Len(order)
  /\ serving' = IF order[at] \in Staged THEN serving \ {order[at]} ELSE serving
  /\ at' = at + 1
  /\ UNCHANGED <<order, started, startMu, pc, live, running, admin, late, callVars>>

Drain(c) ==
  /\ pc[c] = "drain"
  /\ at <= Len(order)
  /\ at' = at + 1
  /\ UNCHANGED <<order, started, startMu, pc, envVars, late, callVars>>

(* CloseSessions of a staged server, Stop of any other, within the deadline. *)
CloseSessions(c) ==
  /\ pc[c] = "closeSessions"
  /\ at <= Len(order)
  /\ serving' = serving \ {order[at]}
  /\ \/ live' = live \ {order[at]} /\ UNCHANGED late
     \/ late' = TRUE /\ UNCHANGED live
  /\ at' = at + 1
  /\ UNCHANGED <<order, started, startMu, pc, running, admin, callVars>>

CloseAll(c) ==
  /\ pc[c] = "closeAll"
  /\ \/ live' = {} /\ UNCHANGED late
     \/ late' = TRUE /\ UNCHANGED live
  /\ at' = Len(Plugins)
  /\ Goto(c, "stopAll")
  /\ UNCHANGED <<order, started, startMu, serving, running, admin, callVars>>

StopAdmin(c) ==
  /\ pc[c] = "adminStop"
  /\ admin' = FALSE
  /\ Return(c, "ok")
  /\ UNCHANGED <<order, started, serving, live, running, late, callVars>>

-----------------------------------------------------------------------------
(* A client connects to a server that accepts. *)
Connect(s) ==
  /\ s \in serving \ live
  /\ live' = live \cup {s}
  /\ UNCHANGED <<order, started, startMu, pc, at, serving, running, admin, late, callVars>>

Working(c) ==
  \/ StartPlugin(c)
  \/ UndoPlugin(c)
  \/ StartServer(c)
  \/ StartAdmin(c)
  \/ UndoServer(c)
  \/ StopPlugin(c, "unplugAll", "failed")
  \/ StopAccept(c)
  \/ Stage(c, "stopAccept", "drain")
  \/ Drain(c)
  \/ Stage(c, "drain", "closeSessions")
  \/ CloseSessions(c)
  \/ Stage(c, "closeSessions", "closeAll")
  \/ CloseAll(c)
  \/ StopPlugin(c, "stopAll", "adminStop")
  \/ StopAdmin(c)

Locking(c) == Register(c) \/ Start(c) \/ Stop(c)

Finished ==
  /\ calls = MaxCalls
  /\ \A c \in Callers : pc[c] \notin Waiting \cup InStart \cup InStop
  /\ UNCHANGED vars

Next ==
  \/ \E c \in Callers : Call(c) \/ Locking(c) \/ Working(c)
  \/ \E s \in Servers : Connect(s)
  \/ Finished

Spec == Init /\ [][Next]_vars

(* Stages are bounded by their deadlines and a goroutine that runs gets on;  *)
(* sync.Mutex hands the lock to a waiter that has starved for 1ms.           *)
Fairness ==
  \A c \in Callers : WF_vars(Working(c)) /\ SF_vars(Locking(c))

FairSpec == Spec /\ Fairness

-----------------------------------------------------------------------------
(* Ready() never answers true for a gateway that is half up: every server    *)
(* ever registered accepts, every plugin runs, the admin listener is up, and *)
(* this holds through concurrent Register, Start and Stop.                   *)
ReadyMeansServing ==
  started => /\ Range(order) \subseteq serving
             /\ Range(Plugins) \subseteq running
             /\ admin = Admin

(* Whenever nobody is inside Start or Stop and the gateway is not ready,     *)
(* nothing is left behind: a Start that failed at any plugin, server or at   *)
(* the admin listener has undone the rest, and so has every Stop, in         *)
(* whatever order they were called.                                          *)
NothingLeftBehind ==
  startMu = Nobody /\ ~started => serving = {} /\ running = {} /\ ~admin

(* "Stop lifecycle-aware plugins only after every session is closed": unless *)
(* a stage ran into its deadline, no plugin is stopped while a session is    *)
(* open.                                                                     *)
PluginsOutliveSessions ==
  \A c \in Callers : pc[c] \in {"stopAll", "adminStop"} /\ ~late => live = {}

(* gateway.go: Ready() never answers true for a gateway that is half up, a   *)
(* failed Start and every Stop leave nothing running, and plugins stop only  *)
(* after every session is closed.                                            *)
GatewayWhole ==
  TypeOK /\ ReadyMeansServing /\ NothingLeftBehind /\ PluginsOutliveSessions

(* Every call returns: no failure path leaves startMu locked.                *)
CallsReturn ==
  \A c \in Callers : pc[c] \in Waiting ~> pc[c] \in {"added", "failed", "ok"}
=============================================================================
