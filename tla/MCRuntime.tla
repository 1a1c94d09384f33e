----------------------------- MODULE MCRuntime -----------------------------
(* The process: the gateway with a staged and a plain server, two plugins    *)
(* and two callers; the application with two reloaders; the certificate      *)
(* cache; the heartbeat plugin; the session manager with two sessions over   *)
(* two shards and a CloseAll.  A behaviour runs one of them, the part it     *)
(* starts with.                                                              *)
EXTENDS Gateway, App, Heartbeat

CONSTANTS x1, Ids, Sharers, Shards, MaxSessions, Sweepers, Casters      \* session manager

VARIABLES
  part,
  table, count, ended, mPc, walk, mSeen, goal, before, mGot, accepted, removed, gauge, read \* session manager

managerVars == <<table, count, ended, mPc, walk, mSeen, goal, before, mGot, accepted, removed, gauge, read>>
all == <<part, vars, appVars, certVars, beatVars, managerVars>>

Manager == INSTANCE SessionManager WITH pc <- mPc, seen <- mSeen, got <- mGot

(* The plugins in priority order.  A first document; one it can be reloaded  *)
(* with; one with other listeners, one without the limiter, one that is not  *)
(* valid.                                                                    *)
MCPlugins == <<"p", "q">>
MCDoc(i, valid, listen, limiter) ==
  [valid |-> valid, listen |-> listen, limiter |-> limiter, level |-> i, black |-> i, rate |-> i]
MCFirst == MCDoc(1, TRUE, "x", TRUE)
MCDocs == {MCFirst, MCDoc(2, TRUE, "x", TRUE), MCDoc(3, TRUE, "y", TRUE),
           MCDoc(4, TRUE, "x", FALSE), MCDoc(5, FALSE, "x", TRUE)}

RuntimeInit ==
  /\ part \in {"gateway", "app", "certs", "beat", "manager"}
  /\ Init /\ AppInit /\ CertInit /\ BeatInit /\ Manager!Init

NotGateway == UNCHANGED <<appVars, certVars, beatVars, managerVars>>
NotApp == UNCHANGED <<vars, certVars, beatVars, managerVars>>
NotCerts == UNCHANGED <<vars, appVars, beatVars, managerVars>>
NotBeat == UNCHANGED <<vars, appVars, certVars, managerVars>>

(* The application, the certificates and the heartbeat end when they are     *)
(* stopped or at their bounds.                                               *)
RuntimeNext ==
  /\ UNCHANGED part
  /\ \/ part = "gateway" /\ Next /\ NotGateway
     \/ part = "app" /\ AppNext /\ NotApp
     \/ part = "certs" /\ CertNext /\ NotCerts
     \/ part = "beat" /\ BeatNext /\ NotBeat
     \/ part = "manager" /\ Manager!Next /\ UNCHANGED <<vars, appVars, certVars, beatVars>>
     \/ part \in {"app", "certs", "beat"} /\ UNCHANGED all

(* Each part's fairness, for the behaviours that run it; a strong fairness   *)
(* condition stands for one of every part, of which only one can move.       *)
RuntimeFairness ==
  /\ \A c \in Callers : WF_vars(part = "gateway" /\ Working(c))
  /\ \A c \in Reloaders : WF_appVars(part = "app" /\ Diff(c)) /\ WF_appVars(part = "app" /\ Apply(c))
  /\ \A s \in WebServers : WF_appVars(part = "app" /\ serveHTTP(s))
  /\ WF_appVars(part = "app" /\ WatcherEnds) /\ WF_appVars(part = "app" /\ AppStop)
  /\ WF_certVars(part = "certs" /\ Load) /\ WF_certVars(part = "certs" /\ WatchFiles)
  /\ WF_certVars(part = "certs" /\ Tick)
  /\ \A c \in Cycles : WF_beatVars(part = "beat" /\ LoopStep(c)) /\ WF_beatVars(part = "beat" /\ Sweep(c))
  /\ \A u \in Owners : WF_beatVars(part = "beat" /\ WaitReturns(u))
  /\ \A id \in Ids : WF_managerVars(part = "manager" /\ Manager!Transport(id) /\ mPc[id] \notin {"new", "live"})
  /\ \A i \in Ids \cup Sweepers : WF_managerVars(part = "manager" /\ Manager!Removal(i))
  /\ \A x \in Sweepers : WF_managerVars(part = "manager" /\ Manager!Sweep(x) /\ mPc[x] # "idle")
  /\ SF_all(/\ UNCHANGED part
            /\ \/ part = "gateway" /\ Locking("a") /\ NotGateway
               \/ part = "app" /\ Lock("a") /\ NotApp
               \/ part = "certs" /\ WatchEnds /\ NotCerts
               \/ part = "beat" /\ done(1) /\ NotBeat)
  /\ SF_all(/\ UNCHANGED part
            /\ \/ part = "gateway" /\ Locking("b") /\ NotGateway
               \/ part = "app" /\ Lock("b") /\ NotApp
               \/ part = "beat" /\ done(2) /\ NotBeat)
  /\ SF_appVars(part = "app" /\ main = "grace" /\ Signal)

RuntimeSpec == RuntimeInit /\ [][RuntimeNext]_all /\ RuntimeFairness

-----------------------------------------------------------------------------
(* Every call comes back: the gateway's calls, of which no failure path      *)
(* keeps startMu, App.Stop after the signal, the heartbeat's Stop, hung      *)
(* sessions or not, and CloseAll, whatever sessions come and go.             *)
EveryCallReturns ==
  CallsReturn /\ AppStopReturns /\ EveryStopReturns /\ Manager!CloseAllReturns

(* What a ticker watches for is acted on: a completed certificate rotation   *)
(* is served (watcher.go), a session that stays silent is unregistered       *)
(* (heartbeat.go).                                                           *)
WatchersAct == RotationServed /\ SilentReaped
=============================================================================
