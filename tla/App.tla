-------------------------------- MODULE App --------------------------------
(***************************************************************************)
(* The application (internal/app/app.go, reload.go, cmd/shark-socket/main.go): *)
(* the health and metrics servers and the certificate watchers around the    *)
(* gateway, configuration reloads that run concurrently with each other and  *)
(* with the shutdown, and the certificate cache with its watcher, a machine  *)
(* of its own below. The gateway itself is the module Gateway.               *)
(***************************************************************************)
EXTENDS Integers, FiniteSets

CONSTANTS
  Docs,        \* configurations: [valid, listen, limiter, level, black, rate]
  First,       \* the one the process started with
  Reloaders,     \* the SIGHUP goroutine and other callers of Reload
  Free,        \* nobody holds reloadMu
  MaxVersion,  \* bound: rotations of the certificates
  Bad          \* content of a half-written client CA

ASSUME AppAssumption == Free \notin Reloaders /\ First \in Docs /\ First.valid
ASSUME CertsAssumption == MaxVersion \in Nat \ {0} /\ Bad \notin Nat

VARIABLES
  config,            \* App.Config
  black, rate, level,   \* the hot values as the plugins and the logger hold them
  reloadMu, reload,  \* the holder; each Reload: [pc, doc]
  web, shut,         \* the goroutine of each HTTP server, Shutdown called
  watchers,          \* the certificate watchers: "run", "cancel", "ended"
  main               \* main: Start, the wait for a signal, Stop

appVars == <<config, black, rate, level, reloadMu, reload, web, shut, watchers, main>>
WebServers == {"health", "metrics"}

AppTypeOK ==
  /\ config \in Docs /\ reloadMu \in Reloaders \cup {Free}
  /\ \A c \in Reloaders : reload[c].pc \in {"idle", "lock", "diff", "black", "rate", "level", "config"}
  /\ web \in [WebServers -> {"off", "start", "serve", "ended"}] /\ watchers \in {"run", "cancel", "ended"}
  /\ main \in {"new", "run", "grace", "watch", "gateway", "health", "metrics", "wait", "done"}

(* App.New: validated configuration, plugins built from it, watchers running. *)
AppInit ==
  /\ config = First /\ black = First.black /\ rate = First.rate /\ level = First.level
  /\ reloadMu = Free /\ reload = [c \in Reloaders |-> [pc |-> "idle", doc |-> First]]
  /\ web = [s \in WebServers |-> "off"] /\ shut = {} /\ watchers = "run" /\ main = "new"

webVars == <<web, shut, watchers, main>>
ReloadAt(c, pc) == reload' = [reload EXCEPT ![c] = [pc |-> pc, doc |-> IF pc = "idle" THEN First ELSE @.doc]]

(* listenDiff: what needs a restart differs.                                 *)
listenDiff(running, next) == running.listen # next.listen

-----------------------------------------------------------------------------
(* Reload: validation, and whether the limiter stays in or out of the chain, *)
(* before the lock (a refused document ends it).                             *)
Reload(c) ==
  /\ reload[c].pc = "idle" /\ main \notin {"new", "done"}
  /\ \E d \in Docs : d.valid /\ d.limiter = First.limiter /\ reload' = [reload EXCEPT ![c] = [pc |-> "lock", doc |-> d]]
  /\ UNCHANGED <<config, black, rate, level, reloadMu, webVars>>

(* Mutation of Lock: Reload is not serialised against itself. *)
LockNone(c) ==
  /\ reload[c].pc = "lock" /\ ReloadAt(c, "diff")
  /\ UNCHANGED <<config, black, rate, level, reloadMu, webVars>>

Lock(c) ==
  /\ reload[c].pc = "lock" /\ reloadMu = Free /\ reloadMu' = c /\ ReloadAt(c, "diff")
  /\ UNCHANGED <<config, black, rate, level, webVars>>

(* A listener change refuses the whole document,                             *)
Diff(c) ==
  /\ reload[c].pc = "diff"
  /\ IF listenDiff(config, reload[c].doc) THEN ReloadAt(c, "idle") /\ reloadMu' = Free
     ELSE ReloadAt(c, "black") /\ UNCHANGED reloadMu
  /\ UNCHANGED <<config, black, rate, level, webVars>>

(* otherwise every hot field is stored, one atomic store after the other.    *)
Apply(c) ==
  /\ LET d == reload[c].doc IN
     \/ /\ reload[c].pc = "black" /\ ReloadAt(c, IF d.limiter THEN "rate" ELSE "level") /\ black' = d.black
        /\ UNCHANGED <<rate, level, config, reloadMu>>
     \/ /\ reload[c].pc = "rate" /\ ReloadAt(c, "level") /\ rate' = d.rate /\ UNCHANGED <<black, level, config, reloadMu>>
     \/ /\ reload[c].pc = "level" /\ ReloadAt(c, "config") /\ level' = d.level /\ UNCHANGED <<black, rate, config, reloadMu>>
     \/ /\ reload[c].pc = "config" /\ ReloadAt(c, "idle") /\ config' = d /\ reloadMu' = Free /\ UNCHANGED <<black, rate, level>>
  /\ UNCHANGED webVars

-----------------------------------------------------------------------------
hotVars == <<config, black, rate, level, reloadMu, reload>>

(* Start: a goroutine for each HTTP server, then Gateway.Start; an error of  *)
(* it ends main.                                                             *)
AppStart ==
  /\ main = "new" /\ main' \in {"run", "done"} /\ web' = [s \in WebServers |-> "start"]
  /\ UNCHANGED <<hotVars, shut, watchers>>

(* serveHTTP: ListenAndServe fails (serveErrors), serves, or finds the       *)
(* server shut down.                                                         *)
serveHTTP(s) ==
  /\ \/ web[s] = "start" /\ s \notin shut /\ web' = [web EXCEPT ![s] = "serve"]
     \/ web[s] = "start" /\ web' = [web EXCEPT ![s] = "ended"]
     \/ web[s] = "serve" /\ s \in shut /\ web' = [web EXCEPT ![s] = "ended"]
  /\ UNCHANGED <<hotVars, shut, watchers, main>>

(* A watcher finishes the Load it is in and ends (CertCache).                *)
WatcherEnds == watchers = "cancel" /\ watchers' = "ended" /\ UNCHANGED <<hotVars, web, shut, main>>

(* The signal; ShutdownDuration reads the configuration under reloadMu.      *)
Signal ==
  /\ \/ main = "run" /\ main' = "grace"
     \/ main = "grace" /\ reloadMu = Free /\ main' = "watch"
  /\ UNCHANGED <<hotVars, web, shut, watchers>>

(* Stop: the watchers are cancelled and waited for, the gateway stopped      *)
(* (within its context), both HTTP servers shut down and waited for.         *)
AppStop ==
  /\ \/ main = "watch" /\ watchers = "run" /\ watchers' = "cancel" /\ UNCHANGED <<main, shut>>
     \/ main = "watch" /\ watchers = "ended" /\ main' = "gateway" /\ UNCHANGED <<watchers, shut>>
     \/ main = "gateway" /\ main' = "health" /\ UNCHANGED <<watchers, shut>>
     \/ main = "health" /\ main' = "metrics" /\ shut' = shut \cup {"health"} /\ UNCHANGED watchers
     \/ main = "metrics" /\ main' = "wait" /\ shut' = shut \cup {"metrics"} /\ UNCHANGED watchers
     \/ main = "wait" /\ (\A s \in WebServers : web[s] = "ended") /\ main' = "done" /\ UNCHANGED <<watchers, shut>>
  /\ UNCHANGED <<hotVars, web>>

AppNext ==
  \/ \E c \in Reloaders : Reload(c) \/ Lock(c) \/ Diff(c) \/ Apply(c)
  \/ AppStart \/ (\E s \in WebServers : serveHTTP(s)) \/ WatcherEnds \/ Signal \/ AppStop

(* Every goroutine that has a step to take takes it, the mutex starves       *)
(* nobody; signals and reloads need not come.                                *)
AppFairness ==
  /\ \A c \in Reloaders : WF_appVars(Diff(c)) /\ WF_appVars(Apply(c)) /\ SF_appVars(Lock(c))
  /\ \A s \in WebServers : WF_appVars(serveHTTP(s))
  /\ WF_appVars(WatcherEnds) /\ SF_appVars(main = "grace" /\ Signal) /\ WF_appVars(AppStop)

AppSpec == AppInit /\ [][AppNext]_appVars /\ AppFairness

-----------------------------------------------------------------------------
(* Whenever no reload is under way, the blacklist, the log level and, where   *)
(* one is in the chain, the limiter's rate in force are those of App.Config: *)
(* two reloads never leave a mixture.                                        *)
LiveMatchesConfig ==
  reloadMu = Free /\ (\A c \in Reloaders : reload[c].pc \in {"idle", "lock"}) =>
    black = config.black /\ level = config.level /\ (config.limiter => rate = config.rate)

(* All or nothing: no value of a document that is refused, for whatever      *)
(* reason, is ever in force.                                                 *)
RefusedLeavesNoTrace ==
  LET accepted == {d \in Docs : d.valid /\ d.limiter = First.limiter /\ ~listenDiff(First, d)} IN
  /\ config \in accepted /\ black \in {d.black : d \in accepted}
  /\ rate \in {d.rate : d \in accepted} /\ level \in {d.level : d \in accepted}

(* Once the signal came, Stop returns: neither a reload, nor a server whose  *)
(* goroutine had not reached ListenAndServe, nor a watcher holds it up.      *)
AppStopReturns == main = "grace" ~> main = "done"

-----------------------------------------------------------------------------
(* Certificate hot reload: CertCache (internal/infra/tlsutil/cert_cache.go), *)
(* the polling watcher (watcher.go) and their use by App (app.go). An        *)
(* operator rewrites certificate, key and client CA file one after the       *)
(* other while the watcher polls and loads.                                  *)
Files == {"cert", "key", "ca"}
FileOrder == <<"cert", "key", "ca">>

VARIABLES
  file, mtime,             \* content (a version) and modification time of each file
  cert, pool,              \* CertCache: [v, load] of the pair, of the CA pool
  load,                    \* the Load in progress: "none", "key", "ca", "commit"
  got,                     \* what it read of each file
  loads,                   \* which Load that is: they alternate between 1 and 2
  seen, watcher,           \* modTimes; "load", "stat", "wait", "tick", "ended"
  cancelled, baseline      \* context done; the files when they were first stat'ed

certVars == <<file, mtime, cert, pool, load, got, loads, seen, watcher, cancelled, baseline>>

CertTypeOK ==
  /\ file \in [Files -> 1..MaxVersion \cup {Bad}] /\ cert.v \in 0..MaxVersion /\ pool.v \in 0..MaxVersion
  /\ load \in {"none", "cert", "key", "ca", "commit"} /\ watcher \in {"load", "stat", "wait", "ended"}

CertInit ==
  /\ file = [f \in Files |-> 1] /\ mtime = [f \in Files |-> 1]
  /\ cert = [v |-> 0, load |-> 0] /\ pool = [v |-> 0, load |-> 0]
  /\ load = "cert" /\ got = [f \in Files |-> 0] /\ loads = 1
  /\ seen = mtime /\ watcher = "load" /\ cancelled = FALSE /\ baseline = [f \in Files |-> 0]

(* The operator writes a new version; a CA file is seen half written.        *)
Rotate(f) ==
  /\ IF file[f] = Bad THEN file' = [file EXCEPT ![f] = (mtime[f] + 2) \div 2]
     ELSE file[f] < MaxVersion /\ file' = [file EXCEPT ![f] = IF f = "ca" THEN Bad ELSE @ + 1]
  /\ mtime' = [mtime EXCEPT ![f] = @ + 1]
  /\ UNCHANGED <<cert, pool, load, got, loads, seen, watcher, cancelled, baseline>>

-----------------------------------------------------------------------------
Fail == load' = "none" /\ UNCHANGED <<got, cert, pool>>

(* Load: certificate, key (they must match), client CA (it must parse), then *)
(* everything is committed under the lock.                                   *)
Load ==
  /\ load # "none"
  /\ CASE load = "cert" -> load' = "key" /\ got' = [got EXCEPT !["cert"] = file["cert"]] /\ UNCHANGED <<cert, pool>>
       [] load = "key" -> IF file["key"] # got["cert"] THEN Fail
                          ELSE load' = "ca" /\ got' = [got EXCEPT !["key"] = file["key"]] /\ UNCHANGED <<cert, pool>>
       [] load = "ca" -> IF file["ca"] = Bad THEN Fail
                         ELSE load' = "commit" /\ got' = [got EXCEPT !["ca"] = file["ca"]] /\ UNCHANGED <<cert, pool>>
       [] OTHER -> /\ load' = "none" /\ UNCHANGED got
                   /\ cert' = [v |-> got["cert"], load |-> loads] /\ pool' = [v |-> got["ca"], load |-> loads]
  /\ UNCHANGED <<file, mtime, loads, seen, watcher, cancelled, baseline>>

(* App.New: a failed first Load ends the start; then the files are stat'ed.  *)
WatchFiles ==
  /\ watcher \in {"load", "stat"} /\ load = "none"
  /\ IF watcher = "load" THEN watcher' = (IF cert.load = 0 THEN "ended" ELSE "stat") /\ UNCHANGED <<seen, baseline>>
     ELSE watcher' = "wait" /\ seen' = mtime /\ baseline' = mtime
  /\ UNCHANGED <<file, mtime, cert, pool, load, got, loads, cancelled>>

(* The watched files (CertCache.Files) whose time differs from the noted one. *)
Changed == {f \in Files : mtime[f] # seen[f]}
FirstChanged == CHOOSE f \in Changed : \A i, j \in 1..3 : FileOrder[i] = f /\ FileOrder[j] \in Changed => i <= j

(* A tick: the first file whose time changed is noted and onChange loads.    *)
Tick ==
  /\ watcher = "wait" /\ load = "none" /\ Changed # {}
  /\ seen' = [seen EXCEPT ![FirstChanged] = mtime[FirstChanged]]
  /\ load' = "cert" /\ loads' = 3 - loads
  /\ UNCHANGED <<file, mtime, cert, pool, got, watcher, cancelled, baseline>>

(* App.Stop cancels the context and waits for the watcher.                   *)
Cancel == ~cancelled /\ cancelled' = TRUE /\ UNCHANGED <<file, mtime, cert, pool, load, got, loads, seen, watcher, baseline>>

WatchEnds ==
  /\ watcher = "wait" /\ load = "none" /\ cancelled /\ watcher' = "ended"
  /\ UNCHANGED <<file, mtime, cert, pool, load, got, loads, seen, cancelled, baseline>>

CertNext == (\E f \in Files : Rotate(f)) \/ Load \/ WatchFiles \/ Tick \/ Cancel \/ WatchEnds

(* The ticker ticks, the watcher's goroutine runs; operators need not act.   *)
CertSpec == CertInit /\ [][CertNext]_certVars /\ WF_certVars(Load) /\ WF_certVars(WatchFiles) /\ WF_certVars(Tick) /\ SF_certVars(WatchEnds)

-----------------------------------------------------------------------------
(* The pair and the client CA pool a handshake sees come from one Load: a    *)
(* load that fails half way (key not yet rotated, CA half written) leaves    *)
(* both as they were.                                                        *)
OneLoad == cert.load = pool.load

AllAt(v) == \A f \in Files : file[f] = v /\ mtime[f] # baseline[f]

(* A rotation that is complete, and was made while the watcher watched, is   *)
(* served in the end, in whatever order the files were written and however   *)
(* the polls fell between the writes.                                        *)
RotationServed == \A v \in 2..MaxVersion :
  watcher = "wait" /\ AllAt(v) ~> (cert.v = v /\ pool.v = v) \/ ~AllAt(v) \/ cancelled

(* What is in force is all of one piece: concurrent reloads leave no mixture *)
(* of two documents and no value of a refused one (reload.go), and the key   *)
(* pair and client CA pool come from one Load (cert_cache.go).               *)
InForceIsWhole == AppTypeOK /\ LiveMatchesConfig /\ RefusedLeavesNoTrace /\ CertTypeOK /\ OneLoad
=============================================================================
