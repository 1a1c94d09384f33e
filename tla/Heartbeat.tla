----------------------------- MODULE Heartbeat -----------------------------
(***************************************************************************)
(* The start/stop cycle that plugins with a background goroutine share       *)
(* (internal/plugin/lifecycle.go) and the Heartbeat plugin on top of it      *)
(* (heartbeat.go): concurrent Start and Stop calls, and a sweep that closes  *)
(* silent sessions, whose Close may hang.                                    *)
(***************************************************************************)
EXTENDS Integers, FiniteSets

CONSTANTS
  Owners,       \* callers of Start and Stop
  Sessions, Hung,   \* sessions of the manager; those whose Close never returns
  MaxCycles     \* bound: Start calls that start

ASSUME BeatAssumption == MaxCycles \in Nat

VARIABLES
  hStarted, closed, cycle,   \* lifecycle; cycle numbers the stopCh and WaitGroup
  hRunning,                  \* lifecycle.running: a cycle, or 0 for nil
  stopCh,                   \* cycles whose stop channel is closed
  closes,                   \* close(stopCh) calls of each cycle
  loop,                     \* the goroutine of each cycle
  todo, current,            \* its Snapshot, the session it closes ("none")
  waits,                    \* the cycle a Stop call waits for, 0 for none
  registered, silent        \* sessions registered; those silent for timeout

beatVars == <<hStarted, closed, cycle, hRunning, stopCh, closes, loop, todo, current, waits, registered, silent>>
cycleVars == <<hStarted, closed, cycle, hRunning, stopCh, closes>>
Cycles == 1..MaxCycles

BeatTypeOK ==
  /\ hStarted \in BOOLEAN /\ closed \in BOOLEAN /\ cycle \in 0..MaxCycles /\ hRunning \in 0..MaxCycles
  /\ loop \in [Cycles -> {"none", "wait", "sweep", "close", "done", "ended"}]
  /\ todo \subseteq Sessions /\ current \in Sessions \cup {"none"}
  /\ waits \in [Owners -> 0..MaxCycles] /\ registered \subseteq Sessions /\ silent \subseteq Sessions

BeatInit ==
  /\ hStarted = FALSE /\ closed = FALSE /\ cycle = 0 /\ hRunning = 0 /\ stopCh = {}
  /\ closes = [c \in Cycles |-> 0] /\ loop = [c \in Cycles |-> "none"]
  /\ todo = {} /\ current = "none" /\ waits = [u \in Owners |-> 0]
  /\ registered = Sessions /\ silent = {}

-----------------------------------------------------------------------------
(* Start: begin, a no-op while started, then the goroutine. *)
begin(u) ==
  /\ waits[u] = 0 /\ ~hStarted /\ cycle < MaxCycles
  /\ hStarted' = TRUE /\ closed' = FALSE /\ cycle' = cycle + 1 /\ hRunning' = cycle'
  /\ loop' = [loop EXCEPT ![cycle'] = "wait"]
  /\ UNCHANGED <<stopCh, closes, todo, current, waits, registered, silent>>

(* Mutation of shutdown: every Stop closes the channel. *)
shutdownEach(u) ==
  /\ waits[u] = 0 /\ hStarted
  /\ closed' = TRUE /\ waits' = [waits EXCEPT ![u] = hRunning]
  /\ stopCh' = stopCh \cup {cycle} /\ closes' = [closes EXCEPT ![cycle] = @ + 1]
  /\ UNCHANGED <<hStarted, cycle, hRunning, loop, todo, current, registered, silent>>

(* Stop: shutdown closes the channel once and waits for the running cycle.  *)
shutdown(u) ==
  /\ waits[u] = 0 /\ hStarted
  /\ closed' = TRUE /\ waits' = [waits EXCEPT ![u] = hRunning]
  /\ stopCh' = (IF closed THEN stopCh ELSE stopCh \cup {cycle})
  /\ closes' = (IF closed THEN closes ELSE [closes EXCEPT ![cycle] = @ + 1])
  /\ UNCHANGED <<hStarted, cycle, hRunning, loop, todo, current, registered, silent>>

(* wg.Wait returns. *)
WaitReturns(u) ==
  /\ waits[u] # 0 /\ loop[waits[u]] = "ended" /\ waits' = [waits EXCEPT ![u] = 0]
  /\ UNCHANGED <<cycleVars, loop, todo, current, registered, silent>>

-----------------------------------------------------------------------------
(* The goroutine: a tick starts Sweep on a snapshot of the manager, *)
Sweep(c) ==
  /\ loop[c] = "wait" /\ loop' = [loop EXCEPT ![c] = "sweep"] /\ todo' = registered
  /\ UNCHANGED <<cycleVars, current, waits, registered, silent>>

(* which looks at one session after the other and closes the silent ones in  *)
(* a goroutine of its own (safeSessionClose),                                *)
SweepOne(c) ==
  /\ loop[c] = "sweep"
  /\ IF todo = {} THEN loop' = [loop EXCEPT ![c] = "wait"] /\ UNCHANGED <<todo, current>>
     ELSE \E s \in todo : /\ todo' = todo \ {s}
                          /\ IF s \in silent THEN current' = s /\ loop' = [loop EXCEPT ![c] = "close"]
                             ELSE UNCHANGED <<current, loop>>
  /\ UNCHANGED <<cycleVars, waits, registered, silent>>

(* Mutation of CloseEnds: the sweep waits for the session's Close. *)
CloseEndsUnbounded(c) ==
  /\ loop[c] = "close" /\ current \notin Hung
  /\ loop' = [loop EXCEPT ![c] = "sweep"] /\ registered' = registered \ {current} /\ current' = "none"
  /\ UNCHANGED <<cycleVars, todo, waits, silent>>

(* and unregisters them when Close returned, panicked, or took too long.     *)
CloseEnds(c) ==
  /\ loop[c] = "close"
  /\ loop' = [loop EXCEPT ![c] = "sweep"] /\ registered' = registered \ {current} /\ current' = "none"
  /\ UNCHANGED <<cycleVars, todo, waits, silent>>

(* The closed channel ends the loop: done() first, then wg.Done.             *)
done(c) ==
  /\ \/ /\ loop[c] = "wait" /\ c \in stopCh /\ loop' = [loop EXCEPT ![c] = "done"]
        /\ hStarted' = FALSE /\ hRunning' = 0
     \/ loop[c] = "done" /\ loop' = [loop EXCEPT ![c] = "ended"] /\ UNCHANGED <<hStarted, hRunning>>
  /\ UNCHANGED <<closed, cycle, stopCh, closes, todo, current, waits, registered, silent>>

(* A session falls silent, or is heard of again. *)
Quiet(s) ==
  /\ silent' = (IF s \in silent THEN silent \ {s} ELSE silent \cup {s})
  /\ UNCHANGED <<cycleVars, loop, todo, current, waits, registered>>

LoopStep(c) == SweepOne(c) \/ CloseEnds(c)

BeatNext ==
  \/ \E u \in Owners : begin(u) \/ shutdown(u) \/ WaitReturns(u)
  \/ \E c \in Cycles : Sweep(c) \/ LoopStep(c) \/ done(c)
  \/ \E s \in Sessions : Quiet(s)

(* The goroutine runs, its ticker fires, select does not pass over a closed  *)
(* channel forever, and closeTimeout bounds Close.                           *)
BeatFairness ==
  /\ \A c \in Cycles : WF_beatVars(LoopStep(c)) /\ SF_beatVars(done(c)) /\ WF_beatVars(Sweep(c))
  /\ \A u \in Owners : WF_beatVars(WaitReturns(u))

BeatSpec == BeatInit /\ [][BeatNext]_beatVars /\ BeatFairness

-----------------------------------------------------------------------------
Live == {c \in Cycles : loop[c] \in {"wait", "sweep", "close"}}

(* However Start and Stop calls interleave there is at most one sweeping     *)
(* goroutine, exactly while the plugin counts as started, and no stop        *)
(* channel is closed twice (which would panic).                              *)
OneLoop ==
  /\ BeatTypeOK /\ Live = (IF hStarted THEN {cycle} ELSE {})
  /\ hStarted => hRunning = cycle
  /\ \A c \in Cycles : closes[c] <= 1

(* Every Stop returns, although the Close of some sessions never does.       *)
EveryStopReturns == \A u \in Owners : waits[u] # 0 ~> waits[u] = 0

(* A session that stays silent is unregistered, hung Close or not, unless    *)
(* the plugin is stopped.                                                    *)
SilentReaped == \A s \in Sessions : hStarted /\ s \in silent ~> s \notin registered \/ s \notin silent \/ ~hStarted
=============================================================================
