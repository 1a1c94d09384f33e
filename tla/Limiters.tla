------------------------------ MODULE Limiters ------------------------------
(***************************************************************************)
(* AutoBan's counters and bans (internal/plugin/autoban.go): every message   *)
(* of a peer counts, and the one that reaches the threshold bans it.  The    *)
(* maps are only touched under the plugin's lock.                            *)
(***************************************************************************)
EXTENDS Integers

CONSTANTS
  Peers,           \* peers (remoteKey)
  threshold, banDuration,
  MaxBanTime,        \* bound: clock
  NoBan

ASSUME BanAssumption ==
  /\ threshold \in Nat \ {0} /\ banDuration \in Nat /\ MaxBanTime \in Nat
  /\ NoBan \notin Nat /\ NoBan \notin [count : Nat, last : Nat]

VARIABLES
  aNow,
  counts,         \* key -> [count, last] or None
  banned          \* key -> expiry or None

banVars == <<aNow, counts, banned>>

BanTypeOK ==
  /\ aNow \in 0..MaxBanTime
  /\ \A k \in Peers : counts[k] # NoBan => counts[k].count \in 1..(threshold - 1)

BanInit == aNow = 0 /\ counts = [k \in Peers |-> NoBan] /\ banned = [k \in Peers |-> NoBan]

(* OnMessage: Record counts, and bans at the threshold. *)
Record(k) ==
  /\ LET n == (IF counts[k] = NoBan THEN 0 ELSE counts[k].count) + 1 IN
     IF n >= threshold
     THEN banned' = [banned EXCEPT ![k] = aNow + banDuration] /\ counts' = [counts EXCEPT ![k] = NoBan]
     ELSE counts' = [counts EXCEPT ![k] = [count |-> n, last |-> aNow]] /\ UNCHANGED banned
  /\ UNCHANGED aNow

(* OnAccept, Banned: a ban that has run out is removed when it is looked at. *)
LookUp(k) ==
  /\ banned[k] # NoBan /\ banned' = [banned EXCEPT ![k] = IF aNow < @ THEN @ ELSE NoBan]
  /\ UNCHANGED <<aNow, counts>>

(* sweep: bans that have run out, counters idle for longer than a ban. *)
BanSweep ==
  /\ banned' = [k \in Peers |-> IF banned[k] # NoBan /\ aNow > banned[k] THEN NoBan ELSE banned[k]]
  /\ counts' = [k \in Peers |-> IF counts[k] # NoBan /\ aNow - counts[k].last > banDuration THEN NoBan ELSE counts[k]]
  /\ UNCHANGED aNow

BanTick == aNow < MaxBanTime /\ aNow' = aNow + 1 /\ UNCHANGED <<counts, banned>>

BanNext == BanTick \/ BanSweep \/ \E k \in Peers : Record(k) \/ LookUp(k)
BanSpec == BanInit /\ [][BanNext]_banVars

(* A counter towards a ban is only forgotten when the peer was silent for    *)
(* the length of a ban, or got its ban; and a ban in force is not lifted     *)
(* before it has run out, by a lookup, a sweep or a second ban (sweep's      *)
(* comment, Record).                                                         *)
ForgivesInTime ==
  \A k \in Peers :
    /\ counts[k] # NoBan /\ counts'[k] = NoBan =>
         \/ aNow - counts[k].last > banDuration
         \/ banned'[k] # NoBan /\ banned'[k] = aNow + banDuration
    /\ banned[k] # NoBan /\ aNow < banned[k] => banned'[k] # NoBan /\ banned'[k] >= banned[k]

-----------------------------------------------------------------------------
(* The circuit breaker (internal/infra/circuitbreaker/circuitbreaker.go),    *)
(* used by concurrent calls of Execute.  Allow, Success and Failure each run *)
(* under the breaker's lock; between them the protected function runs, so a  *)
(* call's outcome may arrive in another state of the breaker than the one    *)
(* that admitted it.                                                         *)
CONSTANTS
  Calls, tripAfter, timeout,
  MaxTime        \* bound: clock

ASSUME BreakerAssumption == tripAfter \in Nat \ {0} /\ MaxTime \in Nat

VARIABLES
  state, failures, openedAt, halfOpenActive,   \* Breaker
  bNow,
  call           \* each call: "idle", "running" (admitted closed), "probe"

breakerVars == <<state, failures, openedAt, halfOpenActive, bNow, call>>

BreakerTypeOK ==
  /\ state \in {"closed", "open", "half-open"} /\ failures \in Nat /\ openedAt \in 0..MaxTime
  /\ halfOpenActive \in BOOLEAN /\ call \in [Calls -> {"idle", "running", "probe"}]

BreakerInit ==
  /\ state = "closed" /\ failures = 0 /\ openedAt = 0 /\ halfOpenActive = FALSE
  /\ bNow = 0 /\ call = [c \in Calls |-> "idle"]

(* Allow: an open breaker whose timeout has passed is half open, and lets    *)
(* one probe through.                                                        *)
Due == state = "open" /\ bNow - openedAt >= timeout
Allow(c) ==
  /\ call[c] = "idle"
  /\ state' = IF Due THEN "half-open" ELSE state
  /\ IF state' = "half-open" /\ ~halfOpenActive
     THEN halfOpenActive' = TRUE /\ call' = [call EXCEPT ![c] = "probe"]
     ELSE UNCHANGED halfOpenActive /\ call' = IF state' = "closed" THEN [call EXCEPT ![c] = "running"] ELSE call
  /\ UNCHANGED <<failures, openedAt, bNow>>

(* Mutation of Success: a stale success is honoured in every state. *)
SuccessStale == failures' = 0 /\ state' = "closed" /\ halfOpenActive' = FALSE /\ UNCHANGED openedAt

(* Success, Failure: ignored while the breaker is open. *)
Success ==
  IF state = "open" THEN UNCHANGED <<state, failures, openedAt, halfOpenActive>>
  ELSE failures' = 0 /\ state' = "closed" /\ halfOpenActive' = FALSE /\ UNCHANGED openedAt

Failure ==
  IF state = "open" THEN UNCHANGED <<state, failures, openedAt, halfOpenActive>>
  ELSE /\ failures' = failures + 1 /\ halfOpenActive' = FALSE
       /\ IF failures' >= tripAfter THEN state' = "open" /\ openedAt' = bNow ELSE UNCHANGED <<state, openedAt>>

(* Mutation of Execute: a panic is not recorded. *)
ExecutePanics(c) ==
  /\ call[c] # "idle" /\ call' = [call EXCEPT ![c] = "idle"] /\ UNCHANGED bNow
  /\ (Success \/ Failure \/ UNCHANGED <<state, failures, openedAt, halfOpenActive>>)

(* Execute after fn: an error or a panic is a failure. *)
Execute(c) ==
  /\ call[c] # "idle" /\ call' = [call EXCEPT ![c] = "idle"] /\ UNCHANGED bNow
  /\ (Success \/ Failure)

BreakerTick == bNow < MaxTime /\ bNow' = bNow + 1 /\ UNCHANGED <<state, failures, openedAt, halfOpenActive, call>>

BreakerNext == BreakerTick \/ \E c \in Calls : Allow(c) \/ Execute(c)
BreakerSpec == BreakerInit /\ [][BreakerNext]_breakerVars

(* The breaker never wedges: when it turns calls away because a probe is     *)
(* out, that probe is still running and its outcome, panic included, will    *)
(* free the place; and it is only ever half open with the failures that      *)
(* opened it, so one failed probe opens it again.                            *)
NotWedged ==
  /\ halfOpenActive => state = "half-open" /\ \E c \in Calls : call[c] = "probe"
  /\ state # "closed" => failures >= tripAfter
  /\ state = "closed" => failures < tripAfter

(* The open window is honoured: from the failure that opened the breaker     *)
(* until its timeout no outcome, however late, closes or half-opens it.      *)
KeepsOpenWindow == state = "open" /\ state' # "open" => bNow - openedAt >= timeout

-----------------------------------------------------------------------------
(* The breaker only turns calls away while a probe is running or the window  *)
(* is open (circuitbreaker.go), and a peer is banned as soon as its messages *)
(* reach the threshold (autoban.go).                                         *)
LimitersHold == BanTypeOK /\ BreakerTypeOK /\ NotWedged

(* No step undoes what was settled: a ban or a counter towards one is not    *)
(* forgotten early (autoban.go), and no outcome, however late, ends the      *)
(* breaker's open window early.                                              *)
NothingUndoneEarly == [][ForgivesInTime]_banVars /\ [][KeepsOpenWindow]_breakerVars
=============================================================================
