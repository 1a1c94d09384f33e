----------------------------- MODULE MCHandling -----------------------------
(* What a message passes on the way to its handler: the plugin chain with    *)
(* three plugins, two of equal priority; the rate limit; the cluster plugin  *)
(* over publish/subscribe; the message log; and the fixed-size pool over a   *)
(* queue of one slot, with three tasks and two goroutines that call Stop.  A *)
(* behaviour runs one of them, the part it starts with.                      *)
EXTENDS WorkerPool

CONSTANTS t1, t2, t3, s1, w1, k1, k2, None

MCOwner == [t \in Tasks |-> s1]

VARIABLES
  part,
  view, held, at, cPc, acceptedBy, closedBy,                                        \* plugin chain
  now, rate, window, setting, loop, counters, passed, smallest,                     \* rate limit
  topic, retopics, subs, dropped, chan, chanOpen, consumer, starts, stopped, pub,   \* cluster
  broadcast, panicked,
  kind, disk, open, next, mutex, op, written, acked, crashes                        \* message log

chainVars == <<view, held, at, cPc, acceptedBy, closedBy>>
rateVars == <<now, rate, window, setting, loop, counters, passed, smallest>>
clusterVars == <<topic, retopics, subs, dropped, chan, chanOpen, consumer, starts, stopped, pub, broadcast, panicked>>

logVars == <<kind, disk, open, next, mutex, op, written, acked, crashes>>

Chain == INSTANCE PluginChain WITH
  Plugins <- {"ban", "limit", "beat"}, Priority <- [ban |-> 1, limit |-> 2, beat |-> 2], Sessions <- {"s", "t"},
  spc <- cPc
Limiter == INSTANCE RateLimit WITH
  Keys <- {"k"}, Loops <- {"a", "b"}, Limits <- {<<1, 2>>, <<2, 3>>}, MaxTime <- 3, MaxLag <- 1
Cluster == INSTANCE ClusterBus WITH
  Nodes <- {"m", "n"}, Publishers <- {"p"}, NodeOf <- [p |-> "m"], Topics <- {"t", "u"},
  DefaultTopic <- "t", Buffer <- 1, MaxMsgs <- [p |-> 3], MaxStarts <- 2, MaxTopics <- 1

Log == INSTANCE MessageLog WITH Clients <- {"c", "d"}, MaxSeq <- 3, MaxCrashes <- 2, MaxData <- 4

HandlingInit ==
  /\ part \in {"chain", "rate", "cluster", "log", "pool"}
  /\ CoreInit /\ Chain!Init /\ Limiter!Init /\ Cluster!Init /\ Log!Init
  /\ part # "log" => kind = "bolt"
  /\ part # "pool" => policy = "block"
  /\ part # "rate" => rate = 1

(* The tasks are interchangeable, and so are the goroutines that call Stop:  *)
(* they are named in the order in which they begin.                          *)
InTurn ==
  /\ spc'[t3] # "idle" => spc'[t2] # "idle"
  /\ spc'[t2] # "idle" => spc'[t1] # "idle"
  /\ apc'[k2] # "off" => apc'[k1] # "off"

(* The rate limit, the cluster and the log end at their bounds. *)
HandlingNext ==
  /\ UNCHANGED part
  /\ \/ part = "pool" /\ PoolNext /\ InTurn /\ UNCHANGED <<chainVars, rateVars, clusterVars, logVars>>
     \/ part = "chain" /\ Chain!Next /\ UNCHANGED <<coreVars, rateVars, clusterVars, logVars>>
     \/ part = "rate" /\ Limiter!Next /\ UNCHANGED <<coreVars, chainVars, clusterVars, logVars>>
     \/ part = "cluster" /\ Cluster!Next /\ UNCHANGED <<coreVars, chainVars, rateVars, logVars>>
     \/ part = "log" /\ Log!Next /\ UNCHANGED <<coreVars, chainVars, rateVars, clusterVars>>
     \/ part \in {"rate", "cluster", "log"} /\ UNCHANGED <<coreVars, chainVars, rateVars, clusterVars, logVars>>

(* The pool's fairness, for the behaviours that run it. *)
HandlingFairness ==
  /\ WF_coreVars(part = "pool" /\ StartWorkers)
  /\ \A t \in Tasks : WF_coreVars(part = "pool" /\ PoolSubmit(t))
  /\ \A w \in Workers : WF_coreVars(part = "pool" /\ PoolRun(w))
  /\ \A s \in Stoppers : WF_coreVars(part = "pool" /\ PoolStop(s) /\ apc[s] # "off")

HandlingSpec ==
  HandlingInit /\ [][HandlingNext]_<<part, coreVars, chainVars, rateVars, clusterVars, logVars>> /\ HandlingFairness

-----------------------------------------------------------------------------
(* The plugins a session passes: every plugin that accepted it is closed     *)
(* once, in reverse order (plugin_chain.go), and a peer never gets more      *)
(* messages through than its window allows (rate_limit.go).                  *)
PluginsHold == Chain!TypeOK /\ Chain!CloseMirrorsAccept /\ Limiter!TypeOK /\ Limiter!WindowKept

(* Append keeps the order of the plugins it finds: "equal priorities execute *)
(* in append order".                                                         *)
OrderKept == [][Chain!KeepsOrder]_chainVars

(* No message is lost, repeated or reordered on the way.  A node broadcasts  *)
(* the messages of other nodes once and in order, and Publish never sends on *)
(* a channel that a consumer closed (pubsub.go); no message the log          *)
(* acknowledged is lost or overwritten, and Replay hands over the log as it  *)
(* was at one moment (message_log.go).                                       *)
MessagesKept ==
  /\ Cluster!TypeOK /\ Cluster!NoSendOnClosed /\ Cluster!RemoteOnceInOrder
  /\ Log!TypeOK /\ Log!AckedKept /\ Log!ReplayIsACut
=============================================================================
