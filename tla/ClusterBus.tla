----------------------------- MODULE ClusterBus -----------------------------
(***************************************************************************)
(* The Cluster plugin of several nodes (internal/plugin/cluster.go) on one   *)
(* PubSub (internal/infra/pubsub/pubsub.go): OnMessage publishes, each       *)
(* node's consumer broadcasts what other nodes published, consumers start    *)
(* and stop while messages are being published.                              *)
(***************************************************************************)
EXTENDS Integers, Sequences, SequencesExt

CONSTANTS
  Nodes, Publishers,   \* nodes; sessions whose OnMessage publishes
  NodeOf,              \* the node of each publisher
  Topics, DefaultTopic, Buffer,   \* topics; capacity of a subscription
  MaxMsgs, MaxStarts, MaxTopics   \* bounds: messages of each publisher, Starts, WithTopic calls

VARIABLES
  topic, retopics,     \* Cluster.topic, WithTopic calls so far
  subs,                \* PubSub.subs: the subscribers of a topic, in order
  dropped,             \* PubSub.dropped
  chan, chanOpen,      \* the subscription of each node
  consumer, starts, stopped,   \* its goroutine; Starts; stop channel closed
  pub,                 \* each publisher: [pc, sent, topic, todo, lost]
  broadcast,           \* what each node's manager broadcast
  panicked             \* a send on a closed channel

vars == <<topic, retopics, subs, dropped, chan, chanOpen, consumer, starts, stopped, pub, broadcast, panicked>>

Idle == [pc |-> "idle", sent |-> 0, topic |-> "", todo |-> <<>>, lost |-> 0]
Envelopes == UNION {[pub : {p}, seq : 1..MaxMsgs[p], topic : Topics] : p \in Publishers}

TypeOK ==
  /\ topic \in [Nodes -> Topics] /\ \A t \in Topics : \A i \in DOMAIN subs[t] : subs[t][i] \in Nodes
  /\ \A n \in Nodes : Len(chan[n]) <= Buffer /\ \A i \in DOMAIN chan[n] : chan[n][i] \in Envelopes
  /\ consumer \in [Nodes -> {"off", "run", "cancel"}] /\ \A p \in Publishers : pub[p].pc \in {"idle", "send", "count"}

Init ==
  /\ topic = [n \in Nodes |-> DefaultTopic] /\ retopics = 0
  /\ subs = [t \in Topics |-> <<>>] /\ dropped = [t \in Topics |-> 0]
  /\ chan = [n \in Nodes |-> <<>>] /\ chanOpen = [n \in Nodes |-> "none"]
  /\ consumer = [n \in Nodes |-> "off"] /\ starts = 0 /\ stopped = [n \in Nodes |-> FALSE]
  /\ pub = [p \in Publishers |-> Idle] /\ broadcast = [n \in Nodes |-> <<>>] /\ panicked = FALSE

-----------------------------------------------------------------------------
(* The read lock is held by the publishers inside their send loop.           *)
NoReader == \A p \in Publishers : pub[p].pc # "send"

(* Start: begin and Subscribe on the topic of the moment.                    *)
Subscribe(n) ==
  /\ consumer[n] = "off" /\ starts < MaxStarts /\ NoReader
  /\ starts' = starts + 1 /\ consumer' = [consumer EXCEPT ![n] = "run"] /\ stopped' = [stopped EXCEPT ![n] = FALSE]
  /\ chan' = [chan EXCEPT ![n] = <<>>] /\ chanOpen' = [chanOpen EXCEPT ![n] = topic[n]]
  /\ subs' = [subs EXCEPT ![topic[n]] = Append(@, n)]
  /\ UNCHANGED <<topic, retopics, dropped, pub, broadcast, panicked>>

(* Mutation of Cancel: the exclusive lock is not taken. *)
CancelUnlocked(n) ==
  /\ consumer[n] = "cancel"
  /\ LET t == chanOpen[n] IN
       /\ subs' = [subs EXCEPT ![t] = Remove(@, n)]
       /\ dropped' = (IF subs[t] = <<n>> THEN [dropped EXCEPT ![t] = 0] ELSE dropped)
  /\ chanOpen' = [chanOpen EXCEPT ![n] = "closed"] /\ consumer' = [consumer EXCEPT ![n] = "off"]
  /\ UNCHANGED <<topic, retopics, chan, starts, stopped, pub, broadcast, panicked>>

(* cancel: under the exclusive lock the channel leaves the list and closes;  *)
(* the last one takes the topic's drop counter with it. done() follows.      *)
Cancel(n) ==
  /\ consumer[n] = "cancel" /\ NoReader
  /\ LET t == chanOpen[n] IN
       /\ subs' = [subs EXCEPT ![t] = Remove(@, n)]
       /\ dropped' = (IF subs[t] = <<n>> THEN [dropped EXCEPT ![t] = 0] ELSE dropped)
  /\ chanOpen' = [chanOpen EXCEPT ![n] = "closed"] /\ consumer' = [consumer EXCEPT ![n] = "off"]
  /\ UNCHANGED <<topic, retopics, chan, starts, stopped, pub, broadcast, panicked>>

Stop(n) ==
  /\ consumer[n] = "run" /\ ~stopped[n] /\ stopped' = [stopped EXCEPT ![n] = TRUE]
  /\ UNCHANGED <<topic, retopics, subs, dropped, chan, chanOpen, consumer, starts, pub, broadcast, panicked>>

WithTopic(n) ==
  /\ retopics < MaxTopics /\ retopics' = retopics + 1 /\ \E t \in Topics : topic' = [topic EXCEPT ![n] = t]
  /\ UNCHANGED <<subs, dropped, chan, chanOpen, consumer, starts, stopped, pub, broadcast, panicked>>

-----------------------------------------------------------------------------
(* OnMessage: the envelope carries node and topic; Publish takes the read    *)
(* lock,                                                                     *)
OnMessage(p) ==
  /\ pub[p].pc = "idle" /\ pub[p].sent < MaxMsgs[p]
  /\ LET t == topic[NodeOf[p]] IN
       pub' = [pub EXCEPT ![p] = [pc |-> "send", sent |-> @.sent + 1, topic |-> t, todo |-> subs[t], lost |-> 0]]
  /\ UNCHANGED <<topic, retopics, subs, dropped, chan, chanOpen, consumer, starts, stopped, broadcast, panicked>>

(* offers the message to each subscriber without blocking,                   *)
Send(p) ==
  /\ pub[p].pc = "send" /\ pub[p].todo # <<>>
  /\ LET n == Head(pub[p].todo)
         e == [pub |-> p, seq |-> pub[p].sent, topic |-> pub[p].topic]
         full == Len(chan[n]) = Buffer
     IN /\ panicked' = (panicked \/ chanOpen[n] = "closed")
        /\ chan' = (IF full THEN chan ELSE [chan EXCEPT ![n] = Append(@, e)])
        /\ pub' = [pub EXCEPT ![p].todo = Tail(@), ![p].lost = IF full THEN @ + 1 ELSE @]
  /\ UNCHANGED <<topic, retopics, subs, dropped, chanOpen, consumer, starts, stopped, broadcast>>

(* lets go of the lock, and counts the drops under the exclusive one.        *)
Unlock(p) ==
  /\ pub[p].pc = "send" /\ pub[p].todo = <<>>
  /\ pub' = [pub EXCEPT ![p] = IF @.lost > 0 THEN [@ EXCEPT !.pc = "count"] ELSE [Idle EXCEPT !.sent = pub[p].sent]]
  /\ UNCHANGED <<topic, retopics, subs, dropped, chan, chanOpen, consumer, starts, stopped, broadcast, panicked>>

CountDrops(p) ==
  /\ pub[p].pc = "count" /\ NoReader
  /\ dropped' = [dropped EXCEPT ![pub[p].topic] = @ + pub[p].lost]
  /\ pub' = [pub EXCEPT ![p] = [Idle EXCEPT !.sent = pub[p].sent]]
  /\ UNCHANGED <<topic, retopics, subs, chan, chanOpen, consumer, starts, stopped, broadcast, panicked>>

(* What a received envelope makes the node broadcast: nothing of its own,    *)
(* nothing of another topic.                                                 *)
handleClusterMessage(n, e) == IF NodeOf[e.pub] = n \/ e.topic # topic[n] THEN <<>> ELSE <<e>>

(* consume: select between a message and the stop channel.                   *)
consume(n) ==
  /\ consumer[n] = "run"
  /\ \/ /\ chan[n] # <<>> /\ chan' = [chan EXCEPT ![n] = Tail(@)]
        /\ broadcast' = [broadcast EXCEPT ![n] = @ \o handleClusterMessage(n, Head(chan[n]))]
        /\ UNCHANGED consumer
     \/ stopped[n] /\ consumer' = [consumer EXCEPT ![n] = "cancel"] /\ UNCHANGED <<chan, broadcast>>
  /\ UNCHANGED <<topic, retopics, subs, dropped, chanOpen, starts, stopped, pub, panicked>>

Next ==
  \/ \E n \in Nodes : Subscribe(n) \/ Cancel(n) \/ Stop(n) \/ WithTopic(n) \/ consume(n)
  \/ \E p \in Publishers : OnMessage(p) \/ Send(p) \/ Unlock(p) \/ CountDrops(p)

Spec == Init /\ [][Next]_vars

-----------------------------------------------------------------------------
(* Publish never sends on a channel that a leaving consumer closed.          *)
NoSendOnClosed == ~panicked

(* A node broadcasts only messages of other nodes, each at most once and     *)
(* those of one session in the order it sent them, across stops, restarts,   *)
(* full buffers and topic changes.                                           *)
RemoteOnceInOrder ==
  \A n \in Nodes : LET b == broadcast[n] IN
    /\ \A i \in DOMAIN b : NodeOf[b[i].pub] # n
    /\ \A i, j \in DOMAIN b : i < j /\ b[i].pub = b[j].pub => b[i].seq < b[j].seq
=============================================================================
