----------------------------- MODULE MCServices -----------------------------
(* The services around the transports: the session manager with two sessions *)
(* over two shards, a CloseAll and a Broadcast; ban and circuit breaker; the *)
(* session store and the cache; the clients that dial out, MQTT's and TCP's; *)
(* CoAP's observers, with three resources for two relations.                 *)
(* A behaviour runs one of them, the part it starts with.                    *)
EXTENDS SessionManager, Limiters, Stores, Clients

CONSTANTS x1, b1

MCTtls == {-1, 0, 1}

VARIABLES
  part,
  subs, remoteCount, total, sess, lastId, pending, target, sent, acked, notifier,   \* observe
  loop, rejected, sweeping

notifyVars == <<subs, remoteCount, total, sess, lastId, pending, target, sent, acked, notifier,
                loop, rejected, sweeping>>
all == <<part, vars, banVars, breakerVars, storeVars, cacheVars, mqttVars, clientVars, notifyVars>>

Notify == INSTANCE CoapNotify WITH
  reader <- rejected, Resources <- {"r", "q", "p"}, Remotes <- {"a"}, Tokens <- {"t", "u"}, AckTimeout <- 1,
  MaxRetransmit <- 2, MaxPerRemote <- 2, MaxTotal <- 2, MaxNotifies <- 1, MaxLag <- 1

ServicesInit ==
  /\ part \in {"sessions", "ban", "breaker", "store", "cache", "mqtt", "client", "notify"}
  /\ Init /\ BanInit /\ BreakerInit /\ StoreInit /\ CacheInit /\ MqttInit /\ ClientInit /\ Notify!Init

(* The parts end when their goroutines have, or at their bounds. *)
ServicesNext ==
  /\ UNCHANGED part
  /\ part # "sessions" => UNCHANGED vars
  /\ part # "ban" => UNCHANGED banVars
  /\ part # "breaker" => UNCHANGED breakerVars
  /\ part # "store" => UNCHANGED storeVars
  /\ part # "cache" => UNCHANGED cacheVars
  /\ part # "mqtt" => UNCHANGED mqttVars
  /\ part # "client" => UNCHANGED clientVars
  /\ part # "notify" => UNCHANGED notifyVars
  /\ \/ part = "sessions" /\ Next
     \/ part = "ban" /\ BanNext
     \/ part = "breaker" /\ BreakerNext
     \/ part = "store" /\ StoreNext
     \/ part = "cache" /\ CacheNext
     \/ part = "mqtt" /\ MqttNext
     \/ part = "client" /\ ClientNext
     \/ part = "notify" /\ Notify!Next
     \/ part \notin {"sessions", "notify"} /\ UNCHANGED all

ServicesSpec == ServicesInit /\ [][ServicesNext]_all

-----------------------------------------------------------------------------
(* ObserverRegistry, pendingNotify: the counters are the relations that      *)
(* exist, one for a peer and a resource whatever its tokens, within the      *)
(* caps; no retransmission comes before its time, nor too many.              *)
ObserversExact ==
  Notify!TypeOK /\ Notify!CountsExact /\ Notify!OneRelationPerResource /\ Notify!NeverEarly
=============================================================================
