---------------------------- MODULE MCDatagrams ----------------------------
(* The datagram side: the UDP server (and CoAP's copy of its session table), *)
(* CoAP's observe and retransmission, its message exchange, and the LwM2M    *)
(* registry.  A behaviour runs one of them, the part it starts with.         *)
EXTENDS UdpServer, CoapExchange, Lwm2mRegistry, Integers

CONSTANTS
  Resources, Remotes, Tokens, AckTimeout, MaxRetransmit, MaxPerRemote, MaxTotal,    \* observe
  MaxNotifies

VARIABLES
  part,
  subs, remoteCount, total, sess, lastId, pending, target, sent, acked, notifier,   \* observe
  loop, rejected, sweeping

notifyVars == <<subs, remoteCount, total, sess, lastId, pending, target, sent, acked, notifier,
                loop, rejected, sweeping>>

Notify == INSTANCE CoapNotify WITH reader <- rejected

DatagramsInit ==
  /\ part \in {"udp", "notify", "exchange", "lwm2m"}
  /\ Init /\ Notify!Init /\ ExchangeInit /\ RegistryInit
  /\ part # "udp" => mode = "plain"
  /\ part # "exchange" => responder

(* The exchange and the registry end at their bounds. *)
DatagramsNext ==
  /\ UNCHANGED part
  /\ \/ part = "udp" /\ Next /\ UNCHANGED <<notifyVars, exchangeVars, lwm2mVars>>
     \/ part = "notify" /\ Notify!Next /\ UNCHANGED <<vars, exchangeVars, lwm2mVars>>
     \/ part = "exchange" /\ ExchangeNext /\ UNCHANGED <<vars, notifyVars, lwm2mVars>>
     \/ part = "lwm2m" /\ RegistryNext /\ UNCHANGED <<vars, notifyVars, exchangeVars>>
     \/ part \in {"exchange", "lwm2m"} /\ UNCHANGED <<vars, notifyVars, exchangeVars, lwm2mVars>>

all == <<part, vars, notifyVars, exchangeVars, lwm2mVars>>

(* Each component's fairness, for the behaviours that run it. *)
DatagramsFairness ==
  /\ WF_vars(part = "udp" /\ Reader) /\ WF_vars(part = "udp" /\ Sweeper)
  /\ \A i \in Ids : WF_vars(part = "udp" /\ Handler(i))
  /\ WF_notifyVars(part = "notify" /\ Notify!Notifier) /\ WF_notifyVars(part = "notify" /\ Notify!Loop)
  /\ WF_notifyVars(part = "notify" /\ Notify!CancelRejected) /\ WF_notifyVars(part = "notify" /\ Notify!Tick)

DatagramsSpec == DatagramsInit /\ [][DatagramsNext]_all /\ DatagramsFairness

-----------------------------------------------------------------------------
(* What must end ends: every loop and connection goroutine of the UDP server *)
(* after StopAccept and Drain, and the relation of a CoAP peer that answers  *)
(* nothing (retransmitDue).                                                  *)
SilenceEnds == StopReachesAll /\ Notify!SilentPeerDropped
=============================================================================
