------------------------------ MODULE Clients -------------------------------
(***************************************************************************)
(* The MQTT bridge (internal/infra/mqtt/adapter.go): Start dials outside the *)
(* lock while other Starts and Stops run, connections drop and reconnect,    *)
(* Publish and Subscribe use the client they found. The paho client is       *)
(* modelled from its use.                                                    *)
(***************************************************************************)
EXTENDS Naturals

CONSTANTS
  Starters,     \* concurrent Start calls, each with a client of its own
  NoClient, MaxGen   \* nil; bound: Stop calls

ASSUME MqttAssumption == NoClient \notin Starters /\ MaxGen \in Nat

VARIABLES
  client, gen,      \* Adapter.client (named after its Start), Adapter.gen
  link,             \* each paho client: "none", "up", "retry" (reconnecting), "off"
  start,            \* each Start: [pc, gen]
  subscribed,       \* clients with a subscription at the broker
  user              \* the client a Publish or Subscribe call holds

mqttVars == <<client, gen, link, start, subscribed, user>>

MqttTypeOK ==
  /\ client \in Starters \cup {NoClient} /\ gen \in 0..MaxGen /\ user \in Starters \cup {NoClient}
  /\ link \in [Starters -> {"none", "up", "retry", "off"}] /\ subscribed \subseteq Starters
  /\ start \in [Starters -> [pc : {"new", "dial", "subscribe", "install", "done"}, gen : 0..MaxGen]]

MqttInit ==
  /\ client = NoClient /\ gen = 0 /\ link = [s \in Starters |-> "none"] /\ subscribed = {} /\ user = NoClient
  /\ start = [s \in Starters |-> [pc |-> "new", gen |-> 0]]

Connected == client # NoClient /\ link[client] = "up"

(* Start: nothing to do when connected; otherwise the generation is noted    *)
(* and a client dials outside the lock.                                      *)
Start(s) ==
  /\ start[s].pc = "new"
  /\ start' = [start EXCEPT ![s] = [pc |-> IF Connected THEN "done" ELSE "dial", gen |-> gen]]
  /\ link' = (IF Connected THEN link ELSE [link EXCEPT ![s] = "retry"])
  /\ UNCHANGED <<client, gen, subscribed, user>>

(* waitToken: connected, or failed, cancelled or timed out.                  *)
Dialled(s) ==
  /\ start[s].pc = "dial"
  /\ \/ start' = [start EXCEPT ![s].pc = "subscribe"] /\ link' = [link EXCEPT ![s] = "up"]
     \/ start' = [start EXCEPT ![s].pc = "done"] /\ link' = [link EXCEPT ![s] = "off"]
  /\ UNCHANGED <<client, gen, subscribed, user>>

(* The configured topic is subscribed, if there is one.                      *)
SubscribeTopic(s) ==
  /\ start[s].pc = "subscribe"
  /\ \/ /\ start' = [start EXCEPT ![s].pc = "install"] /\ UNCHANGED link
        /\ subscribed' \in {subscribed, subscribed \cup {s}}
     \/ start' = [start EXCEPT ![s].pc = "done"] /\ link' = [link EXCEPT ![s] = "off"] /\ UNCHANGED subscribed
  /\ UNCHANGED <<client, gen, user>>

(* Mutation of Install: Start does not look at the generation. *)
InstallAny(s) ==
  /\ start[s].pc = "install" /\ start' = [start EXCEPT ![s].pc = "done"]
  /\ IF Connected THEN link' = [link EXCEPT ![s] = "off"] /\ UNCHANGED client
     ELSE /\ client' = s
          /\ link' = [c \in Starters |-> IF c = client THEN "off" ELSE link[c]]
  /\ UNCHANGED <<gen, subscribed, user>>

(* The lock again: a Stop since then wins, so does a Start that connected    *)
(* first; a client that is not connected is stopped before it is replaced.   *)
Install(s) ==
  /\ start[s].pc = "install" /\ start' = [start EXCEPT ![s].pc = "done"]
  /\ IF start[s].gen # gen \/ Connected THEN link' = [link EXCEPT ![s] = "off"] /\ UNCHANGED client
     ELSE /\ client' = s
          /\ link' = [c \in Starters |-> IF c = client THEN "off" ELSE link[c]]
  /\ UNCHANGED <<gen, subscribed, user>>

Stop ==
  /\ gen < MaxGen /\ gen' = gen + 1 /\ client' = NoClient
  /\ link' = [c \in Starters |-> IF c = client THEN "off" ELSE link[c]]
  /\ UNCHANGED <<start, subscribed, user>>

(* The broker drops a connection; paho's own goroutine dials again.          *)
Flap(c) ==
  /\ link[c] \in {"up", "retry"} /\ start[c].pc # "dial"
  /\ link' = [link EXCEPT ![c] = IF @ = "up" THEN "retry" ELSE "up"]
  /\ UNCHANGED <<client, gen, start, subscribed, user>>

(* Publish and Subscribe: the client is read under the lock,                 *)
Take ==
  /\ user = NoClient /\ client # NoClient /\ user' = client
  /\ UNCHANGED <<client, gen, link, start, subscribed>>

(* and used outside it if it is still connected: it may be another one's.    *)
Use ==
  /\ user # NoClient /\ user' = NoClient
  /\ subscribed' \in {subscribed} \cup (IF link[user] = "up" THEN {subscribed \cup {user}} ELSE {})
  /\ UNCHANGED <<client, gen, link, start>>

MqttNext ==
  \/ \E s \in Starters : Start(s) \/ Dialled(s) \/ SubscribeTopic(s) \/ Install(s) \/ Flap(s)
  \/ Stop \/ Take \/ Use

MqttSpec == MqttInit /\ [][MqttNext]_mqttVars

(* Every client that holds or seeks a connection is the adapter's, or that   *)
(* of a Start still on its way: none is leaked to fight at the broker.       *)
NoClientLeaked == \A c \in Starters :
  link[c] \in {"up", "retry"} => c = client \/ start[c].pc \in {"dial", "subscribe", "install"}

(* A Stop is never undone: the adapter's client belongs to a Start that      *)
(* began after the last Stop.                                                *)
StopWins == client # NoClient => start[client].gen = gen

-----------------------------------------------------------------------------
(* The framed TCP client (internal/transport/tcp/client.go): Connect, Send,  *)
(* Receive and Close from several goroutines.  The lock covers only the swap *)
(* of the connection, so dialing, closing the old connection and the I/O on  *)
(* a connection read earlier all happen outside it.                          *)
CONSTANTS
  Users,        \* goroutines
  Sockets,      \* connections a behaviour can dial; bound
  NoConn

ASSUME ClientAssumption == NoConn \notin Sockets

VARIABLES
  conn,         \* Client.conn
  open,         \* sockets that are connected
  dialled,      \* sockets used so far
  upc,          \* what each goroutine does
  hand          \* the socket it holds

clientVars == <<conn, open, dialled, upc, hand>>

ClientTypeOK ==
  /\ conn \in Sockets \cup {NoConn} /\ open \subseteq dialled /\ dialled \subseteq Sockets
  /\ upc \in [Users -> {"idle", "swap", "closePrev", "io"}] /\ hand \in [Users -> Sockets \cup {NoConn}]

ClientInit ==
  /\ conn = NoConn /\ open = {} /\ dialled = {}
  /\ upc = [u \in Users |-> "idle"] /\ hand = [u \in Users |-> NoConn]

UserAt(u, l, s) == upc' = [upc EXCEPT ![u] = l] /\ hand' = [hand EXCEPT ![u] = s]

(* Connect: the dial; a failed dial or handshake leaves nothing. *)
Dial(u, s) ==
  /\ upc[u] = "idle" /\ s \notin dialled
  /\ dialled' = dialled \cup {s}
  /\ \/ open' = open \cup {s} /\ UserAt(u, "swap", s)
     \/ UNCHANGED <<open, upc, hand>>
  /\ UNCHANGED conn

(* Mutation of Swap: an existing connection is kept. *)
SwapFirst(u) ==
  /\ upc[u] = "swap" /\ conn' = IF conn = NoConn THEN hand[u] ELSE conn
  /\ UserAt(u, "idle", NoConn)
  /\ UNCHANGED <<open, dialled>>

(* Connect under the lock; what was there is closed after it. *)
Swap(u) ==
  /\ upc[u] = "swap" /\ conn' = hand[u]
  /\ IF conn = NoConn THEN UserAt(u, "idle", NoConn) ELSE UserAt(u, "closePrev", conn)
  /\ UNCHANGED <<open, dialled>>

(* Close: nil is installed, then the connection is closed. *)
Close(u) ==
  /\ upc[u] = "idle" /\ conn # NoConn
  /\ conn' = NoConn /\ UserAt(u, "closePrev", conn)
  /\ UNCHANGED <<open, dialled>>

ClosePrev(u) ==
  /\ upc[u] = "closePrev" /\ open' = open \ {hand[u]} /\ UserAt(u, "idle", NoConn)
  /\ UNCHANGED <<conn, dialled>>

(* Send and Receive: currentConn, then the I/O, which may find it closed. *)
SendReceive(u) ==
  /\ \/ upc[u] = "idle" /\ conn # NoConn /\ UserAt(u, "io", conn)
     \/ upc[u] = "io" /\ UserAt(u, "idle", NoConn)
  /\ UNCHANGED <<conn, open, dialled>>

ClientNext == \E u \in Users : Swap(u) \/ Close(u) \/ ClosePrev(u) \/ SendReceive(u) \/ \E s \in Sockets : Dial(u, s)

ClientSpec == ClientInit /\ [][ClientNext]_clientVars

(* However Connect and Close race, no connection is lost: an open socket is  *)
(* the client's or about to be installed or closed by the goroutine that     *)
(* holds it, by one only, and the client's own is open.                      *)
NoSocketLost ==
  /\ conn # NoConn => conn \in open
  /\ \A s \in open : \E o \in Users \cup {NoConn} :
       {u \in Users : upc[u] \in {"swap", "closePrev"} /\ hand[u] = s}
         \cup (IF conn = s THEN {NoConn} ELSE {}) = {o}

-----------------------------------------------------------------------------
(* No connection of a client that dials out is lost.  A Start that was       *)
(* overtaken by a Stop does not install its client, and no MQTT client stays *)
(* connected that the adapter does not hold (adapter.go); every open socket  *)
(* of the TCP client has one owner, however Connect and Close race           *)
(* (client.go).                                                              *)
ClientsHeld == MqttTypeOK /\ StopWins /\ NoClientLeaked /\ ClientTypeOK /\ NoSocketLost
=============================================================================
