----------------------------- MODULE CoapNotify -----------------------------
(***************************************************************************)
(* CoAP observe: the relation registry (internal/transport/coap/observe.go),*)
(* the notifications and their retransmission (server.go, retransmit.go).   *)
(*                                                                          *)
(* NotifyObservers, the retransmit loop, the read loop and the sweeper run  *)
(* beside each other; each locked section is one step.  The network may     *)
(* lose, delay, repeat and reorder: a peer's answer to a notification that  *)
(* was transmitted can arrive at any later time, any number of times.       *)
(* Time is relative: wait is what is left of an entry's deadline (0 or less *)
(* is due) and age the time since it was tracked, both capped where no      *)
(* comparison of the code can tell further values apart.                    *)
(***************************************************************************)
EXTENDS Integers, FiniteSets

CONSTANTS
  Resources, Remotes, Tokens,
  None,
  AckTimeout,       \* the first timeout: ackTimeout and the jitter drawn
  MaxRetransmit,    \* maxRetransmit
  MaxPerRemote,     \* maxObserversPerRemote
  MaxTotal,         \* maxObserversTotal
  MaxNotifies,      \* bound: message IDs used; below 65536, so none repeats
  MaxLag            \* bound: time one round of the retransmit loop may take

VARIABLES
  subs,         \* the relations, <<resource, remote, token>>
  remoteCount,  \* ObserverRegistry.remoteCount, absent is 0
  total,        \* ObserverRegistry.total
  sess,         \* the remote's session: "none", "active" or "closed" (in the table still)
  lastId,       \* lastMsgID
  pending,      \* pendingNotifies by message ID
  target,       \* <<remote, token>> each message ID was sent to
  sent,         \* transmissions of each message ID
  acked,        \* message IDs whose ACK the server has processed
  notifier,     \* NotifyObservers: [at, todo, id]
  loop,         \* retransmitDue: [at, due, gone, lag, id]
  reader,       \* a rejection being processed: <<remote, token>> or None
  sweeping      \* the remote the sweeper has decided to close, or None

vars == <<subs, remoteCount, total, sess, lastId, pending, target, sent, acked, notifier, loop, reader, sweeping>>
registry == <<subs, remoteCount, total>>
messages == <<lastId, pending, target, sent, acked>>

MessageIds == 1..MaxNotifies
Pow2(n) == 2 ^ n
(* The n-th retransmission's earliest time after the first transmission.     *)
Gap(n) == AckTimeout * (Pow2(n) - 1)
MaxWait == AckTimeout * Pow2(MaxRetransmit)
Count(r) == Cardinality({o \in subs : o[2] = r})

TypeOK ==
  /\ subs \subseteq Resources \X Remotes \X Tokens
  /\ remoteCount \in [Remotes -> Nat] /\ total \in Int
  /\ sess \in [Remotes -> {"none", "active", "closed"}]
  /\ \A i \in MessageIds : pending[i] # None =>
       /\ pending[i].attempts \in 0..MaxRetransmit
       /\ pending[i].timeout \in 1..MaxWait
       /\ pending[i].wait \in -MaxWait..MaxWait

Init ==
  /\ subs = {} /\ remoteCount = [r \in Remotes |-> 0] /\ total = 0
  /\ sess = [r \in Remotes |-> "none"]
  /\ lastId = 0 /\ pending = [i \in MessageIds |-> None] /\ target = [i \in MessageIds |-> None]
  /\ sent = [i \in MessageIds |-> 0] /\ acked = {}
  /\ notifier = [at |-> "idle", todo |-> {}, id |-> 0]
  /\ loop = [at |-> "wait", due |-> {}, gone |-> {}, lag |-> 0, id |-> 0]
  /\ reader = None /\ sweeping = None

-----------------------------------------------------------------------------
(* ObserverRegistry: an operation that deletes the relations in gone. *)
removeLocked(gone) ==
  /\ subs' = subs \ gone
  /\ remoteCount' = [r \in Remotes |-> remoteCount[r] - Cardinality({o \in gone \cap subs : o[2] = r})]
  /\ total' = total - Cardinality(gone \cap subs)

Remove(res, r, t) == removeLocked({<<res, r, t>>})
RemoveByToken(r, t) == removeLocked({<<res, r, t>> : res \in Resources})

(* RemoveBySession deletes the remote's count instead of lowering it. *)
RemoveBySession(r) ==
  /\ subs' = {o \in subs : o[2] # r}
  /\ remoteCount' = [remoteCount EXCEPT ![r] = 0]
  /\ total' = total - Count(r)

(* Register keeps a relation that exists, replaces the remote's relation to  *)
(* the resource under another token, and applies the caps to new ones only.  *)
Register(res, r, t) ==
  LET old == {o \in subs : o[1] = res /\ o[2] = r} IN
  IF <<res, r, t>> \in subs \/ (old = {} /\ (remoteCount[r] >= MaxPerRemote \/ total >= MaxTotal))
    THEN UNCHANGED registry
    ELSE /\ subs' = (subs \ old) \cup {<<res, r, t>>}
         /\ remoteCount' = [remoteCount EXCEPT ![r] = (IF old # {} /\ @ > 0 THEN @ - 1 ELSE @) + 1]
         /\ total' = total - Cardinality(old) + 1

-----------------------------------------------------------------------------
(* getOrCreateUDPSession for a remote with no live session; reaping a closed *)
(* one ends its relations.                                                   *)
OpenSession(r) ==
  /\ reader = None /\ sess[r] # "active"
  /\ sess' = [sess EXCEPT ![r] = "active"]
  /\ IF sess[r] = "closed" THEN RemoveBySession(r) ELSE UNCHANGED registry
  /\ UNCHANGED <<messages, notifier, loop, reader, sweeping>>

(* handleObserve: GET with Observe 0 registers and with Observe 1 removes. *)
HandleObserve(res, r, t) ==
  /\ reader = None /\ sess[r] = "active"
  /\ Register(res, r, t) \/ Remove(res, r, t)
  /\ UNCHANGED <<sess, messages, notifier, loop, reader, sweeping>>

(* closeSession, by the read loop after a failure or by CloseSessions. *)
CloseSession(r) ==
  /\ reader = None /\ sess[r] # "none"
  /\ sess' = [sess EXCEPT ![r] = "none"]
  /\ RemoveBySession(r)
  /\ UNCHANGED <<messages, notifier, loop, reader, sweeping>>

(* A plugin closes the session, which stays in the table. *)
DirectClose(r) ==
  /\ sess[r] = "active"
  /\ sess' = [sess EXCEPT ![r] = "closed"]
  /\ UNCHANGED <<registry, messages, notifier, loop, reader, sweeping>>

(* sweepLoop: an idle session is closed unless its remote holds relations.   *)
SweepDecides(r) ==
  /\ sweeping = None /\ sess[r] # "none" /\ ~(remoteCount[r] > 0)
  /\ sweeping' = r
  /\ UNCHANGED <<registry, sess, messages, notifier, loop, reader>>

SweepCloses ==
  /\ sweeping # None
  /\ sweeping' = None
  /\ IF sess[sweeping] = "none" THEN UNCHANGED <<registry, sess>>
     ELSE sess' = [sess EXCEPT ![sweeping] = "none"] /\ RemoveBySession(sweeping)
  /\ UNCHANGED <<messages, notifier, loop, reader>>

-----------------------------------------------------------------------------
Untrack(i) == pending' = [pending EXCEPT ![i] = None]

(* NotifyObservers(res) takes the observers; for each one it finds the       *)
(* session, sends, and only then tracks.                                     *)
NotifyObservers(res) ==
  /\ notifier.at = "idle" /\ lastId < MaxNotifies
  /\ notifier' = [notifier EXCEPT !.at = "send", !.todo = {o \in subs : o[1] = res}]
  /\ UNCHANGED <<registry, sess, messages, loop, reader, sweeping>>

NotifyOne ==
  /\ notifier.at = "send"
  /\ IF notifier.todo = {} \/ lastId = MaxNotifies
       THEN notifier' = [notifier EXCEPT !.at = "idle", !.todo = {}] /\ UNCHANGED <<registry, messages>>
       ELSE \E o \in notifier.todo :
         LET rest == notifier.todo \ {o}  id == lastId + 1 IN
         CASE sess[o[2]] = "none" ->
                notifier' = [notifier EXCEPT !.todo = rest] /\ Remove(o[1], o[2], o[3]) /\ UNCHANGED messages
           [] sess[o[2]] = "closed" ->
                /\ notifier' = [notifier EXCEPT !.todo = rest]
                /\ Remove(o[1], o[2], o[3])
                /\ lastId' = id
                /\ UNCHANGED <<pending, target, sent, acked>>
           [] OTHER ->
                /\ notifier' = [at |-> "track", todo |-> rest, id |-> id]
                /\ lastId' = id
                /\ target' = [target EXCEPT ![id] = <<o[2], o[3]>>]
                /\ sent' = [sent EXCEPT ![id] = 1]
                /\ UNCHANGED <<registry, pending, acked>>
  /\ UNCHANGED <<sess, loop, reader, sweeping>>

trackNotify ==
  /\ notifier.at = "track"
  /\ pending' = [pending EXCEPT ![notifier.id] =
       [attempts |-> 0, timeout |-> AckTimeout, wait |-> AckTimeout, age |-> 0]]
  /\ notifier' = [notifier EXCEPT !.at = "send"]
  /\ UNCHANGED <<registry, sess, lastId, target, sent, acked, loop, reader, sweeping>>

(* handleCoAPMessage: an ACK clears the entry.  An RST takes it and, in a    *)
(* second locked section, cancels the relation its token names.              *)
HandleACK(i) ==
  /\ reader = None /\ sent[i] > 0
  /\ Untrack(i)
  /\ acked' = acked \cup {i}
  /\ UNCHANGED <<registry, sess, lastId, target, sent, notifier, loop, reader, sweeping>>

HandleRST(i) ==
  /\ reader = None /\ sent[i] > 0
  /\ Untrack(i)
  /\ reader' = IF pending[i] = None THEN None ELSE target[i]
  /\ UNCHANGED <<registry, sess, lastId, target, sent, acked, notifier, loop, sweeping>>

CancelRejected ==
  /\ reader # None
  /\ RemoveByToken(reader[1], reader[2])
  /\ reader' = None
  /\ UNCHANGED <<sess, messages, notifier, loop, sweeping>>

-----------------------------------------------------------------------------
(* pendingNotify.decide at an instant lag time units ago. *)
decide(p, lag) ==
  CASE p.wait > -lag -> "wait"
    [] p.wait <= -lag /\ p.attempts >= MaxRetransmit -> "giveup"
    [] OTHER -> "send"

(* Mutation of advance: the timeout does not double. *)
advanceFlat(p, lag) ==
  LET next == p.wait + p.timeout
  IN [p EXCEPT !.attempts = @ + 1, !.wait = IF next < -lag THEN p.timeout - lag ELSE next]

(* pendingNotify.advance: double, from the deadline unless that is past.     *)
advance(p, lag) ==
  LET doubled == 2 * p.timeout
      next == p.wait + doubled
  IN [p EXCEPT !.attempts = @ + 1, !.timeout = doubled, !.wait = IF next < -lag THEN doubled - lag ELSE next]

Tracked == {i \in MessageIds : pending[i] # None}

(* retransmitDue, first section: what is due, and what is given up. *)
RetransmitSnapshot ==
  LET give == {i \in Tracked : decide(pending[i], 0) = "giveup"}
      due == {i \in Tracked : decide(pending[i], 0) = "send"} IN
  /\ loop.at = "wait" /\ give \cup due # {}
  /\ pending' = [i \in MessageIds |-> IF i \in give THEN None ELSE pending[i]]
  /\ loop' = [at |-> "due", due |-> due, gone |-> give, lag |-> 0, id |-> 0]
  /\ UNCHANGED <<registry, sess, lastId, target, sent, acked, notifier, reader, sweeping>>

(* Then each due entry that is still there is advanced ... *)
RetransmitAdvance ==
  /\ loop.at = "due" /\ loop.due # {}
  /\ \E i \in loop.due :
       IF pending[i] = None
         THEN loop' = [loop EXCEPT !.due = @ \ {i}] /\ UNCHANGED pending
         ELSE /\ pending' = [pending EXCEPT ![i] = advance(@, loop.lag)]
              /\ loop' = [loop EXCEPT !.due = @ \ {i}, !.at = "send", !.id = i]
  /\ UNCHANGED <<registry, sess, lastId, target, sent, acked, notifier, reader, sweeping>>

(* ... and sent outside the lock; no session, or a closed one, untracks it.  *)
RetransmitSend ==
  /\ loop.at = "send"
  /\ IF sess[target[loop.id][1]] = "active"
       THEN sent' = [sent EXCEPT ![loop.id] = @ + 1] /\ UNCHANGED pending
       ELSE Untrack(loop.id) /\ UNCHANGED sent
  /\ loop' = [loop EXCEPT !.at = "due"]
  /\ UNCHANGED <<registry, sess, lastId, target, acked, notifier, reader, sweeping>>

(* At the end the relations of what was given up are cancelled. *)
RetransmitCancel ==
  /\ loop.at = "due" /\ loop.due = {}
  /\ IF loop.gone = {}
       THEN loop' = [loop EXCEPT !.at = "wait", !.lag = 0] /\ UNCHANGED registry
       ELSE \E i \in loop.gone :
              RemoveByToken(target[i][1], target[i][2]) /\ loop' = [loop EXCEPT !.gone = @ \ {i}]
  /\ UNCHANGED <<sess, messages, notifier, reader, sweeping>>

Cap(n, m) == IF n > m THEN m ELSE n
Floor(n, m) == IF n < m THEN m ELSE n

Tick ==
  /\ loop.at = "wait" \/ loop.lag < MaxLag
  /\ pending' = [i \in MessageIds |-> IF pending[i] = None THEN None ELSE
       [pending[i] EXCEPT !.wait = Floor(@ - 1, -MaxWait), !.age = Cap(@ + 1, Gap(MaxRetransmit + 1))]]
  /\ loop' = IF loop.at = "wait" THEN loop ELSE [loop EXCEPT !.lag = @ + 1]
  /\ UNCHANGED <<registry, sess, lastId, target, sent, acked, notifier, reader, sweeping>>

Notifier == NotifyOne \/ trackNotify
Loop == RetransmitSnapshot \/ RetransmitAdvance \/ RetransmitSend \/ RetransmitCancel

Next ==
  \/ \E r \in Remotes : OpenSession(r) \/ CloseSession(r) \/ DirectClose(r) \/ SweepDecides(r)
  \/ \E res \in Resources, r \in Remotes, t \in Tokens : HandleObserve(res, r, t)
  \/ \E res \in Resources : NotifyObservers(res)
  \/ \E i \in MessageIds : HandleACK(i) \/ HandleRST(i)
  \/ CancelRejected \/ SweepCloses \/ Notifier \/ Loop \/ Tick

Spec == Init /\ [][Next]_vars
FairSpec == Spec /\ WF_vars(Notifier) /\ WF_vars(Loop) /\ WF_vars(CancelRejected) /\ WF_vars(Tick)

-----------------------------------------------------------------------------
(* The counters that enforce the subscription caps and exempt a session from *)
(* the sweep are exactly the relations that exist, whatever mix of register, *)
(* replace, cancel, reject, give-up and session close has run, and the caps  *)
(* hold.                                                                     *)
CountsExact ==
  /\ total = Cardinality(subs) /\ total <= MaxTotal
  /\ \A r \in Remotes : remoteCount[r] = Count(r) /\ remoteCount[r] <= MaxPerRemote

(* "a peer cannot accumulate duplicate relations by rotating tokens".        *)
OneRelationPerResource ==
  \A o, q \in subs : o[1] = q[1] /\ o[2] = q[2] => o = q

(* The n-th retransmission never comes before the n timeouts that precede it *)
(* have passed, although the loop may be late and its idea of now stale, and *)
(* there are never more than MaxRetransmit of them.                          *)
NeverEarly ==
  /\ \A i \in Tracked : pending[i].age >= Gap(pending[i].attempts)
  /\ \A i \in MessageIds : sent[i] <= MaxRetransmit + 1

(* A notification does not stay pending for ever: its peer answers, its      *)
(* session goes, or the server gives up, and then the relation of a peer     *)
(* that answered nothing is gone at some time after.                         *)
SilentPeerDropped ==
  \A i \in MessageIds : pending[i] # None ~>
    \/ i \in acked
    \/ /\ target[i] # None
       /\ sess[target[i][1]] = "active" => \A o \in subs : <<o[2], o[3]>> # target[i]
=============================================================================
