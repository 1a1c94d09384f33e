----------------------------- MODULE MessageLog -----------------------------
(***************************************************************************)
(* The message log (internal/infra/store/message_log.go) on a Store: the     *)
(* BoltDB file (bolt.go), which survives a crash and deletes in one          *)
(* transaction, or memory (store.go), which does neither. Clients append,    *)
(* replay and prune under the log's mutex; the process may crash and reopen. *)
(***************************************************************************)
EXTENDS Integers, FiniteSets, FiniteSetsExt, TLC

CONSTANTS Clients, None,
  MaxSeq, MaxCrashes, MaxData    \* bounds: sequence numbers, restarts, payloads

VARIABLES
  kind,        \* "bolt" or "memory"
  disk,        \* the bucket: seq -> data, a partial function
  open,        \* ~BoltStore.closed
  next,        \* MessageLog.next, 0 while the process is down
  mutex,       \* the client in a critical section of several store calls
  op,          \* each client: [pc, keys, got, cut]
  written,     \* payloads so far, each one new
  acked,       \* records Append acknowledged and no Prune was asked to remove
  crashes

vars == <<kind, disk, open, next, mutex, op, written, acked, crashes>>

Idle == [pc |-> "idle", keys |-> {}, got |-> {}, cut |-> {}]
Records == {[seq |-> s, data |-> disk[s]] : s \in DOMAIN disk}
Erase(keys) == [s \in DOMAIN disk \ keys |-> disk[s]]

TypeOK ==
  /\ kind \in {"bolt", "memory"} /\ DOMAIN disk \subseteq 1..MaxSeq /\ next \in 0..MaxSeq + 1
  /\ mutex \in Clients \cup {None} /\ \A c \in Clients : op[c].pc \in {"idle", "load", "call", "delete"}

(* NewMessageLog resumes after the largest key found.                        *)
NewMessageLog(d) == Max(DOMAIN d \cup {0}) + 1

Init ==
  /\ kind \in {"bolt", "memory"} /\ disk = << >> /\ open = TRUE /\ next = NewMessageLog(disk)
  /\ mutex = None /\ op = [c \in Clients |-> Idle] /\ written = 0 /\ acked = {} /\ crashes = 0

Free(c) == next # 0 /\ mutex = None /\ op[c].pc = "idle"

(* Append: Save under the mutex; a failed Save keeps the number.             *)
Append(c) ==
  /\ Free(c) /\ open /\ next <= MaxSeq /\ written < MaxData
  /\ written' = written + 1
  /\ \/ /\ disk' = (next :> written') @@ disk /\ next' = next + 1
        /\ acked' = acked \cup {[seq |-> next, data |-> written']}
     \/ UNCHANGED <<disk, next, acked>>
  /\ UNCHANGED <<kind, open, mutex, op, crashes>>

(* Replay lists the keys under the mutex,                                    *)
ReplayList(c) ==
  /\ Free(c) /\ open /\ mutex' = c
  /\ op' = [op EXCEPT ![c] = [Idle EXCEPT !.pc = "load", !.keys = DOMAIN disk, !.cut = Records]]
  /\ UNCHANGED <<kind, disk, open, next, written, acked, crashes>>

(* Mutation of ReplayLoad: the mutex is let go of after the first key. *)
ReplayLoadLoose(c) ==
  /\ op[c].pc = "load" /\ mutex' = None
  /\ LET k == Min(op[c].keys) IN
       IF op[c].keys = {} THEN op' = [op EXCEPT ![c].pc = "call"]
       ELSE IF ~open THEN op' = [op EXCEPT ![c] = Idle]
       ELSE op' = [op EXCEPT ![c].keys = @ \ {k}, ![c].got = @ \cup {r \in Records : r.seq = k}]
  /\ UNCHANGED <<kind, disk, open, next, written, acked, crashes>>

(* loads one after the other (an error ends it), and lets go of the mutex.   *)
ReplayLoad(c) ==
  /\ op[c].pc = "load"
  /\ IF op[c].keys = {} THEN mutex' = None /\ op' = [op EXCEPT ![c].pc = "call"]
     ELSE IF ~open THEN mutex' = None /\ op' = [op EXCEPT ![c] = Idle]
     ELSE LET k == Min(op[c].keys) IN
          op' = [op EXCEPT ![c].keys = @ \ {k}, ![c].got = @ \cup {r \in Records : r.seq = k}] /\ UNCHANGED mutex
  /\ UNCHANGED <<kind, disk, open, next, written, acked, crashes>>

(* fn runs on each message outside the mutex.                                *)
ReplayCall(c) ==
  /\ op[c].pc = "call" /\ op' = [op EXCEPT ![c] = Idle]
  /\ UNCHANGED <<kind, disk, open, next, mutex, written, acked, crashes>>

(* Prune(b): bolt deletes the keys below b in one transaction,               *)
Prune(c) ==
  /\ Free(c) /\ open
  /\ \E b \in 2..MaxSeq + 1 :
       /\ acked' = {r \in acked : r.seq >= b}
       /\ IF kind = "bolt" THEN disk' = Erase(1..b - 1) /\ UNCHANGED <<mutex, op>>
          ELSE /\ mutex' = c /\ UNCHANGED disk
               /\ op' = [op EXCEPT ![c] = [Idle EXCEPT !.pc = "delete", !.keys = {s \in DOMAIN disk : s < b}]]
  /\ UNCHANGED <<kind, open, next, written, crashes>>

(* memory one by one.                                                        *)
PruneDelete(c) ==
  /\ op[c].pc = "delete"
  /\ IF op[c].keys = {} THEN mutex' = None /\ op' = [op EXCEPT ![c] = Idle] /\ UNCHANGED disk
     ELSE LET k == Min(op[c].keys) IN
          disk' = Erase({k}) /\ op' = [op EXCEPT ![c].keys = @ \ {k}] /\ UNCHANGED mutex
  /\ UNCHANGED <<kind, open, next, written, acked, crashes>>

(* BoltStore.Close: every later call fails with ErrClosed (Memory's is empty). *)
CloseStore ==
  /\ kind = "bolt" /\ next # 0 /\ open /\ open' = FALSE
  /\ UNCHANGED <<kind, disk, next, mutex, op, written, acked, crashes>>

(* The process stops; memory is gone, the file is not.                       *)
Crash ==
  /\ next # 0 /\ crashes < MaxCrashes /\ crashes' = crashes + 1
  /\ next' = 0 /\ mutex' = None /\ op' = [c \in Clients |-> Idle]
  /\ disk' = (IF kind = "bolt" THEN disk ELSE << >>) /\ acked' = (IF kind = "bolt" THEN acked ELSE {})
  /\ UNCHANGED <<kind, open, written>>

Reopen ==
  /\ next = 0 /\ open' = TRUE /\ next' = NewMessageLog(disk)
  /\ UNCHANGED <<kind, disk, mutex, op, written, acked, crashes>>

Next ==
  \/ \E c \in Clients : Append(c) \/ ReplayList(c) \/ ReplayLoad(c) \/ ReplayCall(c) \/ Prune(c) \/ PruneDelete(c)
  \/ CloseStore \/ Crash \/ Reopen

Spec == Init /\ [][Next]_vars

-----------------------------------------------------------------------------
(* A message that Append acknowledged and nobody pruned is in the store with *)
(* its data, on BoltDB through every crash and restart: no later Append      *)
(* takes its sequence number.                                                *)
AckedKept == acked \subseteq Records

(* What Replay hands to its callback is the log at one moment, complete,     *)
(* although appends and prunes run concurrently with it.                     *)
ReplayIsACut == \A c \in Clients : op[c].pc = "call" => op[c].got = op[c].cut
=============================================================================
