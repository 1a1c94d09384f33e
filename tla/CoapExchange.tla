---------------------------- MODULE CoapExchange ----------------------------
(***************************************************************************)
(* A CoAP peer's requests: deduplication of confirmable exchanges and the   *)
(* responses they get (handleCoAPMessage of internal/transport/coap/        *)
(* server.go).  One goroutine serves a peer, so its messages are handled    *)
(* one after another; the clean-up loop clears the dedup table at any time, *)
(* also while a handler runs.  The network repeats and reorders freely: any *)
(* request may arrive any number of times.                                  *)
(* A response is its code and the run of the handler that produced it, so   *)
(* two runs never give the same bytes.                                      *)
(***************************************************************************)
EXTENDS Naturals, FiniteSets

CONSTANTS
  Requests,     \* the peer's requests; each has its own message ID
  Con,          \* the confirmable ones
  Empty,        \* the ones with code 0.00
  Block1,       \* the ones that carry a Block1 option
  NoRequest,    \* no request
  MaxRuns       \* bound: handler runs in a behaviour

ASSUME RequestsAssumption == Con \subseteq Requests /\ MaxRuns \in Nat

VARIABLES
  responder,    \* whether opts.Responder is set; otherwise a Handler is
  seen,         \* Server.seen: "absent", "pending", or the recorded response
  job,          \* the message being handled: [at, req, own]; own: its entry is in seen
  open,         \* the session can send
  runs,         \* handler runs so far
  ranFor,       \* requests the handler ran for, since their entry was stored
  failed,       \* requests whose responder failed, since their entry was stored
  said          \* the responses sent for each request, since its entry was stored

exchangeVars == <<responder, seen, job, open, runs, ranFor, failed, said>>

Idle == [at |-> "idle", req |-> NoRequest, own |-> FALSE]
Codes == {"2.xx", "4.02", "4.13", "5.00"}
Response == Codes \X (0..MaxRuns)

ExchangeTypeOK ==
  /\ seen \in [Requests -> {<<"absent", 0>>, <<"pending", 0>>} \cup Response]
  /\ job.at \in {"idle", "plugin", "handler", "reply"}
  /\ open \in BOOLEAN /\ runs \in 0..MaxRuns
  /\ ranFor \in [Requests -> 0..MaxRuns] /\ failed \subseteq Requests

ExchangeInit ==
  /\ responder \in BOOLEAN
  /\ seen = [q \in Requests |-> <<"absent", 0>>]
  /\ job = Idle /\ open = FALSE /\ runs = 0 /\ failed = {}
  /\ ranFor = [q \in Requests |-> 0]
  /\ said = [q \in Requests |-> {}]

-----------------------------------------------------------------------------
Known(q) == seen[q][1] # "absent"
Recorded(q) == Known(q) /\ seen[q][1] # "pending"

(* Mutation of Send: only a response that went out is recorded. *)
SendThenRecord(q, resp) ==
  /\ seen' = IF job.own /\ open THEN [seen EXCEPT ![q] = resp] ELSE seen
  /\ said' = IF job.own /\ open THEN [said EXCEPT ![q] = @ \cup {resp}] ELSE said

(* sendDedupResponse: the bytes are recorded in the exchange's entry before  *)
(* they are sent.  The entry may no longer be the table's.                   *)
Send(q, resp) ==
  /\ seen' = IF job.own THEN [seen EXCEPT ![q] = resp] ELSE seen
  /\ said' = IF job.own /\ open THEN [said EXCEPT ![q] = @ \cup {resp}] ELSE said

(* replyToDuplicate: the recorded bytes, or an empty ACK that says nothing.  *)
replyToDuplicate(q) ==
  said' = IF Recorded(q) THEN [said EXCEPT ![q] = @ \cup {seen[q]}] ELSE said

(* replyBlock1Unsupported, for a request just entered. *)
replyBlock1Unsupported(q) ==
  LET resp == <<"4.13", 0>> IN
  IF q \in Con THEN /\ seen' = [seen EXCEPT ![q] = resp]
                    /\ said' = [said EXCEPT ![q] = @ \cup {resp}]
               ELSE UNCHANGED <<seen, said>>

Duplicate(q) == q \in Con /\ Known(q)

(* handleCoAPMessage up to the plugins, on a session that getOrCreate found  *)
(* or made.  An empty CON is a ping, and no other empty message has effect.  *)
handleCoAPMessage(q) ==
  /\ job = Idle
  /\ open' = TRUE
  /\ IF q \in Empty THEN UNCHANGED <<seen, said, job>>
     ELSE IF Duplicate(q) THEN replyToDuplicate(q) /\ UNCHANGED <<seen, job>>
     ELSE IF q \in Block1 THEN replyBlock1Unsupported(q) /\ UNCHANGED job
     ELSE /\ seen' = IF q \in Con THEN [seen EXCEPT ![q] = <<"pending", 0>>] ELSE seen
          /\ job' = [at |-> "plugin", req |-> q, own |-> q \in Con]
          /\ UNCHANGED said
  /\ UNCHANGED <<responder, runs, ranFor, failed>>

(* OnMessage.  A drop keeps the session, any other error closes it, and both *)
(* answer a CON with 5.00.                                                   *)
RunPlugins ==
  /\ job.at = "plugin"
  /\ \/ job' = [job EXCEPT !.at = "handler"] /\ UNCHANGED <<seen, open, said>>
     \/ /\ open' \in {open, FALSE}
        /\ IF job.req \in Con
             THEN LET resp == <<"5.00", 0>> IN
                  /\ seen' = IF job.own THEN [seen EXCEPT ![job.req] = resp] ELSE seen
                  /\ said' = IF job.own /\ open' THEN [said EXCEPT ![job.req] = @ \cup {resp}] ELSE said
             ELSE UNCHANGED <<seen, said>>
        /\ job' = Idle
  /\ UNCHANGED <<responder, runs, ranFor, failed>>

(* The responder or the handler.  Either one's error closes the session; the *)
(* responder's also ends the exchange without a response.                    *)
RunHandler ==
  /\ job.at = "handler" /\ runs < MaxRuns
  /\ runs' = runs + 1
  /\ ranFor' = IF job.own THEN [ranFor EXCEPT ![job.req] = @ + 1] ELSE ranFor
  /\ \/ job' = [job EXCEPT !.at = "reply"] /\ UNCHANGED <<open, failed>>
     \/ /\ open' = FALSE
        /\ job' = IF responder THEN Idle ELSE [job EXCEPT !.at = "reply"]
        /\ failed' = IF responder /\ job.own THEN failed \cup {job.req} ELSE failed
  /\ UNCHANGED <<responder, seen, said>>

(* The piggybacked ACK of a CON, 4.02 when its Block2 option is no good; a   *)
(* NON has at most an initial notification, which is not recorded.           *)
Reply ==
  /\ job.at = "reply"
  /\ IF job.req \in Con THEN \E code \in {"2.xx", "4.02"} : Send(job.req, <<code, runs>>)
     ELSE UNCHANGED <<seen, said>>
  /\ job' = Idle
  /\ UNCHANGED <<responder, open, runs, ranFor, failed>>

(* seenCleanupLoop.  What a running exchange holds is no longer in the table. *)
ClearSeen ==
  /\ \E q \in Requests : Known(q)
  /\ seen' = [q \in Requests |-> <<"absent", 0>>]
  /\ said' = [q \in Requests |-> {}]
  /\ ranFor' = [q \in Requests |-> 0]
  /\ failed' = {}
  /\ job' = [job EXCEPT !.own = FALSE]
  /\ UNCHANGED <<responder, open, runs>>

(* Another goroutine closes the session. *)
CloseSession == open /\ open' = FALSE /\ UNCHANGED <<responder, seen, job, runs, ranFor, failed, said>>

ExchangeNext ==
  \/ \E q \in Requests : handleCoAPMessage(q)
  \/ RunPlugins \/ RunHandler \/ Reply \/ ClearSeen \/ CloseSession

ExchangeSpec == ExchangeInit /\ [][ExchangeNext]_exchangeVars

-----------------------------------------------------------------------------
(* "It must never reach the handler": as long as the dedup entry of a CON    *)
(* exchange lives, the handler runs for it at most once and the peer is      *)
(* never given two different responses, however often the request arrives,   *)
(* whatever fails, and although the table may be cleared under a handler.    *)
OneResponse ==
  \A q \in Con : ranFor[q] <= 1 /\ Cardinality(said[q]) <= 1

(* A retransmitted CON gets the real response: once the exchange is over its *)
(* response is on record, unless the responder itself failed; also when it   *)
(* could not be sent because the session was closed.                         *)
ResponseKept ==
  \A q \in Con : seen[q] = <<"pending", 0>> => (job.req = q /\ job.own) \/ q \in failed

(* handleCoAPMessage, sendDedupResponse: one handler run and one response    *)
(* for a confirmable request, and the response of a finished exchange is on  *)
(* record for the next copy.                                                 *)
ExchangeOnce == ExchangeTypeOK /\ OneResponse /\ ResponseKept
=============================================================================
