----------------------------- MODULE CoapProofs -----------------------------
(***************************************************************************)
(* Proofs about CoAP's exchanges and the LwM2M registry, for any number of  *)
(* requests and endpoints and any limits.                                   *)
(***************************************************************************)
EXTENDS CoapExchange, Lwm2mRegistry, FiniteSetTheorems, TLAPS

USE SMTT(30)

-----------------------------------------------------------------------------
(* The CoAP exchange. *)
JobTypes ==
  /\ job.at \in {"idle", "plugin", "handler", "reply"}
  /\ job = [at |-> job.at, req |-> job.req, own |-> job.own]
  /\ job.at = "idle" => ~job.own
  /\ job.at # "idle" => job.req \in Requests
  /\ job.own => job.req \in Con

ExchangeTypes ==
  /\ seen \in [Requests -> {<<"absent", 0>>, <<"pending", 0>>} \cup Response]
  /\ runs \in 0..MaxRuns /\ ranFor \in [Requests -> 0..MaxRuns] /\ failed \subseteq Requests
  /\ said \in [Requests -> SUBSET Response]
  /\ \A q \in Requests : ranFor[q] <= runs

(* What the entry of a confirmable request says: nothing was sent or run     *)
(* without one, what was sent is the response it records, and it is pending  *)
(* exactly while its exchange runs, unless the responder failed.             *)
EntryOf(q) ==
  /\ seen[q] = <<"absent", 0>> => ranFor[q] = 0 /\ q \notin failed
  /\ said[q] \subseteq {seen[q]} /\ ranFor[q] <= 1
  /\ job.own /\ job.req = q => seen[q] = <<"pending", 0>> /\ q \notin failed
  /\ job.own /\ job.req = q /\ job.at \in {"plugin", "handler"} => ranFor[q] = 0
  /\ seen[q] = <<"pending", 0>> => (job.own /\ job.req = q) \/ q \in failed

ExchangeInv == JobTypes /\ ExchangeTypes /\ open \in BOOLEAN /\ job.own \in BOOLEAN /\ \A q \in Con : EntryOf(q)

LEMMA ExchangeInitInv == ExchangeInit => ExchangeInv
<1> SUFFICES ASSUME ExchangeInit PROVE ExchangeInv
  BY Zenon
<1>1. JobTypes /\ ~job.own
  BY Zenon DEF ExchangeInit, Idle, JobTypes
<1>2. ExchangeTypes
  BY RequestsAssumption DEF ExchangeInit, ExchangeTypes
<1>3. open \in BOOLEAN /\ job.own \in BOOLEAN
  BY Zenon DEF ExchangeInit, Idle
<1>4. ASSUME NEW q \in Con PROVE EntryOf(q)
  BY <1>1, RequestsAssumption DEF ExchangeInit, EntryOf
<1> QED
  BY <1>1, <1>2, <1>3, <1>4, Zenon DEF ExchangeInv

(* A request arrives while no other is handled. *)
LEMMA ExchangeArrives ==
  ASSUME ExchangeInv, NEW q \in Requests, handleCoAPMessage(q) PROVE ExchangeInv'
<1> USE DEF ExchangeInv
<1>1. /\ job = Idle /\ ~job.own /\ UNCHANGED <<responder, runs, ranFor, failed>> /\ open' = TRUE
  BY Zenon DEF handleCoAPMessage, Idle
<1>2. CASE UNCHANGED <<seen, said, job>>
  BY <1>1, <1>2, Zenon DEF JobTypes, ExchangeTypes, EntryOf
<1>3. CASE replyToDuplicate(q) /\ UNCHANGED <<seen, job>> /\ Duplicate(q)
  <2>1. (said' = [said EXCEPT ![q] = @ \cup {seen[q]}] /\ seen[q] \in Response) \/ said' = said
    BY <1>3 DEF replyToDuplicate, Recorded, Known, ExchangeTypes
  <2> QED
    <3>1. JobTypes' /\ ExchangeTypes' /\ ~job'.own
      BY <1>1, <1>3, <2>1, Zenon DEF JobTypes, ExchangeTypes
    <3>2. ASSUME NEW p \in Con PROVE EntryOf(p)'
      <4>1. said'[p] \subseteq {seen[p]}
        BY <2>1, RequestsAssumption DEF EntryOf, ExchangeTypes
      <4> QED
        BY <1>1, <1>3, <4>1, Zenon DEF EntryOf
    <3>3. job'.own \in BOOLEAN
      BY <1>3, Zenon
    <3> QED
      BY <1>1, <3>1, <3>2, <3>3, Zenon
<1>4. CASE q \in Con /\ ~Duplicate(q) /\ replyBlock1Unsupported(q) /\ UNCHANGED job
  <2>1. seen[q] = <<"absent", 0>>
    BY <1>4 DEF Duplicate, Known, ExchangeTypes, Response, Codes
  <2>2. said[q] = {}
    BY <1>4, <2>1 DEF EntryOf, ExchangeTypes, Response, Codes
  <2>3. <<"4.13", 0>> \in Response
    BY RequestsAssumption DEF Response, Codes
  <2> QED
    <3>1. seen' = [seen EXCEPT ![q] = <<"4.13", 0>>] /\ said' = [said EXCEPT ![q] = @ \cup {<<"4.13", 0>>}]
      BY <1>4, Zenon DEF replyBlock1Unsupported
    <3>2. JobTypes' /\ ExchangeTypes' /\ ~job'.own
      BY <1>1, <1>4, <2>3, <3>1, Zenon DEF JobTypes, ExchangeTypes
    <3>3. ASSUME NEW p \in Con PROVE EntryOf(p)'
      <4>1. CASE p = q
        <5>1. seen'[q] = <<"4.13", 0>> /\ said'[q] = {<<"4.13", 0>>}
          BY <2>2, <3>1, Zenon DEF ExchangeTypes
        <5> QED
          BY <1>1, <1>4, <2>1, <4>1, <5>1 DEF EntryOf
      <4>2. CASE p # q
        <5>1. seen'[p] = seen[p] /\ said'[p] = said[p]
          BY <3>1, <4>2, RequestsAssumption, Zenon DEF ExchangeTypes
        <5> QED
          BY <1>1, <1>4, <5>1, Zenon DEF EntryOf
      <4> QED
        BY <4>1, <4>2, Zenon
    <3>4. job'.own \in BOOLEAN
      BY <1>4, Zenon
    <3> QED
      BY <1>1, <3>2, <3>3, <3>4, Zenon
<1>5. CASE /\ ~Duplicate(q) /\ UNCHANGED said
           /\ seen' = IF q \in Con THEN [seen EXCEPT ![q] = <<"pending", 0>>] ELSE seen
           /\ job' = [at |-> "plugin", req |-> q, own |-> q \in Con]
  <2>1. q \in Con => seen[q] = <<"absent", 0>>
    BY <1>5 DEF Duplicate, Known, ExchangeTypes, Response, Codes
  <2>2. q \in Con => said[q] = {}
    BY <2>1 DEF EntryOf, ExchangeTypes, Response, Codes
  <2>3. job'.own \in BOOLEAN /\ (job'.own <=> q \in Con)
    <3>1. job'.own = (q \in Con)
      BY <1>5, Zenon
    <3>2. (q \in Con) \in BOOLEAN
      OBVIOUS
    <3> QED
      BY <3>1, <3>2, Zenon
  <2>4. JobTypes'
    BY <1>5, <2>3, Zenon DEF JobTypes
  <2>5. ExchangeTypes'
    BY <1>1, <1>5, Zenon DEF ExchangeTypes
  <2>6. ASSUME NEW p \in Con PROVE EntryOf(p)'
    <3>1. job'.req = q
      BY <1>5, Zenon
    <3>2. seen'[p] = IF p = q THEN <<"pending", 0>> ELSE seen[p]
      BY <1>5, RequestsAssumption, Zenon DEF ExchangeTypes
    <3>3. CASE p = q
      BY <1>1, <1>5, <2>1, <2>2, <2>3, <3>1, <3>2, <3>3, Zenon DEF EntryOf
    <3>4. CASE p # q
      BY <1>1, <1>5, <3>1, <3>2, <3>4, Zenon DEF EntryOf
    <3> QED
      BY <3>3, <3>4, Zenon
  <2> QED
    BY <1>1, <2>3, <2>4, <2>5, <2>6, Zenon
<1>6. CASE q \notin Con /\ replyBlock1Unsupported(q) /\ UNCHANGED job
  BY <1>2, <1>6, Zenon DEF replyBlock1Unsupported
<1> QED
  BY <1>2, <1>3, <1>4, <1>5, <1>6, Zenon DEF handleCoAPMessage

(* A response is recorded and perhaps sent, and the exchange is over. *)
LEMMA ExchangeAnswers ==
  ASSUME ExchangeInv, job.at # "idle", NEW resp \in Response, job' = Idle,
         UNCHANGED <<runs, ranFor, failed>>, open' \in BOOLEAN,
         seen' = IF job.own THEN [seen EXCEPT ![job.req] = resp] ELSE seen,
         said' = said \/ (job.own /\ said' = [said EXCEPT ![job.req] = @ \cup {resp}])
  PROVE ExchangeInv'
<1> USE DEF ExchangeInv
<1>1. JobTypes' /\ ~job'.own /\ job'.own \in BOOLEAN
  BY Zenon DEF Idle, JobTypes
<1>2. ExchangeTypes'
  BY DEF ExchangeTypes, JobTypes
<1>3. ASSUME NEW q \in Con PROVE EntryOf(q)'
  <2>1. CASE job.own /\ job.req = q
    <3>1. seen'[q] = resp /\ resp # <<"absent", 0>> /\ resp # <<"pending", 0>>
      BY <2>1, RequestsAssumption DEF ExchangeTypes, Response, Codes
    <3>2. said[q] = {} /\ said'[q] \subseteq {resp}
      BY <2>1, RequestsAssumption DEF EntryOf, ExchangeTypes, Response, Codes
    <3> QED
      BY <1>1, <2>1, <3>1, <3>2, Zenon DEF EntryOf
  <2>2. CASE ~(job.own /\ job.req = q)
    <3>1. seen'[q] = seen[q] /\ said'[q] = said[q]
      BY <2>2, RequestsAssumption, Zenon DEF ExchangeTypes, JobTypes
    <3> QED
      BY <1>1, <2>2, <3>1, Zenon DEF EntryOf
  <2> QED
    BY <2>1, <2>2, Zenon
<1> QED
  BY <1>1, <1>2, <1>3, Zenon

LEMMA ExchangeStep == ExchangeInv /\ [ExchangeNext]_exchangeVars => ExchangeInv'
<1> SUFFICES ASSUME ExchangeInv, [ExchangeNext]_exchangeVars PROVE ExchangeInv'
  BY Zenon
<1>1. ASSUME NEW q \in Requests, handleCoAPMessage(q) PROVE ExchangeInv'
  BY <1>1, ExchangeArrives, Zenon
<1> USE DEF ExchangeInv
<1>2. CASE RunPlugins
  <2>1. CASE job' = [job EXCEPT !.at = "handler"] /\ UNCHANGED <<seen, open, said>>
    <3>1. /\ job.at = "plugin" /\ job'.at = "handler" /\ job'.req = job.req /\ job'.own = job.own
          /\ UNCHANGED <<runs, ranFor, failed>>
      BY <1>2, <2>1, Zenon DEF RunPlugins, JobTypes
    <3>2. JobTypes' /\ ExchangeTypes'
      BY <2>1, <3>1, Zenon DEF JobTypes, ExchangeTypes
    <3>3. ASSUME NEW q \in Con PROVE EntryOf(q)'
      BY <2>1, <3>1, Zenon DEF EntryOf
    <3> QED
      BY <2>1, <3>1, <3>2, <3>3, Zenon
  <2>2. CASE job' = Idle /\ job.at = "plugin"
    <3> DEFINE resp == <<"5.00", 0>>
    <3>1. resp \in Response
      BY RequestsAssumption DEF Response, Codes
    <3>2. open' \in BOOLEAN
      BY <1>2, <2>2, Zenon DEF RunPlugins, JobTypes
    <3>3. /\ seen' = IF job.own THEN [seen EXCEPT ![job.req] = resp] ELSE seen
          /\ said' = said \/ (job.own /\ said' = [said EXCEPT ![job.req] = @ \cup {resp}])
          /\ UNCHANGED <<runs, ranFor, failed>>
      <4>1. job' # [job EXCEPT !.at = "handler"]
        BY <2>2, Zenon DEF Idle, JobTypes
      <4>2. /\ UNCHANGED <<runs, ranFor, failed>>
            /\ IF job.req \in Con
                 THEN /\ seen' = IF job.own THEN [seen EXCEPT ![job.req] = resp] ELSE seen
                      /\ said' = IF job.own /\ open' THEN [said EXCEPT ![job.req] = @ \cup {resp}] ELSE said
                 ELSE UNCHANGED <<seen, said>>
        BY <1>2, <4>1, Zenon DEF RunPlugins
      <4>3. job.own => job.req \in Con
        BY Zenon DEF JobTypes
      <4> QED
        BY <4>2, <4>3, Zenon
    <3> QED
      BY <2>2, <3>1, <3>2, <3>3, ExchangeAnswers, Zenon
  <2> QED
    BY <1>2, <2>1, <2>2, Zenon DEF RunPlugins
<1>3. CASE RunHandler
  <2>1. /\ job.at = "handler" /\ runs' = runs + 1 /\ runs < MaxRuns /\ UNCHANGED <<seen, said>>
        /\ ranFor' = IF job.own THEN [ranFor EXCEPT ![job.req] = @ + 1] ELSE ranFor
    BY <1>3, Zenon DEF RunHandler
  <2>2. open' \in BOOLEAN
    BY <1>3, Zenon DEF RunHandler
  <2>3. \/ job' = [job EXCEPT !.at = "reply"] /\ failed' = failed
        \/ job' = Idle /\ failed' = IF job.own THEN failed \cup {job.req} ELSE failed
    BY <1>3, Zenon DEF RunHandler
  <2>4. \/ job'.at = "reply" /\ job'.req = job.req /\ job'.own = job.own /\ failed' = failed
        \/ job'.at = "idle" /\ ~job'.own /\ failed' = IF job.own THEN failed \cup {job.req} ELSE failed
    BY <2>3 DEF Idle, JobTypes
  <2>5. JobTypes'
    BY <2>1, <2>3, <2>4, Zenon DEF JobTypes, Idle
  <2>6. job'.own \in BOOLEAN
    <3>1. job'.own = job.own \/ job'.own = FALSE
      BY <2>3 DEF Idle, JobTypes
    <3> QED
      BY <3>1, Zenon
  <2>7. job.own => ranFor[job.req] = 0
    BY <2>1, Zenon DEF JobTypes, EntryOf
  <2>8. ExchangeTypes'
    BY <2>1, <2>4, <2>7, RequestsAssumption DEF ExchangeTypes, JobTypes
  <2>9. ASSUME NEW q \in Con PROVE EntryOf(q)'
    <3>1. CASE job.own /\ job.req = q
      <4>1. ranFor'[q] = 1
        BY <2>1, <2>7, <3>1, RequestsAssumption DEF ExchangeTypes
      <4> QED
        <5>1. seen'[q] = <<"pending", 0>> /\ seen'[q] # <<"absent", 0>> /\ said'[q] \subseteq {seen'[q]} /\ q \notin failed
          BY <2>1, <3>1 DEF EntryOf
        <5>2. CASE job'.at = "reply" /\ job'.req = job.req /\ job'.own = job.own /\ failed' = failed
          BY <3>1, <4>1, <5>1, <5>2 DEF EntryOf
        <5>3. CASE job'.at = "idle" /\ ~job'.own /\ failed' = IF job.own THEN failed \cup {job.req} ELSE failed
          BY <3>1, <4>1, <5>1, <5>3 DEF EntryOf
        <5> QED
          BY <2>4, <5>2, <5>3, Zenon
    <3>2. CASE ~(job.own /\ job.req = q)
      <4>1. ranFor'[q] = ranFor[q] /\ (q \in failed' <=> q \in failed)
        BY <2>1, <2>4, <3>2, RequestsAssumption, Zenon DEF ExchangeTypes, JobTypes
      <4> QED
        BY <2>1, <2>4, <3>2, <4>1, Zenon DEF EntryOf
    <3> QED
      BY <3>1, <3>2, Zenon
  <2> QED
    BY <2>2, <2>5, <2>6, <2>8, <2>9, Zenon
<1>4. CASE Reply
  <2>1. job.at = "reply" /\ job' = Idle /\ UNCHANGED <<open, runs, ranFor, failed>>
    BY <1>4, Zenon DEF Reply
  <2>2. open' \in BOOLEAN
    BY <2>1, Zenon
  <2>3. \E resp \in Response :
          /\ seen' = IF job.own THEN [seen EXCEPT ![job.req] = resp] ELSE seen
          /\ said' = said \/ (job.own /\ said' = [said EXCEPT ![job.req] = @ \cup {resp}])
    <3>1. CASE job.req \in Con
      <4>1. PICK code \in {"2.xx", "4.02"} : Send(job.req, <<code, runs>>)
        BY <1>4, <3>1, Zenon DEF Reply
      <4>2. <<code, runs>> \in Response
        BY Zenon DEF Response, Codes, ExchangeTypes
      <4> QED
        BY <4>1, <4>2, Zenon DEF Send
    <3>2. CASE job.req \notin Con
      <4>1. <<"2.xx", 0>> \in Response
        BY RequestsAssumption DEF Response, Codes
      <4> QED
        BY <1>4, <3>2, <4>1, Zenon DEF Reply, JobTypes
    <3> QED
      BY <3>1, <3>2, Zenon
  <2> QED
    BY <2>1, <2>2, <2>3, ExchangeAnswers, Zenon
<1>5. CASE ClearSeen
  <2>1. job' = [job EXCEPT !.own = FALSE] /\ UNCHANGED <<open, runs>>
    BY <1>5, Zenon DEF ClearSeen
  <2>2. job'.at = job.at /\ job'.req = job.req /\ job'.own = FALSE
    BY <2>1, Zenon DEF JobTypes
  <2>3. JobTypes'
    <3>1. PICK a, q, o : job = [at |-> a, req |-> q, own |-> o]
      BY Zenon DEF JobTypes
    <3>2. job' = [at |-> a, req |-> q, own |-> FALSE]
      BY <2>1, <3>1, Zenon
    <3> QED
      BY <2>2, <3>2, Zenon DEF JobTypes
  <2>4. ExchangeTypes'
    BY <1>5, <2>1, RequestsAssumption DEF ClearSeen, ExchangeTypes
  <2>5. ASSUME NEW q \in Con PROVE EntryOf(q)'
    BY <1>5, <2>2, RequestsAssumption DEF ClearSeen, EntryOf
  <2>6. open' \in BOOLEAN /\ job'.own \in BOOLEAN
    BY <2>1, <2>2, Zenon
  <2> QED
    BY <2>3, <2>4, <2>5, <2>6, Zenon
<1>6. CASE CloseSession \/ UNCHANGED exchangeVars
  <2>1. UNCHANGED <<seen, job, runs, ranFor, failed, said>>
    BY <1>6, Zenon DEF CloseSession, exchangeVars
  <2>2. open' \in BOOLEAN
    BY <1>6, Zenon DEF CloseSession, exchangeVars
  <2>3. JobTypes' /\ ExchangeTypes' /\ \A q \in Con : EntryOf(q)'
    BY <2>1, Zenon DEF JobTypes, ExchangeTypes, EntryOf
  <2> QED
    BY <2>1, <2>2, <2>3, Zenon
<1> QED
  BY <1>1, <1>2, <1>3, <1>4, <1>5, <1>6, Zenon DEF ExchangeNext

(* While the dedup entry of a confirmable request lives the handler runs for *)
(* it at most once, its peer is given one response and no other, and the     *)
(* entry of a finished exchange has that response on record                  *)
(* (handleCoAPMessage, sendDedupResponse, seenCleanupLoop), for any set of   *)
(* requests in any order and however often they are repeated.                *)
THEOREM ExchangeOnceHolds == ExchangeSpec => []ExchangeOnce
<1>1. ExchangeInv => ExchangeOnce
  <2> SUFFICES ASSUME ExchangeInv PROVE ExchangeOnce
    BY Zenon
  <2>1. ExchangeTypeOK
    BY Zenon DEF ExchangeInv, JobTypes, ExchangeTypes, ExchangeTypeOK
  <2>2. ASSUME NEW q \in Con PROVE Cardinality(said[q]) <= 1
    <3>1. said[q] \subseteq {seen[q]}
      BY Zenon DEF ExchangeInv, EntryOf
    <3>2. IsFiniteSet({seen[q]}) /\ Cardinality({seen[q]}) = 1
      BY FS_Singleton, Zenon
    <3>3. Cardinality(said[q]) <= Cardinality({seen[q]})
      BY <3>1, <3>2, FS_Subset, Zenon
    <3> QED
      BY <3>2, <3>3, Zenon
  <2>3. OneResponse /\ ResponseKept
    <3>1. \A q \in Con : ranFor[q] <= 1
      BY Zenon DEF ExchangeInv, EntryOf
    <3>2. ResponseKept
      BY Zenon DEF ExchangeInv, EntryOf, ResponseKept
    <3> QED
      BY <2>2, <3>1, <3>2, Zenon DEF OneResponse
  <2> QED
    BY <2>1, <2>3, Zenon DEF ExchangeOnce
<1> QED
  BY <1>1, ExchangeInitInv, ExchangeStep, PTL DEF ExchangeSpec

-----------------------------------------------------------------------------
(* The LwM2M registry. *)
Lwm2mTypes ==
  /\ clock \in 0..MaxTime /\ lastSweepAt \in 0..clock
  /\ registrations \in [Endpoints -> Registration \cup {NoReg}]
  /\ resources \in [Endpoints -> [Paths -> {"none", "set", "stale"}]]
  /\ call \in [Callers -> [endpoint : Endpoints, now : 0..clock, lifetime : 1..maxLifetime] \cup {NoReg}]

(* A caller that waits for the lock read the clock no more than MaxLag ago,  *)
(* so what it registers outlasts every sweep that came in between.           *)
CallsRecent ==
  \A c \in Callers : call[c] # NoReg => clock - call[c].now <= MaxLag /\ MaxLag <= call[c].lifetime

Unexpired == \A e \in Registered : ~Expired(registrations[e], lastSweepAt)

Lwm2mInv ==
  /\ Lwm2mTypes /\ CallsRecent /\ Unexpired /\ refused \in BOOLEAN
  /\ ValuesBelong /\ RefusedWhenFull

LEMMA Lwm2mInitInv == RegistryInit => Lwm2mInv
<1> SUFFICES ASSUME RegistryInit PROVE Lwm2mInv
  BY Zenon
<1> USE RegistryAssumption DEF RegistryInit
<1>1. Registered = {} /\ Cardinality(Registered) = 0
  BY FS_EmptySet, Zenon DEF Registered
<1>2. Lwm2mTypes /\ CallsRecent
  BY DEF Lwm2mTypes, CallsRecent, NoValues
<1>3. Unexpired /\ ValuesBelong /\ RefusedWhenFull
  BY <1>1 DEF Unexpired, ValuesBelong, RefusedWhenFull, NoValues
<1>4. refused \in BOOLEAN
  BY Zenon
<1> QED
  BY <1>2, <1>3, <1>4, Zenon DEF Lwm2mInv

LEMMA RegisteredFinite == IsFiniteSet(Registered) /\ Cardinality(Registered) \in Nat
<1>1. Registered \subseteq Endpoints
  BY Zenon DEF Registered
<1> QED
  BY <1>1, FS_Subset, FS_CardinalityType, RegistryAssumption, Zenon

(* A registration, and what a sweep keeps of it. *)
LEMMA RegistrationOf ==
  ASSUME Lwm2mTypes, NEW e \in Registered
  PROVE  registrations[e].lifetime \in 1..maxLifetime /\ registrations[e].updatedAt \in 0..MaxTime
  BY Zenon DEF Lwm2mTypes, Registered, Registration

LEMMA SweepKeeps ==
  ASSUME Lwm2mInv, NEW now \in 0..clock
  PROVE  /\ sweepLocked(now) \in [Endpoints -> Registration \cup {NoReg}]
         /\ sweptResources(now) \in [Endpoints -> [Paths -> {"none", "set", "stale"}]]
         /\ \A e \in Endpoints : sweepLocked(now)[e] # NoReg =>
              sweepLocked(now)[e] = registrations[e] /\ e \in Registered /\ ~Expired(registrations[e], now)
         /\ \A e \in Registered : sweepLocked(now)[e] = NoReg => Expired(registrations[e], now)
         /\ \A e \in Endpoints, p \in Paths : sweptResources(now)[e][p] # "none" =>
              sweepLocked(now)[e] # NoReg /\ sweptResources(now)[e][p] = "set" /\ p \notin ReadOnly
  BY Zenon DEF Lwm2mInv, Lwm2mTypes, sweepLocked, sweptResources, Gone, Registered, NoValues, ValuesBelong

(* What a step may do to the table: it loses registrations, or one is added  *)
(* while there is room.                                                      *)
LEMMA FewerRegistered ==
  ASSUME Lwm2mInv, Registered' \subseteq Registered PROVE Cardinality(Registered') <= maxRegistrations
<1>1. Cardinality(Registered') <= Cardinality(Registered) /\ Cardinality(Registered') \in Nat
  BY RegisteredFinite, FS_Subset, FS_CardinalityType, Zenon
<1> QED
  BY <1>1, RegisteredFinite, RegistryAssumption DEF Lwm2mInv, RefusedWhenFull

LEMMA RegisterStep ==
  ASSUME Lwm2mInv, NEW c \in Callers, Register(c) PROVE Lwm2mInv' /\ EvictsInTime
<1> USE DEF Lwm2mInv
<1> DEFINE e == call[c].endpoint
           now == call[c].now
           full == e \notin Registered /\ Cardinality(Registered) >= maxRegistrations
           sweep == full /\ SweepDue
           regs == IF sweep THEN sweepLocked(now) ELSE registrations
           res == IF sweep THEN sweptResources(now) ELSE resources
           live == {x \in Endpoints : regs[x] # NoReg}
           limit == full /\ Cardinality(live) >= maxRegistrations
           reg == [lifetime |-> call[c].lifetime, updatedAt |-> now]
<1>1. /\ call[c] # NoReg /\ clock' = clock /\ call' = [call EXCEPT ![c] = NoReg]
      /\ lastSweepAt' = IF sweep THEN now ELSE lastSweepAt
      /\ registrations' = IF limit THEN regs ELSE [regs EXCEPT ![e] = reg]
      /\ refused' = limit
      /\ resources' = IF limit \/ regs[e] # NoReg THEN res
                      ELSE [res EXCEPT ![e] = [p \in Paths |-> IF @[p] = "none" THEN "none" ELSE "stale"]]
  BY Zenon DEF Register
<1>2. /\ e \in Endpoints /\ now \in 0..clock /\ clock - now <= MaxLag
      /\ call[c].lifetime \in 1..maxLifetime /\ MaxLag <= call[c].lifetime
  BY <1>1, Zenon DEF Lwm2mTypes, CallsRecent
<1>3. /\ regs \in [Endpoints -> Registration \cup {NoReg}]
      /\ res \in [Endpoints -> [Paths -> {"none", "set", "stale"}]]
      /\ \A x \in Endpoints : regs[x] # NoReg => regs[x] = registrations[x] /\ x \in Registered
      /\ \A x \in Registered : regs[x] = NoReg => Expired(registrations[x], now)
      /\ \A x \in Endpoints, p \in Paths : res[x][p] # "none" => regs[x] # NoReg /\ res[x][p] = "set" /\ p \notin ReadOnly
  <2>1. CASE sweep
    BY <1>2, <2>1, SweepKeeps
  <2>2. CASE ~sweep
    <3>1. regs = registrations /\ res = resources
      BY <2>2, Zenon
    <3> HIDE DEF regs, res, sweep
    <3> QED
      BY <3>1, Zenon DEF Lwm2mTypes, Registered, ValuesBelong
  <2> QED
    BY <2>1, <2>2, Zenon
<1>4. ASSUME NEW x \in Endpoints, regs[x] # NoReg PROVE ~Expired(regs[x], lastSweepAt')
  <2>1. CASE sweep
    BY <1>1, <1>2, <1>4, <2>1, SweepKeeps, Zenon
  <2>2. CASE ~sweep
    BY <1>1, <1>3, <1>4, <2>2, Zenon DEF Unexpired
  <2> QED
    BY <2>1, <2>2, Zenon
<1>5. reg \in Registration /\ reg # NoReg /\ lastSweepAt' \in 0..clock /\ ~Expired(reg, lastSweepAt')
  BY <1>1, <1>2, RegistryAssumption DEF Registration, Expired, Lwm2mTypes
<1> DEFINE lim == limit
<1>6. /\ live = {x \in Endpoints : regs[x] # NoReg}
      /\ lim => full /\ Cardinality(live) >= maxRegistrations
      /\ ~lim => ~full \/ ~(Cardinality(live) >= maxRegistrations)
      /\ ~sweep => regs = registrations /\ lastSweepAt' = lastSweepAt
      /\ sweep => lastSweepAt' = now /\ e \notin Registered
      /\ registrations' = IF lim THEN regs ELSE [regs EXCEPT ![e] = reg]
      /\ refused' = lim
      /\ resources' = IF lim \/ regs[e] # NoReg THEN res
                      ELSE [res EXCEPT ![e] = [p \in Paths |-> IF @[p] = "none" THEN "none" ELSE "stale"]]
      /\ full /\ ~sweep => ~SweepDue
      /\ ~full => e \in Registered \/ ~(Cardinality(Registered) >= maxRegistrations)
  BY <1>1, Zenon
<1> HIDE DEF lim, limit, live, res, regs, reg, sweep, full, e, now
<1>7. resources' = res
  <2>1. CASE lim \/ regs[e] # NoReg
    BY <1>6, <2>1, Zenon
  <2>2. CASE ~lim /\ regs[e] = NoReg
    <3>1. \A p \in Paths : res[e][p] = "none"
      BY <1>2, <1>3, <2>2, Zenon
    <3>2. res[e] = [p \in Paths |-> IF res[e][p] = "none" THEN "none" ELSE "stale"]
      BY <1>2, <1>3, <3>1
    <3> QED
      BY <1>2, <1>3, <1>6, <2>2, <3>2
  <2> QED
    BY <2>1, <2>2, Zenon
<1>8. registrations' \in [Endpoints -> Registration \cup {NoReg}]
  BY <1>2, <1>3, <1>5, <1>6, Zenon
<1>9. \A x \in Endpoints : registrations'[x] = IF ~lim /\ x = e THEN reg ELSE regs[x]
  BY <1>2, <1>3, <1>6
<1>10. Lwm2mTypes' /\ CallsRecent'
  <2>1. call' \in [Callers -> [endpoint : Endpoints, now : 0..clock, lifetime : 1..maxLifetime] \cup {NoReg}]
    BY <1>1, Zenon DEF Lwm2mTypes
  <2>2. CallsRecent'
    BY <1>1, Zenon DEF CallsRecent, Lwm2mTypes
  <2> QED
    BY <1>1, <1>3, <1>5, <1>7, <1>8, <2>1, <2>2, Zenon DEF Lwm2mTypes
<1>11. Unexpired'
  BY <1>4, <1>5, <1>9, Zenon DEF Unexpired, Registered, Expired
<1>12. ValuesBelong'
  BY <1>3, <1>5, <1>7, <1>9, Zenon DEF ValuesBelong, Registered
<1>13. Registered' = (IF lim THEN live ELSE live \cup {e}) /\ live \subseteq Registered /\ IsFiniteSet(live)
       /\ Cardinality(live) \in Nat /\ Cardinality(live) <= Cardinality(Registered)
  <2>1. Registered' = (IF lim THEN live ELSE live \cup {e}) /\ live \subseteq Registered
    BY <1>2, <1>3, <1>5, <1>6, <1>9 DEF Registered
  <2> QED
    BY <2>1, RegisteredFinite, FS_Subset, FS_CardinalityType, Zenon
<1>14. Cardinality(Registered') <= maxRegistrations /\ (lim => Cardinality(Registered') = maxRegistrations)
  <2>1. Cardinality(Registered) <= maxRegistrations
    BY Zenon DEF RefusedWhenFull
  <2>2. CASE lim
    BY <1>6, <1>13, <2>1, <2>2, RegistryAssumption, RegisteredFinite
  <2>3. CASE ~lim /\ e \in live
    <3>1. Registered' = live
      BY <1>13, <2>3, Zenon
    <3> QED
      BY <1>13, <2>1, <2>3, <3>1, RegistryAssumption, RegisteredFinite
  <2>4. CASE ~lim /\ e \notin live
    <3>1. Cardinality(live \cup {e}) = Cardinality(live) + 1
      BY <1>13, <2>4, FS_AddElement, Zenon
    <3>2. Cardinality(live) < maxRegistrations
      <4>1. e \notin Registered
        <5>1. CASE sweep
          BY <1>6, <5>1, Zenon
        <5>2. CASE ~sweep
          BY <1>2, <1>6, <2>4, <5>2, Zenon DEF Registered
        <5> QED
          BY <5>1, <5>2, Zenon
      <4>2. CASE full
        BY <1>6, <1>13, <2>4, <4>2, RegistryAssumption
      <4>3. CASE ~full
        BY <1>6, <1>13, <4>1, <4>3, RegistryAssumption, RegisteredFinite
      <4> QED
        BY <4>2, <4>3, Zenon
    <3> QED
      BY <1>13, <2>4, <3>1, <3>2, RegistryAssumption
  <2> QED
    BY <2>2, <2>3, <2>4, Zenon
<1>15. lim => clock - lastSweepAt' < sweepThrottle \/ clock - lastSweepAt' <= MaxLag
  BY <1>2, <1>6, RegistryAssumption DEF SweepDue, Lwm2mTypes
<1>16. RefusedWhenFull'
  BY <1>1, <1>6, <1>11, <1>14, <1>15 DEF RefusedWhenFull, Unexpired
<1>17. refused' \in BOOLEAN
  BY <1>1, Zenon DEF limit
<1>18. EvictsInTime
  <2> SUFFICES ASSUME NEW x \in Registered, registrations'[x] = NoReg
               PROVE clock > registrations[x].updatedAt + registrations[x].lifetime
    BY Zenon DEF EvictsInTime
  <2>1. Expired(registrations[x], now)
    BY <1>3, <1>5, <1>9, Zenon DEF Registered
  <2> QED
    BY <1>2, <2>1, RegistrationOf, RegistryAssumption DEF Expired, Lwm2mTypes
<1> QED
  BY <1>10, <1>11, <1>12, <1>16, <1>17, <1>18, Zenon

LEMMA Lwm2mStep ==
  ASSUME Lwm2mInv, [RegistryNext]_lwm2mVars PROVE Lwm2mInv' /\ [EvictsInTime]_lwm2mVars
<1> USE DEF Lwm2mInv
<1>1. ASSUME NEW c \in Callers, Register(c) PROVE Lwm2mInv' /\ EvictsInTime
  BY <1>1, RegisterStep, Zenon
<1>2. ASSUME NEW c \in Callers, NEW e \in Endpoints, NEW via, NEW life \in Lifetimes, RegisterCall(c, e, via, life)
      PROVE Lwm2mInv' /\ EvictsInTime
  <2> DEFINE asked == Clamp(IF life = 0 THEN defaultLife ELSE life)
  <2>1. asked \in 1..maxLifetime /\ MaxLag <= asked
    BY RegistryAssumption DEF Clamp
  <2>2. /\ UNCHANGED <<clock, registrations, resources, lastSweepAt>> /\ refused' = FALSE
        /\ call' = [call EXCEPT ![c] = [endpoint |-> e, now |-> clock, lifetime |-> asked]]
    BY <1>2, Zenon DEF RegisterCall
  <2> HIDE DEF asked
  <2>3. call' \in [Callers -> [endpoint : Endpoints, now : 0..clock, lifetime : 1..maxLifetime] \cup {NoReg}]
    BY <2>1, <2>2 DEF Lwm2mTypes
  <2>4. CallsRecent'
    BY <2>1, <2>2, RegistryAssumption DEF CallsRecent, Lwm2mTypes
  <2>5. Lwm2mTypes'
    BY <2>2, <2>3, Zenon DEF Lwm2mTypes
  <2>6. Unexpired' /\ ValuesBelong' /\ RefusedWhenFull' /\ EvictsInTime
    BY <2>2, Zenon DEF Unexpired, ValuesBelong, RefusedWhenFull, Registered, EvictsInTime
  <2>7. refused' \in BOOLEAN
    BY <2>2, Zenon
  <2> QED
    BY <2>4, <2>5, <2>6, <2>7, Zenon
<1>3. ASSUME NEW e \in Endpoints, NEW via, NEW life \in Lifetimes, Update(e, via, life) PROVE Lwm2mInv' /\ EvictsInTime
  <2> DEFINE reg == [lifetime |-> IF life = 0 THEN registrations[e].lifetime ELSE Clamp(life), updatedAt |-> clock]
  <2>1. /\ UNCHANGED <<clock, resources, lastSweepAt, call>> /\ refused' = FALSE
        /\ e \in Registered /\ registrations' = [registrations EXCEPT ![e] = reg]
    BY <1>3, Zenon DEF Update
  <2>2. reg \in Registration /\ reg # NoReg /\ ~Expired(reg, lastSweepAt)
    BY <2>1, RegistrationOf, RegistryAssumption DEF Registration, Expired, Clamp, Lwm2mTypes
  <2> HIDE DEF reg
  <2>3. Lwm2mTypes' /\ CallsRecent'
    BY <2>1, <2>2, Zenon DEF Lwm2mTypes, CallsRecent
  <2>4. Registered' = Registered
    BY <2>1, <2>2, Zenon DEF Registered, Lwm2mTypes
  <2>5. Unexpired'
    BY <2>1, <2>2, <2>4, Zenon DEF Unexpired, Registered, Lwm2mTypes, Expired
  <2>6. ValuesBelong' /\ RefusedWhenFull'
    BY <2>1, <2>4, Zenon DEF ValuesBelong, RefusedWhenFull
  <2>7. EvictsInTime
    BY <2>1, <2>2, Zenon DEF EvictsInTime, Registered, Lwm2mTypes
  <2>8. refused' \in BOOLEAN
    BY <2>1, Zenon
  <2> QED
    BY <2>3, <2>5, <2>6, <2>7, <2>8, Zenon
<1>4. ASSUME NEW e \in Endpoints, Deregister(e) PROVE Lwm2mInv' /\ EvictsInTime
  <2>1. /\ UNCHANGED <<clock, lastSweepAt, call>> /\ refused' = FALSE
        /\ registrations' = [registrations EXCEPT ![e] = NoReg] /\ resources' = [resources EXCEPT ![e] = NoValues]
    BY <1>4, Zenon DEF Deregister
  <2>2. Registered' \subseteq Registered /\ \A x \in Endpoints \ {e} : registrations'[x] = registrations[x]
    BY <2>1, Zenon DEF Registered, Lwm2mTypes
  <2>3. Lwm2mTypes' /\ CallsRecent'
    BY <2>1, Zenon DEF Lwm2mTypes, CallsRecent, NoValues
  <2>4. Unexpired' /\ ValuesBelong'
    BY <2>1, <2>2, Zenon DEF Unexpired, ValuesBelong, Registered, Lwm2mTypes, Expired, NoValues
  <2>5. RefusedWhenFull'
    BY <2>1, <2>2, FewerRegistered, Zenon DEF RefusedWhenFull
  <2>6. EvictsInTime
    BY <1>4, <2>2, Zenon DEF EvictsInTime, Registered
  <2>7. refused' \in BOOLEAN
    BY <2>1, Zenon
  <2> QED
    BY <2>3, <2>4, <2>5, <2>6, <2>7, Zenon
<1>5. ASSUME NEW e \in Endpoints, NEW p \in Paths, Write(e, p) PROVE Lwm2mInv' /\ EvictsInTime
  <2>1. /\ UNCHANGED <<clock, registrations, lastSweepAt, call>> /\ refused' = FALSE
        /\ e \in Registered /\ p \notin ReadOnly /\ resources' = [resources EXCEPT ![e][p] = "set"]
    BY <1>5, Zenon DEF Write
  <2>2. Lwm2mTypes' /\ CallsRecent'
    BY <2>1, Zenon DEF Lwm2mTypes, CallsRecent
  <2>3. ValuesBelong'
    BY <2>1 DEF ValuesBelong, Registered, Lwm2mTypes
  <2>4. Unexpired' /\ RefusedWhenFull' /\ EvictsInTime
    BY <2>1, Zenon DEF Unexpired, RefusedWhenFull, Registered, EvictsInTime
  <2>5. refused' \in BOOLEAN
    BY <2>1, Zenon
  <2> QED
    BY <2>2, <2>3, <2>4, <2>5, Zenon
<1>6. CASE SweepExpired
  <2>1. /\ UNCHANGED <<clock, lastSweepAt, call>> /\ refused' = FALSE
        /\ registrations' = sweepLocked(clock) /\ resources' = sweptResources(clock)
    BY <1>6, Zenon DEF SweepExpired
  <2>2. clock \in 0..clock
    BY RegistryAssumption DEF Lwm2mTypes
  <2>3. Lwm2mTypes' /\ CallsRecent'
    BY <2>1, <2>2, SweepKeeps, Zenon DEF Lwm2mTypes, CallsRecent
  <2>4. Registered' \subseteq Registered /\ \A x \in Registered' : registrations'[x] = registrations[x]
    BY <2>1, <2>2, SweepKeeps, Zenon DEF Registered
  <2>5. ValuesBelong'
    BY <2>1, <2>2, SweepKeeps DEF ValuesBelong, Registered
  <2>6. Unexpired'
    BY <2>1, <2>4, Zenon DEF Unexpired, Expired
  <2>7. RefusedWhenFull'
    BY <2>1, <2>4, FewerRegistered, Zenon DEF RefusedWhenFull
  <2>8. EvictsInTime
    BY <2>1, <2>2, SweepKeeps, Zenon DEF EvictsInTime, Expired
  <2>9. refused' \in BOOLEAN
    BY <2>1, Zenon
  <2> QED
    BY <2>3, <2>5, <2>6, <2>7, <2>8, <2>9, Zenon
<1>7. CASE Tick
  <2>1. /\ clock' = clock + 1 /\ clock < MaxTime /\ UNCHANGED <<registrations, resources, lastSweepAt, call>>
        /\ \A c \in Callers : call[c] # NoReg => clock - call[c].now < MaxLag
    BY <1>7, Zenon DEF Tick
  <2>2. ~refused'
    BY <1>7, Zenon DEF Tick
  <2>3. \A c \in Callers : call[c] # NoReg => call[c].now \in 0..clock
    BY Zenon DEF Lwm2mTypes
  <2>4. CallsRecent'
    BY <2>1, <2>3, RegistryAssumption DEF CallsRecent, Lwm2mTypes
  <2>5. Lwm2mTypes'
    BY <2>1, RegistryAssumption DEF Lwm2mTypes
  <2>6. Unexpired' /\ ValuesBelong' /\ RefusedWhenFull' /\ EvictsInTime
    BY <2>1, <2>2, Zenon DEF Unexpired, ValuesBelong, RefusedWhenFull, Registered, EvictsInTime
  <2>7. refused' \in BOOLEAN
    BY <1>7, Zenon DEF Tick
  <2> QED
    BY <2>4, <2>5, <2>6, <2>7, Zenon
<1>8. CASE UNCHANGED lwm2mVars
  <2>1. Lwm2mTypes' /\ CallsRecent' /\ Unexpired' /\ ValuesBelong' /\ RefusedWhenFull'
    BY <1>8, Zenon DEF lwm2mVars, Lwm2mTypes, CallsRecent, Unexpired, ValuesBelong, RefusedWhenFull, Registered
  <2>2. refused' \in BOOLEAN
    BY <1>8, Zenon DEF lwm2mVars
  <2> QED
    BY <1>8, <2>1, <2>2, Zenon
<1> QED
  BY <1>1, <1>2, <1>3, <1>4, <1>5, <1>6, <1>7, <1>8, Zenon DEF RegistryNext

(* No value outlives the registration it was written under, the table never  *)
(* holds more than its maximum, and ErrRegistrationLimit means that it was   *)
(* full of registrations none of which had expired at the last sweep         *)
(* (Register, Update, Deregister, Write, sweepLocked), for any number of     *)
(* endpoints and callers and any limits.                                     *)
THEOREM RegistryKeptAlways == RegistrySpec => []RegistryKept
<1>1. Lwm2mInv => RegistryKept
  <2> SUFFICES ASSUME Lwm2mInv PROVE RegistryKept
    BY Zenon
  <2>1. lastSweepAt \in 0..MaxTime
    BY RegistryAssumption DEF Lwm2mInv, Lwm2mTypes
  <2> QED
    BY <2>1, Zenon DEF Lwm2mInv, Lwm2mTypes, RegistryKept, RegistryTypeOK
<1> QED
  BY <1>1, Lwm2mInitInv, Lwm2mStep, PTL DEF RegistrySpec

(* A sweep takes no registration whose lifetime still runs, although the     *)
(* clock Register sweeps with was read before it waited for the lock         *)
(* (Register, sweepLocked, Expired).                                         *)
THEOREM NeverEvictedEarlyHolds == RegistrySpec => NeverEvictedEarly
  BY Lwm2mInitInv, Lwm2mStep, PTL DEF RegistrySpec, NeverEvictedEarly

=============================================================================
