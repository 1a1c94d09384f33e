--------------------------- MODULE Lwm2mRegistry ---------------------------
(***************************************************************************)
(* The LwM2M registry (internal/protocol/lwm2m/server.go) with the calls    *)
(* that reach it from the CoAP responder (coap.go) and from a Client         *)
(* (client.go).  A call to Register reads the clock before it takes the      *)
(* lock, so other calls and time itself may come in between.                 *)
(* A value is "set" or, once a new registration of its endpoint began over   *)
(* it, "stale".                                                              *)
(***************************************************************************)
EXTENDS Naturals, FiniteSets

CONSTANTS
  Endpoints,
  Callers,          \* goroutines that call Register
  Lifetimes,        \* lifetimes callers ask for; 0 asks for the default
  defaultLife, maxLifetime, maxRegistrations, sweepThrottle,
  Paths,            \* resource paths
  ReadOnly,         \* those whose definition does not allow writes
  NoReg,            \* no registration
  MaxTime,          \* bound: the clock
  MaxLag            \* bound: how long a caller of Register waits for the lock

(* WithDefaultLifetime takes positive lifetimes only.  A caller of Register  *)
(* waits for the lock no longer than the shortest lifetime lasts.            *)
ASSUME RegistryAssumption ==
  /\ IsFiniteSet(Endpoints) /\ Lifetimes \subseteq Nat
  /\ maxLifetime \in Nat \ {0} /\ defaultLife \in Nat \ {0} /\ maxRegistrations \in Nat
  /\ MaxTime \in Nat /\ sweepThrottle \in 0..MaxTime /\ MaxLag \in Nat
  /\ \A l \in (Lifetimes \ {0}) \cup {defaultLife, maxLifetime} : MaxLag <= l
  /\ NoReg \notin [lifetime : Nat, updatedAt : Nat] /\ NoReg \notin [endpoint : Endpoints, now : Nat, lifetime : Nat]

VARIABLES
  clock,
  registrations,    \* endpoint -> [lifetime, updatedAt], or NoReg
  resources,        \* endpoint -> path -> "none", "set" or "stale"
  lastSweepAt,
  call,             \* each caller's Register between its clock reading and the lock
  refused           \* the last call was refused with ErrRegistrationLimit

lwm2mVars == <<clock, registrations, resources, lastSweepAt, call, refused>>

Registered == {e \in Endpoints : registrations[e] # NoReg}
NoValues == [p \in Paths |-> "none"]
Registration == [lifetime : 1..maxLifetime, updatedAt : 0..MaxTime]

RegistryTypeOK ==
  /\ clock \in 0..MaxTime /\ lastSweepAt \in 0..MaxTime
  /\ registrations \in [Endpoints -> Registration \cup {NoReg}]
  /\ resources \in [Endpoints -> [Paths -> {"none", "set", "stale"}]]
  /\ refused \in BOOLEAN

(* NewServer.  lastSweepAt is the zero time: more than a throttle ago. *)
RegistryInit ==
  /\ clock = sweepThrottle /\ lastSweepAt = 0
  /\ registrations = [e \in Endpoints |-> NoReg]
  /\ resources = [e \in Endpoints |-> NoValues]
  /\ call = [c \in Callers |-> NoReg]
  /\ refused = FALSE

-----------------------------------------------------------------------------
(* parseLifetime refuses what Register would clamp. *)
Accepted(via, life) == via = "client" \/ life <= maxLifetime
Clamp(life) == IF life > maxLifetime THEN maxLifetime ELSE life

(* Mutation of Expired: a registration is swept while its lifetime runs. *)
ExpiredEarly(reg, now) == now >= reg.updatedAt + reg.lifetime - 1

(* Registration.Expired *)
Expired(reg, now) == now > reg.updatedAt + reg.lifetime

(* sweepLocked: what is left of the two tables. *)
Gone(now) == {e \in Registered : Expired(registrations[e], now)}
sweepLocked(now) == [e \in Endpoints |-> IF e \in Gone(now) THEN NoReg ELSE registrations[e]]
(* Mutation of sweptResources: the values outlive the registration. *)
sweptResourcesKept(now) == resources
sweptResources(now) == [e \in Endpoints |-> IF e \in Gone(now) THEN NoValues ELSE resources[e]]

(* handleRegister, Client.Register and Register up to the lock. *)
RegisterCall(c, e, via, life) ==
  /\ call[c] = NoReg /\ Accepted(via, life)
  /\ call' = [call EXCEPT ![c] = [endpoint |-> e, now |-> clock,
                lifetime |-> Clamp(IF life = 0 THEN defaultLife ELSE life)]]
  /\ refused' = FALSE
  /\ UNCHANGED <<clock, registrations, resources, lastSweepAt>>

SweepDue == clock - lastSweepAt >= sweepThrottle

(* Register under the lock. *)
Register(c) ==
  /\ call[c] # NoReg
  /\ LET e == call[c].endpoint
         now == call[c].now
         full == e \notin Registered /\ Cardinality(Registered) >= maxRegistrations
         sweep == full /\ SweepDue
         regs == IF sweep THEN sweepLocked(now) ELSE registrations
         limit == full /\ Cardinality({x \in Endpoints : regs[x] # NoReg}) >= maxRegistrations
     IN  /\ lastSweepAt' = IF sweep THEN now ELSE lastSweepAt
         /\ LET res == IF sweep THEN sweptResources(now) ELSE resources
            IN  resources' = IF limit \/ regs[e] # NoReg THEN res
                             ELSE [res EXCEPT ![e] = [p \in Paths |-> IF @[p] = "none" THEN "none" ELSE "stale"]]
         /\ refused' = limit
         /\ registrations' = IF limit THEN regs
                             ELSE [regs EXCEPT ![e] = [lifetime |-> call[c].lifetime, updatedAt |-> now]]
  /\ call' = [call EXCEPT ![c] = NoReg]
  /\ UNCHANGED clock

(* Update: lifetime 0 keeps the old one, and an expired registration that    *)
(* was not swept comes back to life.                                         *)
Update(e, via, life) ==
  /\ Accepted(via, life) /\ e \in Registered
  /\ registrations' = [registrations EXCEPT ![e] =
       [lifetime |-> IF life = 0 THEN @.lifetime ELSE Clamp(life), updatedAt |-> clock]]
  /\ refused' = FALSE
  /\ UNCHANGED <<clock, resources, lastSweepAt, call>>

(* Deregister *)
Deregister(e) ==
  /\ registrations' = [registrations EXCEPT ![e] = NoReg]
  /\ resources' = [resources EXCEPT ![e] = NoValues]
  /\ refused' = FALSE
  /\ UNCHANGED <<clock, lastSweepAt, call>>

(* Write: refused without a registration and for a read-only resource. *)
Write(e, p) ==
  /\ e \in Registered /\ p \notin ReadOnly
  /\ resources' = [resources EXCEPT ![e][p] = "set"]
  /\ refused' = FALSE
  /\ UNCHANGED <<clock, registrations, lastSweepAt, call>>

(* SweepExpired, called with the time. *)
SweepExpired ==
  /\ registrations' = sweepLocked(clock)
  /\ resources' = sweptResources(clock)
  /\ refused' = FALSE
  /\ UNCHANGED <<clock, lastSweepAt, call>>

Tick ==
  /\ clock < MaxTime /\ \A c \in Callers : (call[c] # NoReg => clock - call[c].now < MaxLag)
  /\ clock' = clock + 1 /\ refused' = FALSE
  /\ UNCHANGED <<registrations, resources, lastSweepAt, call>>

RegistryNext ==
  \/ \E e \in Endpoints, via \in {"coap", "client"}, life \in Lifetimes :
        \/ \E c \in Callers : RegisterCall(c, e, via, life)
        \/ Update(e, via, life)
  \/ \E c \in Callers : Register(c)
  \/ \E e \in Endpoints : Deregister(e) \/ \E p \in Paths : Write(e, p)
  \/ SweepExpired \/ Tick

RegistrySpec == RegistryInit /\ [][RegistryNext]_lwm2mVars

-----------------------------------------------------------------------------
(* Read and Write agree on whose values they are: every value an endpoint    *)
(* can read was written under its present registration, none survives a      *)
(* Deregister or a sweep into the next one, and a read-only one has none.    *)
ValuesBelong ==
  \A e \in Endpoints, p \in Paths :
    resources[e][p] # "none" =>
      e \in Registered /\ resources[e][p] = "set" /\ p \notin ReadOnly

(* ErrRegistrationLimit: a refusal means the table is full of registrations  *)
(* none of which had expired when it was last swept, and that sweep is no    *)
(* older than the throttle allows, except for the time a caller waited for   *)
(* the lock; the table never holds more than its maximum.                    *)
RefusedWhenFull ==
  /\ Cardinality(Registered) <= maxRegistrations
  /\ refused =>
       /\ Cardinality(Registered) = maxRegistrations
       /\ \A e \in Registered : ~Expired(registrations[e], lastSweepAt)
       /\ clock - lastSweepAt < sweepThrottle \/ clock - lastSweepAt <= MaxLag

(* A sweep, its own or one Register makes, never takes a registration        *)
(* whose lifetime still runs; only Deregister does.                          *)
EvictsInTime ==
  \A e \in Registered :
    registrations'[e] = NoReg =>
      clock > registrations[e].updatedAt + registrations[e].lifetime \/ Deregister(e)

(* lwm2m.Server: no value outlives the registration it was written under,    *)
(* and ErrRegistrationLimit is returned only when the table is full of live  *)
(* registrations.                                                            *)
RegistryKept == RegistryTypeOK /\ ValuesBelong /\ RefusedWhenFull

(* sweepLocked: no registration is removed while its lifetime runs.          *)
NeverEvictedEarly == [][EvictsInTime]_lwm2mVars
=============================================================================
