--------------------------- MODULE RequestServer ---------------------------
(***************************************************************************)
(* Request/response sessions: handleWithSession of the HTTP server           *)
(* (internal/transport/http/server.go, behind the gate listener of           *)
(* shared/gate_listener.go) and handle of the gRPC-Web server (grpcweb/      *)
(* server.go).  Each request is a session for as long as its handler runs;   *)
(* out is what the client sees: a status, data, a trailer frame.  A write    *)
(* with no status before it commits 200, so a status after data is ignored   *)
(* by net/http and only its text is appended ("text").                       *)
(***************************************************************************)
EXTENDS Integers, Sequences, FiniteSets

CONSTANTS
  Requests,      \* requests, each on a connection of its own
  Limits         \* [conns, sessions, sends]: the acceptor's MaxConnections, the
                 \* session manager's limit, and a bound on a handler's Send calls

ASSUME RequestsAssumption ==
  IsFiniteSet(Requests) /\ Limits \subseteq [conns : Nat, sessions : Nat, sends : Nat]

VARIABLES
  rKind,         \* "http" or "grpcweb"
  limit,         \* the member of Limits the server was built with
  framed,        \* requests that declare gRPC-Web
  rPc,           \* position in the handler of each request
  out,           \* what was written for each request
  rSlots,        \* the acceptor's count
  released,      \* connections whose slot was given back (gatedConn.release)
  rRegistered, rLive, rAccepted, rOnClosed,
  failed,        \* requests whose user handler failed or panicked
  sends,         \* Send calls of each handler
  stopping       \* http.Server.Shutdown was called

requestVars == <<rKind, limit, framed, rPc, out, rSlots, released, rRegistered, rLive, rAccepted, rOnClosed,
                 failed, sends, stopping>>
built == <<rKind, limit, framed>>
books == <<rSlots, released, rRegistered, rLive, rAccepted, rOnClosed>>

RequestTypeOK ==
  /\ rPc \in [Requests -> {"new", "body", "register", "onAccept", "onMessage",
                          "handler", "result", "deferred", "served", "end"}]
  /\ UNION {framed, released, rRegistered, rLive, rAccepted, failed} \subseteq Requests
  /\ limit \in Limits /\ rSlots \in 0..limit.conns
  /\ rOnClosed \in [Requests -> 0..1] /\ sends \in [Requests -> 0..limit.sends]

RequestInit ==
  /\ rKind \in {"http", "grpcweb"} /\ limit \in Limits /\ framed \in SUBSET Requests /\ (rKind = "http" => framed = {})
  /\ rPc = [r \in Requests |-> "new"] /\ out = [r \in Requests |-> << >>]
  /\ rSlots = 0 /\ released = {} /\ rRegistered = {} /\ rLive = {} /\ rAccepted = {} /\ failed = {}
  /\ rOnClosed = [r \in Requests |-> 0] /\ sends = [r \in Requests |-> 0]
  /\ stopping = FALSE

-----------------------------------------------------------------------------
Go(r, from, to) == rPc[r] = from /\ rPc' = [rPc EXCEPT ![r] = to]

(* WriteHeader and http.Error, Write *)
Status(r, code) == out' = [out EXCEPT ![r] = Append(@, IF @ = << >> THEN code ELSE "text")]
Wrote(r, what) == out' = [out EXCEPT ![r] = Append(@, what)]

(* Admission: by the gate listener for HTTP, whose Reject answers 503 and    *)
(* closes, by the handler itself for gRPC-Web, after the method check.       *)
Admit(r) ==
  /\ ~stopping
  /\ \/ rSlots < limit.conns /\ Go(r, "new", "body") /\ rSlots' = rSlots + 1 /\ UNCHANGED out
     \/ rSlots >= limit.conns /\ Go(r, "new", "end") /\ Status(r, "503") /\ UNCHANGED rSlots
     \/ rKind = "grpcweb" /\ Go(r, "new", "end") /\ Status(r, "405") /\ UNCHANGED rSlots
  /\ UNCHANGED <<built, released, rRegistered, rLive, rAccepted, rOnClosed, failed, sends, stopping>>

(* The body is read, and a declared gRPC-Web body parsed. *)
ReadBody(r) ==
  /\ \/ Go(r, "body", "register") /\ UNCHANGED out
     \/ Go(r, "body", "served") /\ Status(r, "413")
     \/ Go(r, "body", "served") /\ r \in framed /\ Status(r, "400")
  /\ UNCHANGED <<built, books, failed, sends, stopping>>

RequestRegister(r) ==
  /\ IF Cardinality(rRegistered) < limit.sessions
     THEN Go(r, "register", "onAccept") /\ rRegistered' = rRegistered \cup {r} /\ rLive' = rLive \cup {r} /\ UNCHANGED out
     ELSE Go(r, "register", "served") /\ Status(r, "503") /\ UNCHANGED <<rRegistered, rLive>>
  /\ UNCHANGED <<built, rSlots, released, rAccepted, rOnClosed, failed, sends, stopping>>

RequestOnAccept(r) ==
  /\ \/ Go(r, "onAccept", "onMessage") /\ rAccepted' = rAccepted \cup {r} /\ UNCHANGED out
     \/ Go(r, "onAccept", "deferred") /\ Status(r, "403") /\ UNCHANGED rAccepted
  /\ UNCHANGED <<built, rSlots, released, rRegistered, rLive, rOnClosed, failed, sends, stopping>>

OnMessage(r) ==
  /\ \/ Go(r, "onMessage", "handler") /\ UNCHANGED out
     \/ Go(r, "onMessage", "deferred") /\ \E code \in {"204", "400"} : Status(r, code)
  /\ UNCHANGED <<built, books, failed, sends, stopping>>

(* session.Send: refused once the session is closed. *)
Send(r) ==
  /\ rPc[r] = "handler" /\ sends[r] < limit.sends /\ sends' = [sends EXCEPT ![r] = @ + 1]
  /\ IF r \in rLive THEN Wrote(r, IF r \in framed THEN "frame" ELSE "data") ELSE UNCHANGED out
  /\ UNCHANGED <<built, rPc, books, failed, stopping>>

(* CallHandlerObserved: an error, or a panic turned into one, or success. *)
CallHandler(r) ==
  /\ Go(r, "handler", "result")
  /\ failed' \in {failed, failed \cup {r}}
  /\ UNCHANGED <<built, out, books, sends, stopping>>

(* SendTrailers, or HTTP's 500; neither looks at the session's state. *)
Result(r) ==
  /\ Go(r, "result", "deferred")
  /\ IF r \in framed THEN Wrote(r, IF r \in failed THEN "trailer13" ELSE "trailer0")
     ELSE IF r \in failed /\ rKind = "http" THEN Status(r, "500") ELSE UNCHANGED out
  /\ UNCHANGED <<built, books, failed, sends, stopping>>

(* The deferred Unregister, Close and, for an accepted session, OnClose. *)
Deferred(r) ==
  /\ Go(r, "deferred", "served")
  /\ rRegistered' = rRegistered \ {r} /\ rLive' = rLive \ {r}
  /\ rOnClosed' = IF r \in rAccepted THEN [rOnClosed EXCEPT ![r] = @ + 1] ELSE rOnClosed
  /\ UNCHANGED <<built, out, rSlots, released, rAccepted, failed, sends, stopping>>

(* Mutation of CloseConn: without the Once every Close gives a slot back. *)
CloseConnEach(r) ==
  /\ rPc[r] \in {"served", "end"} /\ (rPc[r] = "end" => rKind = "http" /\ r \in released)
  /\ rPc' = [rPc EXCEPT ![r] = "end"] /\ rSlots' = (IF rSlots > 0 THEN rSlots - 1 ELSE rSlots)
  /\ released' = released \cup {r}
  /\ UNCHANGED <<built, out, rRegistered, rLive, rAccepted, rOnClosed, failed, sends, stopping>>

(* gRPC-Web's deferred Done; the gated connection's Close, which net/http    *)
(* may call several times.                                                   *)
CloseConn(r) ==
  /\ rPc[r] \in {"served", "end"} /\ (rPc[r] = "end" => rKind = "http" /\ r \in released)
  /\ rPc' = [rPc EXCEPT ![r] = "end"]
  /\ rSlots' = (IF r \in released THEN rSlots ELSE rSlots - 1) /\ released' = released \cup {r}
  /\ UNCHANGED <<built, out, rRegistered, rLive, rAccepted, rOnClosed, failed, sends, stopping>>

(* The session manager or a plugin closes a session from outside. *)
CloseOutside(r) ==
  /\ r \in rLive /\ rLive' = rLive \ {r}
  /\ UNCHANGED <<built, rPc, out, rSlots, released, rRegistered, rAccepted, rOnClosed, failed, sends, stopping>>

(* Shutdown takes no more requests and waits for those in their handlers. *)
Shutdown ==
  /\ ~stopping /\ stopping' = TRUE
  /\ UNCHANGED <<built, rPc, out, books, failed, sends>>

RequestNext ==
  \/ \E r \in Requests : \/ Admit(r) \/ ReadBody(r) \/ RequestRegister(r) \/ RequestOnAccept(r) \/ OnMessage(r) \/ Send(r)
                         \/ CallHandler(r) \/ Result(r) \/ Deferred(r) \/ CloseConn(r) \/ CloseOutside(r)
  \/ Shutdown

RequestSpec == RequestInit /\ [][RequestNext]_requestVars

-----------------------------------------------------------------------------
Trailers == {"trailer0", "trailer13"}

(* A client can tell the outcome of its call: what is refused before the     *)
(* handler gets one status; a gRPC-Web call the handler saw ends in exactly  *)
(* one trailer that says whether it failed, after its data frames; an HTTP   *)
(* handler's failure is a 500 unless it had already sent something.          *)
OutcomeTold ==
  \A r \in Requests : rPc[r] \in {"served", "end"} /\ out[r] # << >> =>
    LET n == Len(out[r]) IN
    IF r \in framed /\ r \in rAccepted /\ out[r][n] \notin {"204", "400"}
    THEN /\ out[r][n] = IF r \in failed THEN "trailer13" ELSE "trailer0"
         /\ \A i \in 1..(n - 1) : out[r][i] = "frame"
    ELSE /\ \A i \in 1..n : out[r][i] \notin Trailers
         /\ Head(out[r]) # "data" => n = 1
         /\ rKind = "http" /\ r \in failed => out[r][n] \in {"500", "text"}

(* Whatever way a request ends, its session is unregistered and closed,      *)
(* OnClose ran if and only if OnAccept had succeeded, and the admitted       *)
(* connections are the ones that hold a slot, each one.                      *)
RequestBooks ==
  /\ \A r \in Requests : rPc[r] \in {"served", "end"} =>
       /\ r \notin rRegistered \cup rLive
       /\ rOnClosed[r] = IF r \in rAccepted THEN 1 ELSE 0
  /\ rSlots = Cardinality({r \in Requests : rPc[r] \notin {"new", "end"}})

(* handleWithSession, handle: however a request ends, its session, plugins   *)
(* and slot are settled, and its client can tell the outcome from the        *)
(* response.                                                                 *)
RequestsSettled == RequestTypeOK /\ RequestBooks /\ OutcomeTold
=============================================================================
