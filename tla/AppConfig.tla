----------------------------- MODULE AppConfig -----------------------------
(***************************************************************************)
(* Configuration (internal/app/config.go, reload.go, app.go): environment    *)
(* overrides, validation, what App.New builds from a configuration, and the  *)
(* comparison that decides whether a reload needs a restart. A string is a   *)
(* member of a small set that keeps the cases the code tells apart.          *)
(***************************************************************************)
EXTENDS Integers, Sequences, SequencesExt, TLC

CONSTANTS Nil, Error      \* a nil pointer (or no TLS); an error result

(* A ProtocolConfig whose fields are all zero. *)
Zero == [name |-> "", enabled |-> "nil", addr |-> "", path |-> "", mode |-> "", max |-> 0, cert |-> "", key |-> "",
         ca |-> "", auth |-> "", min |-> "", origins |-> "nil"]

(* strings.ToLower(strings.TrimSpace(name)), and EqualFold's case folding.   *)
normal(n) == IF n \in {"TCP", " tcp"} THEN "tcp" ELSE n
fold(n) == IF n = "TCP" THEN "tcp" ELSE n

IsEnabled(p) == p.enabled \in {"nil", "true"}

(* time.ParseDuration with the code's defaults; Error when it does not parse *)
(* or is not positive.                                                       *)
duration(s, default) == CASE s = "" -> default [] s \in {"5s", "10s"} -> s [] OTHER -> Error
ShutdownDuration(c) == duration(c.shutdown, "10s")
WindowDuration(r) == duration(r.window, "1s")

ParseLevel(l) == IF l \in {"", "info", "debug"} THEN l ELSE Error

parseTLSMinVersion(v) == IF v \in {"1.3", "13"} THEN "1.3" ELSE "1.2"

parseTLSClientAuth(v) ==
  CASE v \in {"", "none"} -> "none" [] v \in {"request", "require_any", "verify_if_given", "require_and_verify"} -> v
    [] OTHER -> Error

-----------------------------------------------------------------------------
TlsProtocols == {"tcp", "quic", "coap", "udp"}
Supported == TlsProtocols \cup {"http", "websocket", "grpc-web"}

(* The part of Validate about one enabled protocol.                          *)
validProtocol(p) ==
  LET name == normal(p.name) IN
  /\ name \in Supported /\ p.addr # "" /\ p.max >= 0 /\ ((p.cert = "") <=> (p.key = ""))
  /\ name \notin TlsProtocols => p.cert = "" /\ p.ca = "" /\ p.auth = ""
  /\ p.ca # "" => p.cert # ""
  /\ p.auth # "" => parseTLSClientAuth(p.auth) # Error /\ p.cert # ""
  /\ name = "quic" => p.cert # ""

enabledOf(protocols) == SelectSeq(protocols, IsEnabled)

Validate(c) ==
  LET on == enabledOf(c.protocols) IN
  /\ ShutdownDuration(c) # Error /\ ParseLevel(c.level) # Error /\ c.blacklist # "malformed"
  /\ c.rate # Nil => c.rate.per > 0 /\ WindowDuration(c.rate) # Error
  /\ on # <<>> /\ \A i \in DOMAIN on : validProtocol(on[i])
  /\ \A i, j \in DOMAIN on : normal(on[i].name) = normal(on[j].name) => i = j

-----------------------------------------------------------------------------
(* mergeProtocol: the fields the override sets replace those of the base.    *)
mergeProtocol(base, o) ==
  [f \in DOMAIN base |->
     IF f = "name" \/ (IF f = "max" THEN o.max > 0 ELSE o[f] # Zero[f]) THEN o[f] ELSE base[f]]

(* upsertProtocol: into the first entry of that name, or at the end.         *)
upsertProtocol(protocols, o) ==
  LET at == {i \in DOMAIN protocols : fold(protocols[i].name) = fold(o.name)} IN
  IF at = {} THEN Append(protocols, o)
  ELSE LET i == CHOOSE k \in at : \A l \in at : k <= l IN [protocols EXCEPT ![i] = mergeProtocol(@, o)]

has(env, v) == v \in DOMAIN env
lookup(env, v) == IF has(env, v) THEN env[v] ELSE ""
envOrDefault(env, v, fallback) == IF lookup(env, v) # "" THEN env[v] ELSE fallback
(* splitCSVEnv: nil when unset, the items (an abstract list) otherwise.      *)
splitCSVEnv(env, v) == IF has(env, v) THEN env[v] ELSE "nil"

(* applyEnv, section by section; each takes the protocols so far.            *)
envHttp(env, ps) ==
  IF ~has(env, "HTTP_ADDR") /\ ~has(env, "HTTP_ORIGINS") THEN ps
  ELSE upsertProtocol(ps, [Zero EXCEPT !.name = "http", !.addr = lookup(env, "HTTP_ADDR"), !.origins = splitCSVEnv(env, "HTTP_ORIGINS")])

envTcp(env, ps) ==
  IF \A v \in {"TCP_ADDR", "TCP_CERT", "TCP_KEY", "TCP_CA", "TCP_AUTH", "TCP_MIN"} : ~has(env, v) THEN ps
  ELSE upsertProtocol(ps, [Zero EXCEPT !.name = "tcp", !.addr = lookup(env, "TCP_ADDR"), !.cert = lookup(env, "TCP_CERT"),
                            !.key = lookup(env, "TCP_KEY"), !.ca = lookup(env, "TCP_CA"), !.auth = lookup(env, "TCP_AUTH"),
                            !.min = lookup(env, "TCP_MIN")])

envWs(env, ps) ==
  IF ~has(env, "WS_ADDR") THEN ps
  ELSE upsertProtocol(ps, [Zero EXCEPT !.name = "websocket", !.addr = env["WS_ADDR"], !.path = envOrDefault(env, "WS_PATH", "/ws"),
                            !.origins = splitCSVEnv(env, "WS_ORIGINS")])

envGrpc(env, ps) ==
  IF ~has(env, "GRPCWEB_ADDR") THEN ps
  ELSE upsertProtocol(ps, [Zero EXCEPT !.name = "grpc-web", !.addr = env["GRPCWEB_ADDR"], !.path = envOrDefault(env, "GRPCWEB_PATH", "/grpc"),
                            !.origins = splitCSVEnv(env, "GRPCWEB_ORIGINS"),
                            !.max = IF has(env, "GRPCWEB_MAX") THEN env["GRPCWEB_MAX"] ELSE 0])

envQuic(env, ps) ==
  IF ~has(env, "QUIC_ADDR") THEN ps
  ELSE upsertProtocol(ps, [Zero EXCEPT !.name = "quic", !.addr = env["QUIC_ADDR"], !.cert = lookup(env, "QUIC_CERT"),
                            !.key = lookup(env, "QUIC_KEY"), !.ca = lookup(env, "QUIC_CA"), !.auth = lookup(env, "QUIC_AUTH"),
                            !.min = lookup(env, "QUIC_MIN")])

(* The rate limit of the environment brings a limiter of one per second.     *)
envRate(env, r) ==
  IF ~has(env, "RATE") /\ ~has(env, "WINDOW") THEN r
  ELSE LET base == IF r = Nil THEN [per |-> 1, window |-> ""] ELSE r IN
       [per |-> IF has(env, "RATE") THEN env["RATE"] ELSE base.per,
        window |-> IF has(env, "WINDOW") THEN env["WINDOW"] ELSE base.window]

applyEnv(c, env) ==
  [shutdown |-> IF has(env, "SHUTDOWN") THEN env["SHUTDOWN"] ELSE c.shutdown,
   health |-> IF has(env, "HEALTH") THEN env["HEALTH"] ELSE c.health,
   metrics |-> IF has(env, "METRICS") THEN env["METRICS"] ELSE c.metrics,
   level |-> IF has(env, "LEVEL") THEN env["LEVEL"] ELSE c.level,
   blacklist |-> IF has(env, "BLACKLIST") THEN env["BLACKLIST"] ELSE c.blacklist,
   rate |-> envRate(env, c.rate),
   protocols |-> envQuic(env, envGrpc(env, envWs(env, envTcp(env, envHttp(env, c.protocols)))))]

DefaultConfig ==
  [shutdown |-> "10s", health |-> "h", metrics |-> "m", level |-> "info", blacklist |-> "nil", rate |-> Nil,
   protocols |-> <<[Zero EXCEPT !.name = "tcp", !.addr = "t"]>>]

-----------------------------------------------------------------------------
(* loadServerTLSConfig: the files must load and the policy must parse.       *)
loadServerTLSConfig(p) ==
  IF p.cert = "" \/ p.key = "" \/ parseTLSClientAuth(p.auth) = Error THEN Error
  ELSE [cert |-> p.cert, key |-> p.key, ca |-> p.ca, auth |-> parseTLSClientAuth(p.auth), min |-> parseTLSMinVersion(p.min)]

tlsOf(p) == IF p.cert # "" \/ p.key # "" THEN loadServerTLSConfig(p) ELSE Nil

(* The transport registerProtocols builds for one enabled protocol.          *)
serverOf(p) ==
  LET name == normal(p.name)
      base == [name |-> name, addr |-> p.addr]
  IN CASE name \in {"tcp", "udp"} -> base @@ [tls |-> tlsOf(p)]
       [] name = "coap" -> base @@ [tls |-> tlsOf(p), lwm2m |-> p.mode = "lwm2m"]
       [] name = "quic" -> base @@ [tls |-> loadServerTLSConfig(p)]
       [] name = "http" -> base @@ [origins |-> p.origins]
       [] name = "websocket" -> base @@ [path |-> IF p.path = "" THEN "/ws" ELSE p.path, origins |-> p.origins]
       [] name = "grpc-web" -> base @@ [path |-> p.path, max |-> p.max, origins |-> p.origins]
       [] OTHER -> base @@ [tls |-> Error]

registerProtocols(protocols) ==
  LET on == enabledOf(protocols) IN {serverOf(on[i]) : i \in DOMAIN on}

fails(s) == "tls" \in DOMAIN s /\ s.tls = Error

(* enabledProtocols: a map by name, the last entry of a name wins.           *)
enabledProtocols(protocols) ==
  LET on == enabledOf(protocols) IN
  [n \in {normal(on[i].name) : i \in DOMAIN on} |-> on[CHOOSE i \in DOMAIN on :
     normal(on[i].name) = n /\ \A j \in DOMAIN on : normal(on[j].name) = n => j <= i]]

(* Mutation of protocolsDiff: removed protocols go unnoticed. *)
protocolsDiffAdded(running, next) ==
  LET a == enabledProtocols(running)
      b == enabledProtocols(next)
  IN \E n \in DOMAIN b : n \notin DOMAIN a \/ a[n] # b[n]

protocolsDiff(running, next) ==
  LET a == enabledProtocols(running)
      b == enabledProtocols(next)
  IN (\E n \in DOMAIN b : n \notin DOMAIN a \/ a[n] # b[n]) \/ \E n \in DOMAIN a : n \notin DOMAIN b

listenDiff(running, next) ==
  running.health # next.health \/ running.metrics # next.metrics \/ protocolsDiff(running.protocols, next.protocols)

-----------------------------------------------------------------------------
(* A configuration that Validate accepts is one App.New can build (as far as *)
(* the configuration decides): every transport is supported and every one    *)
(* that needs TLS has its material.                                          *)
ValidCanStart(c) == Validate(c) => \A s \in registerProtocols(c.protocols) : ~fails(s)

(* A reload that is not refused leaves exactly the listeners the process     *)
(* runs; one that only reorders sections, or adds a disabled one, is not     *)
(* refused.                                                                  *)
ReloadKeepsListeners(a, b) ==
  Validate(a) /\ Validate(b) =>
    /\ ~listenDiff(a, b) => registerProtocols(a.protocols) = registerProtocols(b.protocols)
    /\ listenDiff(a, b) => \/ a.health # b.health \/ a.metrics # b.metrics
                           \/ ToSet(enabledOf(a.protocols)) # ToSet(enabledOf(b.protocols))

(* An environment override changes what it names and nothing else: an        *)
(* address it sets is in force, a field without an override keeps the file's *)
(* value, the other sections stay, and applying the same environment again   *)
(* (a reload) changes nothing.                                               *)
EnvOnlyOverrides(c, env) ==
  LET d == applyEnv(c, env)
      words == {env[v] : v \in DOMAIN env \ {"GRPCWEB_MAX", "RATE"}} \cup {"/ws", "/grpc"}
  IN /\ applyEnv(d, env) = d
     /\ lookup(env, "TCP_ADDR") # "" => \E q \in ToSet(d.protocols) : fold(q.name) = "tcp" /\ q.addr = env["TCP_ADDR"]
     /\ \A i \in DOMAIN c.protocols :
          LET p == c.protocols[i]
              q == d.protocols[i]
          IN /\ q.max # p.max => has(env, "GRPCWEB_MAX") /\ q.max = env["GRPCWEB_MAX"]
             /\ \A f \in DOMAIN p \ {"name", "max"} : q[f] # p[f] => q[f] \in words
=============================================================================
