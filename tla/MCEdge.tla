------------------------------- MODULE MCEdge -------------------------------
(* What comes in from outside: requests to upgrade to a WebSocket session,   *)
(* two of them for one slot; HTTP and gRPC-Web requests; and, for every      *)
(* input of a small set, the framers of TCP and gRPC-Web, the CoAP and LwM2M *)
(* codecs, the PROXY header and the identity a peer is accounted under, and  *)
(* the configuration.  A behaviour runs one of the servers or looks at one   *)
(* input.                                                                    *)
EXTENDS UpgradeServer, RequestServer, Sequences, TLC

CONSTANTS Nil, Error

VARIABLES part, input

MCLimits == {[conns |-> 2, sessions |-> 1, sends |-> 2], [conns |-> 1, sessions |-> 2, sends |-> 1]}

Frames == INSTANCE Framers
Coap == INSTANCE CoapCodec
Tlv == INSTANCE TlvCodec
Peer == INSTANCE PeerIdentity
Conf == INSTANCE AppConfig

UpTo(n, A) == UNION {[1..k -> A] : k \in 0..n}
Fill(n, b) == [i \in 1..n |-> b]

(* Framers with limits around the payloads' lengths, up to two payloads (one *)
(* holds the delimiter), how much of the stream is missing, the size of the  *)
(* read buffer; gRPC-Web bodies; texts of a grpc-message.                    *)
Framings == [kind : {"length", "line", "fixed", "raw"}, max : {0, 2, 3, 5}, delim : {10}]
Bodies == {<<1>>, <<1, 10>>, <<3, 0>>, <<0, 0, 7>>, <<1, 2, 3, 4>>, <<1, 2, 3, 4, 5>>}
FrameInputs ==
  \/ input \in [of : {"stream"}, framer : Framings, payloads : UpTo(2, Bodies), cut : 0..4, buf : {0, 2, 3, 8}]
  \/ input \in [of : {"body"}, payloads : UpTo(2, {<<>>, <<1>>, <<128, 0, 0>>}), trailers : {<<>>, <<65>>}, cut : 0..4]
  \/ input \in [of : {"text"}, text : UpTo(3, {0, 10, 13, 32, 36, 37, 38, 65, 126, 127, 255})]

(* Messages whose option numbers and lengths lie on both sides of every      *)
(* change of encoding, bytes after a few headers, blocks and block-wise      *)
(* transfers; TLV records, bytes and integers.                               *)
Options ==
  {Coap!NoOptions}
    \cup {(a :> Fill(n, 7)) : a \in {1, 12, 13, 268, 269, 65535}, n \in {0, 1, 2, 12, 13, 14, 268, 269, 270}}
    \cup {(a :> Fill(n, 7)) @@ (b :> <<>>) : a \in {6, 23, 269}, b \in {27, 300, 600, 65535}, n \in {0, 13, 269}}
Heads == {<<64, 1, 0, 0>>, <<65, 1, 0, 0>>, <<73, 1, 0, 0, 5, 5, 5, 5, 5, 5, 5, 5>>, <<32, 1, 0, 0>>,
          <<64, 1, 0, 0, 224, 255, 255>>}
Records == [id : {<<>>, <<255>>, <<1, 0>>, <<255, 255>>, <<1, 0, 0>>, <<255, 255, 255, 255>>},
            value : {Fill(n, 193) : n \in {0, 1, 255, 256}}]
CodecInputs ==
  \/ \E m \in [ok : {TRUE}, type : {0, 3}, code : {1}, mid : {0, 65535}, token : {<<>>, Fill(8, 7)},
             options : Options, payload : {<<>>, <<255, 0>>}] : input = [of |-> "message", m |-> m]
  \/ \E h \in Heads, tail \in UpTo(3, {0, 1, 13, 14, 16, 29, 65, 208, 223, 224, 225, 255}) :
       input = [of |-> "bytes", data |-> h \o tail]
  \/ \E b \in [num : {0, 1, 15, 16, 4095, 4096, 1048575}, more : BOOLEAN, szx : 0..7] : input = [of |-> "block", b |-> b]
  \/ input \in [of : {"blocks"}, len : {0, 1, 15, 16, 17, 31, 32, 33, 64, 100, 129, 513}, start : 0..3,
                szx : 0..6, max : {-1, 0, 1, 16, 17, 63, 64, 1024, 1500}]
  \/ input \in [of : {"blocks"}, len : {1024, 1025, 2049}, start : 0..3, szx : 3..6, max : {0, 1024, 1500}]
  \/ input \in [of : {"records"}, entries : UpTo(2, Records), cut : {0, 1, 2, 5}]
  \/ input \in [of : {"tlv"}, data : UpTo(4, {0, 1, 193, 194, 201, 196, 209})]
  \/ input \in [of : {"integer"}, v : UpTo(2, {0, 1, 127, 128, 129, 255})]

(* Headers a proxy writes, what follows them, how much of it arrives; and    *)
(* texts that are almost a header.                                           *)
Modes == {Peer!Off, Peer!V1, Peer!V2, Peer!Auto}
Headers ==
  [v : {Peer!V1}, fam : {"TCP4"}, src : {"4a", "4b"}, sport : {"p"}, tlv : {0}, cmd : {"-"}]
    \cup [v : {Peer!V1}, fam : {"TCP6"}, src : {"6a"}, sport : {"p", "q"}, tlv : {0}, cmd : {"-"}]
    \cup [v : {Peer!V1}, fam : {"UNKNOWN"}, src : {"6a"}, sport : {"p"}, tlv : {0, 3, 6, 7}, cmd : {"-"}]
    \cup [v : {Peer!V2}, fam : {"TCP4", "UDP4", "UNSPEC", "TCP6"}, src : {"4a", "4b"}, sport : {"p"},
          tlv : {0, 1, 4}, cmd : {"PROXY", "LOCAL"}]
Payloads == {<<>>, <<"LF">>, <<"PROXY", "x", "LF">>}
Lines ==
  {<<"PROXY", f, a, b, p, q, "CR", l>> : f \in {"TCP4", "TCP6", "UDP4"}, a \in {"4a", "m4a", "6a", "x", "LF"},
     b \in {"4a", "6a", "x"}, p \in {"p", "x"}, q \in {"q", "x"}, l \in {"LF", "CR"}}
    \cup {<<"PROXY", x, y>> : x, y \in {"TCP4", "UNKNOWN", "6a", "CR", "LF"}} \cup {<<"PROXY">>, <<"PROXY", "LF">>}
    \cup {<<"SIG1", "SIG2", v, c, f, n>> \o [i \in 1..k |-> "4a"] :
            v \in {"1", "2"}, c \in {"PROXY", "LOCAL"}, f \in {"TCP4", "TCP6", "UNIX"}, n \in 0..8, k \in 0..6}

(* Addresses in their forms, blacklists of up to three entries.              *)
Addrs == [fam : {"v4", "mapped"}, n : {1, 2}, zone : {""}, port : {80, 81}]
           \cup [fam : {"v6"}, n : {1, 2}, zone : {"", "eth0"}, port : {80}]
One == [fam |-> "v4", n |-> 1, zone |-> ""]
Listed == {One, [fam |-> "mapped", n |-> 2, zone |-> ""], [fam |-> "v6", n |-> 1, zone |-> ""],
            [nfam |-> "v4", hosts |-> {1, 2}], [nfam |-> "mapped", hosts |-> {2}], [nfam |-> "v6", hosts |-> {2}],
            [bad |-> TRUE]}
Chains == {<<>>, <<"good">>, <<"other">>, <<"junk", "good">>, <<"good", "junk">>}

PeerInputs ==
  \/ input \in [of : {"header"}, h : Headers, mode : Modes, payload : Payloads, cut : 0..12]
  \/ input \in [of : {"line"}, s : Lines, mode : Modes]
  \/ input \in [of : {"key"}, a : Addrs \cup {Peer!NoAddr}, b : Addrs \cup {Peer!NoAddr}]
  \/ input \in [of : {"blacklist"}, entries : {e \in SUBSET Listed : Cardinality(e) <= 3}, old : {{}, {One}}, a : Addrs]
  \/ input \in [of : {"auth"}, policy : 0..4, pool : BOOLEAN, inspectable : BOOLEAN, certs : Chains]

(* Configurations of up to two sections that differ in name, address, TLS    *)
(* and whether they are enabled; one section of every kind; environments     *)
(* that set up to three variables.                                           *)
Section(n, a) == [Conf!Zero EXCEPT !.name = n, !.addr = a]
Sections ==
  {Section("tcp", "t"), Section(" tcp", "t"), Section("TCP", "t"), Section("http", "h"),
   [Section("tcp", "t") EXCEPT !.cert = "c", !.key = "k"], [Section("http", "h") EXCEPT !.enabled = "false"],
   [Section("grpc-web", "g") EXCEPT !.max = 1, !.path = "/g"]}
Lists == {<<>>} \cup {<<p>> : p \in Sections} \cup {<<p, q>> : p, q \in Sections}
With(list) == [Conf!DefaultConfig EXCEPT !.protocols = list]
Kinds ==
  {[Conf!Zero EXCEPT !.name = n, !.enabled = e, !.addr = a, !.mode = "lwm2m", !.max = m, !.cert = c, !.key = k,
                     !.ca = f, !.auth = u] :
     n \in Conf!Supported \cup {"ftp", "", "TCP"}, e \in {"nil", "false"}, a \in {"", "a"}, m \in {-1, 1},
     c \in {"", "c"}, k \in {"", "k"}, f \in {"", "f"}, u \in {"", "request", "bogus"}}
Settings ==
  [TCP_ADDR |-> "T", TCP_CERT |-> "C", TCP_KEY |-> "", HTTP_ADDR |-> "", HTTP_ORIGINS |-> "o", GRPCWEB_ADDR |-> "G",
   GRPCWEB_MAX |-> -1, WS_ADDR |-> "W", QUIC_ADDR |-> "Q", WINDOW |-> "5s", LEVEL |-> "debug"]
Environments == {[v \in s |-> Settings[v]] : s \in {t \in SUBSET DOMAIN Settings : Cardinality(t) <= 3}}

ConfigInputs ==
  \/ input \in [of : {"start"}, c : {With(<<p>>) : p \in Kinds}]
  \/ input \in [of : {"start"}, c : {[Conf!DefaultConfig EXCEPT !.shutdown = s, !.rate = r] :
       s \in {"", "5s", "0s"}, r \in {Nil, [per |-> 0, window |-> ""], [per |-> 1, window |-> "0s"]}}]
  \/ input \in [of : {"reload"}, a : {With(l) : l \in Lists},
                b : {[With(l) EXCEPT !.health = h] : l \in Lists, h \in {"h", ""}}]
  \/ input \in [of : {"env"}, c : {With(l) : l \in Lists}, env : Environments]

EdgeInit ==
  /\ part \in {"upgrade", "requests", "input"}
  /\ Init /\ RequestInit
  /\ part # "upgrade" => kind = "ws"
  /\ part # "requests" => rKind = "http" /\ limit = CHOOSE l \in Limits : TRUE
  /\ IF part = "input" THEN FrameInputs \/ CodecInputs \/ PeerInputs \/ ConfigInputs ELSE input = [of |-> "none"]

(* Connections are interchangeable, and so are requests: a is the first one. *)
InTurn ==
  /\ hpc'["b"] # "new" => hpc'["a"] # "new"
  /\ rPc'["b"] # "new" => rPc'["a"] # "new"

(* The requests end when they are answered. *)
EdgeNext ==
  /\ UNCHANGED <<part, input>>
  /\ \/ part = "upgrade" /\ Next /\ UNCHANGED requestVars /\ InTurn
     \/ part = "requests" /\ RequestNext /\ UNCHANGED vars /\ InTurn
     \/ part # "upgrade" /\ UNCHANGED <<vars, requestVars>>

EdgeFairness ==
  /\ \A c \in Conns :
       /\ WF_vars(part = "upgrade" /\ HandlerStep(c)) /\ WF_vars(part = "upgrade" /\ ReaderClose(c))
       /\ SF_vars(part = "upgrade" /\ PingerClose(c)) /\ WF_vars(part = "upgrade" /\ CloseStep(c))
       /\ WF_vars(part = "upgrade" /\ pinger[c] = "busy" /\ Ping(c))
       /\ WF_vars(part = "upgrade" /\ c \notin wire /\ ReadEnds(c))
  /\ WF_vars(part = "upgrade" /\ StopNext)

EdgeSpec == EdgeInit /\ [][EdgeNext]_<<part, input, vars, requestVars>> /\ EdgeFairness

-----------------------------------------------------------------------------
(* The wire formats lose nothing.  ReadFrame gives back what WriteFrame      *)
(* wrote, through either reader, up to where the stream breaks off;          *)
(* parseRequestPayload the messages of a gRPC-Web body, and takes no         *)
(* truncated one for whole; the text of a trailer stays on its line.  CoAP   *)
(* messages and block options come back, what Parse accepts is what its own  *)
(* encoding is parsed to, and the blocks a client asks for make up the       *)
(* payload; TLV records come back, a cut message is refused, nothing but     *)
(* whole records is accepted, and an integer is the same number in one byte  *)
(* more.                                                                     *)
FormatsInvert ==
  CASE input.of = "stream" -> Frames!FramesComeBack(input.framer, input.payloads, input.cut, input.buf)
    [] input.of = "body" -> Frames!BodyComesBack(input.payloads, input.trailers, input.cut)
    [] input.of = "text" -> Frames!MessageComesBack(input.text)
    [] input.of = "message" -> Coap!RoundTrip(input.m)
    [] input.of = "bytes" -> Coap!ParseStable(input.data)
    [] input.of = "block" -> Coap!BlockRoundTrip(input.b)
    [] input.of = "blocks" -> Coap!BlocksReassemble(input.len, input.start, input.szx, input.max)
    [] input.of = "records" -> Tlv!RecordsComeBack(input.entries, input.cut)
    [] input.of = "tlv" -> Tlv!DecodeSound(input.data)
    [] input.of = "integer" -> Tlv!IntegerWidens(input.v)
    [] OTHER -> TRUE

(* A peer is taken for who it is: a PROXY header is honoured, removed and    *)
(* never half believed, and no other text is taken for one; one host is one  *)
(* key to quotas, bans, rates and datagram sessions, and to the blacklist in *)
(* each of its forms; a DTLS client is let in exactly as tls_client_auth     *)
(* says.                                                                     *)
PeerIdentified ==
  CASE input.of = "header" -> Peer!HeaderHonoured(input.h, input.mode, input.payload, input.cut)
    [] input.of = "line" -> Peer!AttributedOrClosed(input.s, input.mode)
    [] input.of = "key" -> Peer!OnePeerOneKey(input.a, input.b)
    [] input.of = "blacklist" -> Peer!BlockedWhateverForm(input.entries, input.old, input.a)
    [] input.of = "auth" -> Peer!PolicyKept(input.policy, input.pool, input.inspectable, input.certs)
    [] OTHER -> TRUE

(* The configuration keeps its word: what Validate accepts App.New can       *)
(* build, a reload that is not refused keeps the listeners, an environment   *)
(* variable changes what it names and nothing else.                          *)
ConfigHonoured ==
  CASE input.of = "start" -> Conf!ValidCanStart(input.c)
    [] input.of = "reload" -> Conf!ReloadKeepsListeners(input.a, input.b)
    [] input.of = "env" -> Conf!EnvOnlyOverrides(input.c, input.env)
    [] OTHER -> TRUE
=============================================================================
