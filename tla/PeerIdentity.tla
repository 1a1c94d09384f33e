--------------------------- MODULE PeerIdentity ---------------------------
(***************************************************************************)
(* Who a peer is, as the parts of the system that count, block or resolve    *)
(* peers see it: the acceptor's quota (internal/transport/shared/quota.go),  *)
(* the datagram session key (peerkey.go), the block list, and the keys of    *)
(* AutoBan and RateLimit (internal/plugin); and the client-certificate       *)
(* policy of the DTLS transports (shared/dtls.go).  The second half is the   *)
(* PROXY header by which a balancer names the peer (shared/proxyproto.go).   *)
(*                                                                           *)
(* An address is [fam, n, zone, port]: fam "v4" is the four-byte form,       *)
(* "mapped" the same IPv4 address in sixteen bytes, "v6" another one.  Its   *)
(* text, as net.Addr.String gives it, shows a mapped address as IPv4.        *)
(***************************************************************************)
EXTENDS Integers, FiniteSets, Sequences, SequencesExt

NoAddr == [fam |-> "none", n |-> 0, zone |-> "", port |-> 0]
Unmap(fam) == IF fam = "mapped" THEN "v4" ELSE fam
Text(a) == [fam |-> Unmap(a.fam), n |-> a.n, zone |-> IF Unmap(a.fam) = "v4" THEN "" ELSE a.zone, port |-> a.port]

(* normalise: netip.Addr.Unmap, WithZone (which leaves IPv4 alone) *)
normalise(a) ==
  [fam |-> Unmap(a.fam), n |-> a.n, zone |-> IF Unmap(a.fam) = "v6" THEN a.zone ELSE ""]

(* PeerIP of a net.Addr, PeerIPString of its text *)
PeerIP(a) == IF a = NoAddr THEN NoAddr ELSE normalise(a)
PeerIPString(text) == normalise(text)

(* NewPeerKey: To16, the port and the zone *)
NewPeerKey(a) ==
  IF a = NoAddr THEN NoAddr
  ELSE [fam |-> IF a.fam = "v4" THEN "mapped" ELSE a.fam, n |-> a.n, zone |-> a.zone, port |-> a.port]
KeyUDPAddr(k) == k

(* remoteKey: the host part of the text; normalizeBanKey of an address with  *)
(* or without a port.                                                        *)
SplitHost(text) == [fam |-> text.fam, n |-> text.n, zone |-> text.zone]
remoteKey(a) == IF a = NoAddr THEN "unknown" ELSE SplitHost(Text(a))
normalizeBanKey(text) == SplitHost(text)

-----------------------------------------------------------------------------
(* net.ParseIP takes no zone; what it cannot parse is matched as it is. *)
ParseIP(host) == host.zone = ""
normalizeIP(host) == IF ParseIP(host) THEN [host EXCEPT !.fam = Unmap(@)] ELSE host

(* An entry is an address, a network [nfam, hosts] or neither. *)
IsNet(e) == "hosts" \in DOMAIN e
IsIP(e) == ~IsNet(e) /\ "fam" \in DOMAIN e /\ e.zone = ""
parseBlacklist(entries) ==
  IF \E e \in entries : ~IsNet(e) /\ ~IsIP(e) THEN [ok |-> FALSE]
  ELSE [ok |-> TRUE, exact |-> {normalizeIP(e) : e \in {x \in entries : IsIP(x)}}, nets |-> {e \in entries : IsNet(e)}]
parseBlacklistBestEffort(entries) ==
  [ok |-> TRUE, exact |-> {normalizeIP(e) : e \in {x \in entries : IsIP(x)}}, nets |-> {e \in entries : IsNet(e)}]
NewBlacklist(entries) ==
  IF parseBlacklist(entries).ok THEN parseBlacklist(entries) ELSE parseBlacklistBestEffort(entries)

(* Replace: an invalid list leaves the one in force. *)
Replace(set, entries) == IF parseBlacklist(entries).ok THEN parseBlacklist(entries) ELSE set

(* Blacklist.OnAccept: the exact entries, then, for an address, the networks. *)
OnAcceptBlocks(set, a) ==
  a # NoAddr /\
  LET host == normalizeIP(SplitHost(Text(a))) IN
  \/ host \in set.exact
  \/ ParseIP(host) /\ \E e \in set.nets : Unmap(e.nfam) = Unmap(host.fam) /\ host.n \in e.hosts

-----------------------------------------------------------------------------
(* verifyClientAuth: the policies in crypto/tls's order, which the code      *)
(* compares with <.  certs is the list of what the peer sent: "good",        *)
(* "other" (no chain to the pool) or "junk".                                 *)
NoClientCert == 0
RequestClientCert == 1
RequireAnyClientCert == 2
VerifyClientCertIfGiven == 3
RequireAndVerifyClientCert == 4

verifyClientAuth(policy, pool, certs) ==
  IF policy < RequireAnyClientCert THEN TRUE
  ELSE IF certs = << >> THEN policy = VerifyClientCertIfGiven
  ELSE IF policy = RequireAnyClientCert THEN TRUE
  ELSE pool /\ certs[1] = "good"

(* EnforceServerClientAuth: a connection it cannot inspect fails a policy    *)
(* that has to be enforced.                                                  *)
EnforceServerClientAuth(policy, pool, inspectable, certs) ==
  policy < RequireAnyClientCert \/ (inspectable /\ verifyClientAuth(policy, pool, certs))

-----------------------------------------------------------------------------
SameHost(a, b) == Unmap(a.fam) = Unmap(b.fam) /\ a.n = b.n /\ (Unmap(a.fam) = "v6" => a.zone = b.zone)

(* One peer is one peer to every part: two addresses of the same host get    *)
(* one quota bucket, one ban and rate key and, with the port, one datagram   *)
(* session, however the socket wrote them, and two hosts never share one.    *)
OnePeerOneKey(a, b) ==
  a # NoAddr /\ b # NoAddr =>
    /\ SameHost(a, b) <=> PeerIP(a) = PeerIP(b)
    /\ SameHost(a, b) <=> remoteKey(a) = remoteKey(b)
    /\ PeerIP(a) = PeerIPString(Text(a)) /\ remoteKey(a) = normalizeBanKey(Text(a))
    /\ SameHost(a, b) /\ a.port = b.port /\ a.zone = b.zone <=> NewPeerKey(a) = NewPeerKey(b)
    /\ PeerIP(KeyUDPAddr(NewPeerKey(a))) = PeerIP(a)

(* A blocked host is blocked in each of its forms, by an entry in each of    *)
(* its forms, and nobody else is; a list with a bad entry changes nothing    *)
(* when it is reloaded and blocks what it can when it is built in code.      *)
BlockedWhateverForm(entries, old, a) ==
  LET built == NewBlacklist(entries)
      after == Replace(NewBlacklist(old), entries)
      named(es) == \E e \in es : IF IsNet(e) THEN Unmap(e.nfam) = Unmap(a.fam) /\ a.n \in e.hosts
                                 ELSE "fam" \in DOMAIN e /\ e.zone = "" /\ Unmap(e.fam) = Unmap(a.fam) /\ e.n = a.n
      valid == \A e \in entries : IsNet(e) \/ IsIP(e) IN
  a # NoAddr /\ a.zone = "" =>
    /\ OnAcceptBlocks(built, a) <=> named(entries)
    /\ OnAcceptBlocks(after, a) <=> named(IF valid THEN entries ELSE old)

(* A DTLS client gets in exactly as the configured tls_client_auth says:     *)
(* asked only, any certificate, verified when given, or always verified;     *)
(* what the server cannot inspect or has no pool to verify against fails.    *)
PolicyKept(policy, pool, inspectable, certs) ==
  EnforceServerClientAuth(policy, pool, inspectable, certs) <=>
    CASE policy \in {NoClientCert, RequestClientCert} -> TRUE
      [] policy = RequireAnyClientCert -> inspectable /\ certs # << >>
      [] policy = VerifyClientCertIfGiven -> inspectable /\ (certs # << >> => pool /\ certs[1] = "good")
      [] policy = RequireAndVerifyClientCert -> inspectable /\ certs # << >> /\ pool /\ certs[1] = "good"

-----------------------------------------------------------------------------
(* Reading a PROXY protocol header before the payload of a connection.  A    *)
(* stream is a sequence of symbols: a v1 field, a line end, a signature, a   *)
(* length or an address part is one symbol each, and the size limits are     *)
(* scaled to that unit.                                                      *)
Off == "off"      \* ProxyProtocolMode
V1 == "v1"
V2 == "v2"
Auto == "auto"

proxyV1MaxLen == 8        \* 107 bytes, CRLF included
proxyHeaderBuffer == 10   \* 256 bytes
proxyV2MaxPayload == 7    \* 2048 bytes

Invalid == "ErrProxyHeaderInvalid"
Version == "ErrProxyHeaderVersion"
TooLong == "ErrProxyHeaderTooLong"

(* No source: UNKNOWN, LOCAL or a family without addresses. *)
Socket == "socket"
Err(e) == [ok |-> FALSE, err |-> e]
Hdr(source, rest) == [ok |-> TRUE, source |-> source, rest |-> rest]
Upto(s, n) == SubSeq(s, 1, n)
Beyond(s, n) == SubSeq(s, n + 1, Len(s))

(* parseProxyIP: an address of the declared family; a v4-mapped address is   *)
(* not one of TCP6.  parseProxyPort                                          *)
parseProxyIP(f, wantV4) == f \in (IF wantV4 THEN {"4a", "4b", "m4a"} ELSE {"6a"})
parseProxyPort(f) == f \in {"p", "q"}

(* readProxyV1: the line up to LF, found within the buffer and the length    *)
(* limit, ended by CRLF; UNKNOWN ignores what follows it.                    *)
readProxyV1(s) ==
  LET nl == CHOOSE i \in 1..(Len(s) + 1) : (i > Len(s) \/ s[i] = "LF") /\ "LF" \notin ToSet(Upto(s, i - 1))
      f == Upto(s, nl - 2)
      v4 == f[2] = "TCP4" IN
  IF nl > proxyHeaderBuffer THEN Err(TooLong)
  ELSE IF nl > Len(s) THEN Err(Invalid)
  ELSE IF nl > proxyV1MaxLen THEN Err(TooLong)
  ELSE IF nl < 2 \/ s[nl - 1] # "CR" \/ Len(f) < 2 \/ f[1] # "PROXY" THEN Err(Invalid)
  ELSE IF f[2] = "UNKNOWN" THEN Hdr(Socket, Beyond(s, nl))
  ELSE IF \/ f[2] \notin {"TCP4", "TCP6"} \/ Len(f) # 6
          \/ ~parseProxyIP(f[3], v4) \/ ~parseProxyIP(f[4], v4)
          \/ ~parseProxyPort(f[5]) \/ ~parseProxyPort(f[6]) THEN Err(Invalid)
  ELSE Hdr(<<"tcp", f[3], f[5]>>, Beyond(s, nl))

(* readProxyV2: signature (two symbols), version, command, family, length,   *)
(* then the whole payload, of which the addresses are the first part.  An    *)
(* address is one symbol for IPv4 and two for IPv6.                          *)
v2Fixed == 6
addrLen(fam) == IF fam \in {"TCP4", "UDP4"} THEN 1 ELSE 2
proxyAddr(fam, ip, port) == <<IF fam \in {"UDP4", "UDP6"} THEN "udp" ELSE "tcp", ip, port>>

(* Mutation of readProxyV2: what follows the addresses is left on the stream. *)
readProxyV2KeepsTlv(s) ==
  IF Len(s) < v2Fixed \/ s[3] # "2" \/ s[6] > proxyV2MaxPayload \/ Len(s) < v2Fixed + s[6] THEN Err(Invalid)
  ELSE IF s[4] # "PROXY" \/ s[5] \notin {"TCP4", "UDP4"} THEN Hdr(Socket, Beyond(s, v2Fixed + s[6]))
  ELSE Hdr(proxyAddr(s[5], s[7], s[9]), Beyond(s, v2Fixed + 4))

readProxyV2(s) ==
  LET cmd == s[4]  fam == s[5]  length == s[6]
      payload == SubSeq(s, v2Fixed + 1, v2Fixed + length)
      rest == Beyond(s, v2Fixed + length)
      n == addrLen(fam) IN
  IF Len(s) < v2Fixed THEN Err(Invalid)
  ELSE IF s[3] # "2" THEN Err(Version)
  ELSE IF length > proxyV2MaxPayload THEN Err(TooLong)
  ELSE IF Len(s) < v2Fixed + length THEN Err(Invalid)
  ELSE IF cmd # "PROXY" \/ fam \notin {"TCP4", "UDP4", "TCP6", "UDP6"} THEN Hdr(Socket, rest)
  ELSE IF length < 2 * n + 2 THEN Err(Invalid)
  ELSE Hdr(proxyAddr(fam, IF n = 1 THEN payload[1] ELSE Upto(payload, 2), payload[2 * n + 1]), rest)

(* readProxyHeader: as many symbols as a v2 signature has are peeked at. *)
isV1(s) == s[1] = "PROXY"
isV2(s) == s[1] = "SIG1" /\ s[2] = "SIG2"

readProxyHeader(s, mode) ==
  IF Len(s) < 2 THEN Err(Invalid)
  ELSE IF isV1(s) /\ mode \in {V1, Auto} THEN readProxyV1(s)
  ELSE IF isV2(s) /\ mode \in {V2, Auto} THEN readProxyV2(s)
  ELSE IF isV1(s) \/ isV2(s) THEN Err(Version) ELSE Err(Invalid)

(* proxyListener.Accept, handshake: the connection above reads what the      *)
(* header left and has the header's source, or the socket's peer, for peer.  *)
(* NewProxyListener returns the listener itself when the mode is off.        *)
handshake(s, mode, peer) ==
  IF mode = Off THEN [ok |-> TRUE, remote |-> peer, rest |-> s]
  ELSE LET h == readProxyHeader(s, mode) IN
       IF ~h.ok THEN h
       ELSE [ok |-> TRUE, remote |-> IF h.source = Socket THEN peer ELSE h.source, rest |-> h.rest]

-----------------------------------------------------------------------------
(* What a balancer writes for a client: h is [v, fam, src, sport, tlv], tlv  *)
(* the number of symbols after the addresses (or after UNKNOWN).             *)
Filler(n) == [i \in 1..n |-> "x"]
Ip(h) == IF h.fam \in {"TCP4", "UDP4"} THEN <<h.src>> ELSE <<h.src, h.src>>
headerOf(h) ==
  IF h.v = V1
  THEN <<"PROXY", h.fam>> \o (IF h.fam = "UNKNOWN" THEN Filler(h.tlv) ELSE <<h.src, h.src, h.sport, "q">>) \o <<"CR", "LF">>
  ELSE LET addrs == IF h.fam \in {"TCP4", "UDP4", "TCP6", "UDP6"} THEN Ip(h) \o Ip(h) \o <<h.sport, "q">> ELSE << >>
       IN <<"SIG1", "SIG2", "2", h.cmd, h.fam, Len(addrs) + h.tlv>> \o addrs \o Filler(h.tlv)
sourceOf(h, peer) ==
  IF h.fam = "UNKNOWN" \/ h.fam = "UNSPEC" \/ (h.v = V2 /\ h.cmd # "PROXY") THEN peer
  ELSE IF h.v = V1 THEN <<"tcp", h.src, h.sport>>
  ELSE proxyAddr(h.fam, IF addrLen(h.fam) = 1 THEN h.src ELSE <<h.src, h.src>>, h.sport)

(* A connection whose balancer wrote a header of an accepted version is      *)
(* attributed to the client named there and its payload starts exactly       *)
(* after the header, TLVs included; cut short anywhere, or of the version    *)
(* the listener does not take, it is never passed on (NewProxyListener).     *)
HeaderHonoured(h, mode, payload, cut) ==
  LET s == headerOf(h)
      r == handshake(s \o payload, mode, "peer")
      short == handshake(Upto(s, IF cut < Len(s) THEN cut ELSE Len(s) - 1), mode, "peer") IN
  mode # Off =>
    /\ ~short.ok
    /\ mode \notin {Auto, h.v} => ~r.ok /\ r.err = Version
    /\ mode \in {Auto, h.v} /\ (r.ok \/ r.err # TooLong) =>
         r.ok /\ r.remote = sourceOf(h, "peer") /\ r.rest = payload

(* Whatever a peer sends, a connection passed on has a header of the         *)
(* grammar in front of what is left: an address is only believed when the    *)
(* family, the addresses and the ports fit together.                         *)
AttributedOrClosed(s, mode) ==
  LET r == handshake(s, mode, "peer") IN
  mode # Off /\ r.ok =>
    LET head == Upto(s, Len(s) - Len(r.rest)) IN
    /\ s = head \o r.rest
    /\ r.remote # "peer" /\ head[1] = "PROXY" =>
         /\ Len(head) = 8 /\ head[7] = "CR" /\ head[8] = "LF"
         /\ \E fam \in {{"4a", "4b", "m4a"}, {"6a"}} : {head[3], head[4]} \subseteq fam /\ r.remote[2] \in fam
         /\ (head[2] = "TCP4") = (head[3] # "6a")
=============================================================================
