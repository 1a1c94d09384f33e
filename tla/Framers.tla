------------------------------ MODULE Framers ------------------------------
(***************************************************************************)
(* The framers of the TCP transport (internal/transport/tcp/framer.go), on   *)
(* the plain and on the buffered reader, and the frames of gRPC-Web           *)
(* (internal/transport/grpcweb/framing.go).  A stream is a sequence of bytes; *)
(* reading a frame gives the frame and what is left, or an error.             *)
(***************************************************************************)
EXTENDS Integers, Sequences, SequencesExt, FiniteSets

Failed == [ok |-> FALSE]
Frame(f, rest) == [ok |-> TRUE, frame |-> f, rest |-> rest]
Big32(n) == <<n \div 16777216, (n \div 65536) % 256, (n \div 256) % 256, n % 256>>
Number(bytes) == FoldLeft(LAMBDA acc, b : 256 * acc + b, 0, bytes)
Upto(s, n) == SubSeq(s, 1, n)
Beyond(s, n) == SubSeq(s, n + 1, Len(s))

(* maxBytes: an unset limit is the default, scaled down from 1 MiB (32 KiB   *)
(* for RawFramer).                                                           *)
defaultMaxFrameBytes == 6
maxBytes(max) == IF max > 0 THEN max ELSE defaultMaxFrameBytes

-----------------------------------------------------------------------------
(* LengthPrefixFramer.WriteFrame *)
writeLength(max, payload) ==
  IF Len(payload) > max THEN Failed ELSE Frame(Big32(Len(payload)) \o payload, <<>>)

(* Mutation of readLength: the four bytes of the header count as payload. *)
readLengthShort(max, s) ==
  IF Len(s) < 4 \/ Number(Upto(s, 4)) > max \/ Len(s) < Number(Upto(s, 4)) THEN Failed
  ELSE Frame(Upto(Beyond(s, 4), Number(Upto(s, 4)) - 4), Beyond(s, Number(Upto(s, 4))))

(* LengthPrefixFramer.ReadFrame; both readers give the same frame. *)
readLength(max, s) ==
  IF Len(s) < 4 \/ Number(Upto(s, 4)) > max \/ Len(s) < 4 + Number(Upto(s, 4)) THEN Failed
  ELSE Frame(Upto(Beyond(s, 4), Number(Upto(s, 4))), Beyond(s, 4 + Number(Upto(s, 4))))

(* The position of the first delimiter, 0 when there is none. *)
Find(s, delim) == IF delim \in ToSet(s) THEN CHOOSE i \in DOMAIN s : s[i] = delim /\ delim \notin ToSet(Upto(s, i - 1)) ELSE 0

(* LineFramer.WriteFrame *)
writeLine(max, delim, payload) ==
  IF Len(payload) + 1 > max THEN Failed ELSE Frame(payload \o <<delim>>, <<>>)

(* LineFramer.ReadFrame: byte by byte, the limit before the delimiter. *)
readLine(max, delim, s) ==
  LET i == Find(s, delim) IN
  IF i = 0 \/ i > max THEN Failed ELSE Frame(Upto(s, i - 1), Beyond(s, i))

(* LineFramer.readFrameBuffered: slices of at most buf bytes, collected in   *)
(* out; the delimiter does not count against the limit.                      *)
RECURSIVE readLineBuffered(_, _, _, _, _)
readLineBuffered(max, delim, s, buf, out) ==
  LET i == Find(Upto(s, IF Len(s) < buf THEN Len(s) ELSE buf), delim) IN
  IF i > 0 THEN IF Len(out) + i - 1 > max THEN Failed ELSE Frame(out \o Upto(s, i - 1), Beyond(s, i))
  ELSE IF Len(s) < buf \/ Len(out) + buf > max THEN Failed
  ELSE readLineBuffered(max, delim, Beyond(s, buf), buf, out \o Upto(s, buf))

(* FixedSizeFramer *)
writeFixed(size, payload) == IF size <= 0 \/ Len(payload) # size THEN Failed ELSE Frame(payload, <<>>)
readFixed(size, s) == IF size <= 0 \/ Len(s) < size THEN Failed ELSE Frame(Upto(s, size), Beyond(s, size))

(* RawFramer: one Read of what is there. *)
writeRaw(max, payload) == IF Len(payload) > max THEN Failed ELSE Frame(payload, <<>>)
readRaw(max, s) ==
  LET n == IF Len(s) < max THEN Len(s) ELSE max IN
  IF n = 0 THEN Failed ELSE Frame(Upto(s, n), Beyond(s, n))

Write(f, payload) ==
  CASE f.kind = "length" -> writeLength(maxBytes(f.max), payload)
    [] f.kind = "line" -> writeLine(maxBytes(f.max), f.delim, payload)
    [] f.kind = "fixed" -> writeFixed(f.max, payload)
    [] f.kind = "raw" -> writeRaw(maxBytes(f.max), payload)

(* framerAcceptsBufferedRead: buf 0 is the plain connection, and RawFramer   *)
(* is never given the buffered one.                                          *)
Read(f, s, buf) ==
  CASE f.kind = "length" -> readLength(maxBytes(f.max), s)
    [] f.kind = "line" /\ buf = 0 -> readLine(maxBytes(f.max), f.delim, s)
    [] f.kind = "line" /\ buf > 0 -> readLineBuffered(maxBytes(f.max), f.delim, s, buf, <<>>)
    [] f.kind = "fixed" -> readFixed(f.max, s)
    [] f.kind = "raw" -> readRaw(maxBytes(f.max), s)

(* All frames a reader gets until it fails. *)
RECURSIVE ReadAll(_, _, _)
ReadAll(f, s, buf) ==
  LET r == Read(f, s, buf) IN IF r.ok THEN <<r.frame>> \o ReadAll(f, r.rest, buf) ELSE <<>>

-----------------------------------------------------------------------------
(* parseDataFrames: the payload of the data frames; trailers are skipped. *)
RECURSIVE parseDataFrames(_, _)
parseDataFrames(body, out) ==
  IF body = <<>> THEN Frame(out, <<>>)
  ELSE IF Len(body) < 5 THEN Failed
  ELSE LET size == Number(SubSeq(body, 2, 5))
           rest == Beyond(body, 5)
       IN  IF Len(rest) < size \/ body[1] \notin {0, 128} THEN Failed
           ELSE parseDataFrames(Beyond(rest, size), IF body[1] = 0 THEN out \o Upto(rest, size) ELSE out)

(* parseRequestPayload: a short body, or one that is not framed, is the      *)
(* payload itself unless strict.                                             *)
parseRequestPayload(body, strict) ==
  IF Len(body) < 5 THEN [ok |-> TRUE, frame |-> body, framed |-> FALSE]
  ELSE LET r == parseDataFrames(body, <<>>) IN
       IF r.ok THEN [ok |-> TRUE, frame |-> r.frame, framed |-> TRUE]
       ELSE IF strict THEN Failed
       ELSE [ok |-> TRUE, frame |-> body, framed |-> FALSE]

(* appendDataFrame, appendTrailerFrame *)
appendDataFrame(dst, payload) == dst \o <<0>> \o Big32(Len(payload)) \o payload
appendTrailerFrame(dst, trailers) == dst \o <<128>> \o Big32(Len(trailers)) \o trailers

(* grpcWebSafeByte, encodeGRPCMessage *)
Percent == 37
hex(d) == IF d < 10 THEN 48 + d ELSE 55 + d
grpcWebSafeByte(c) == c \in 32..126 /\ c # Percent
encodeByte(c) == IF grpcWebSafeByte(c) THEN <<c>> ELSE <<Percent, hex(c \div 16), hex(c % 16)>>
encodeGRPCMessage(s) == FlattenSeq([i \in DOMAIN s |-> encodeByte(s[i])])

(* What a client does with a grpc-message. *)
digit(c) == IF c < 58 THEN c - 48 ELSE c - 55
RECURSIVE Decode(_)
Decode(s) ==
  IF s = <<>> THEN <<>>
  ELSE IF Head(s) = Percent /\ Len(s) > 2 THEN <<16 * digit(s[2]) + digit(s[3])>> \o Decode(Beyond(s, 3))
  ELSE <<Head(s)>> \o Decode(Tail(s))

-----------------------------------------------------------------------------
(* What the framers write is what they read, in order and never merged or    *)
(* split, wherever the connection breaks, on the plain and on every buffered *)
(* reader; and no frame is handed out that was not written ("each built-in   *)
(* framer defines frame boundaries itself").  RawFramer keeps the bytes and  *)
(* no boundaries, and LineFramer's hold for payloads without the delimiter,  *)
(* which WriteFrame does not look for.                                       *)
FramesComeBack(f, payloads, cut, buf) ==
  LET wire == FlattenSeq([i \in DOMAIN payloads |-> Write(f, payloads[i]).frame])
      whole == ReadAll(f, wire, buf)
      broken == ReadAll(f, Upto(wire, Len(wire) - cut), buf)
  IN  (\A i \in DOMAIN payloads :
         Write(f, payloads[i]).ok /\ (f.kind = "line" => f.delim \notin ToSet(payloads[i]))) =>
      IF f.kind = "raw" THEN FlattenSeq(whole) = wire
      ELSE /\ whole = payloads
           /\ cut \in 1..Len(wire) => broken # payloads /\ IsPrefix(broken, payloads)

(* A gRPC-Web body of data frames and trailers parses to the payload of the  *)
(* data frames, cut short it is refused when strict, and a lenient parse     *)
(* never fails.                                                              *)
BodyComesBack(payloads, trailers, cut) ==
  LET frames == FoldLeft(appendDataFrame, <<>>, payloads)
      body == appendTrailerFrame(frames, trailers)
      short == Upto(body, Len(body) - cut)
  IN  /\ parseRequestPayload(body, TRUE) = [ok |-> TRUE, frame |-> FlattenSeq(payloads), framed |-> TRUE]
      /\ parseRequestPayload(short, FALSE).ok
      /\ cut \in 1..4 /\ Len(short) >= 5 => ~parseRequestPayload(short, TRUE).ok \/ Len(trailers) + 5 = cut

(* A grpc-message reaches the client as it was and cannot end its trailer    *)
(* line: it holds no CR or LF (encodeGRPCMessage).                           *)
MessageComesBack(s) ==
  Decode(encodeGRPCMessage(s)) = s /\ ToSet(encodeGRPCMessage(s)) \cap {10, 13} = {}
=============================================================================
