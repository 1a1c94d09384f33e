----------------------------- MODULE CoapCodec -----------------------------
(***************************************************************************)
(* The CoAP wire format (internal/transport/coap/message.go) and block-wise *)
(* responses (blockwise.go).  A byte is a number below 256 and a message a   *)
(* sequence of them.  A body is its length: a block of it is [from, to).     *)
(***************************************************************************)
EXTENDS Integers, Sequences, SequencesExt, FiniteSets, Functions

Marker == 255
Bit16 == 65536
NoOptions == [n \in {} |-> <<>>]
Bad == [ok |-> FALSE]
Big16(n) == <<(n \div 256) % 256, n % 256>>
Uint(bytes) == FoldLeft(LAMBDA acc, b : 256 * acc + b, 0, bytes)

-----------------------------------------------------------------------------
(* readOptionExtended: the value of a nibble and the bytes it consumed.  Too *)
(* few bytes read as zero.                                                   *)
readOptionExtended(data, nibble) ==
  CASE nibble < 13 -> <<nibble, 0>>
    [] nibble = 13 /\ Len(data) >= 1 -> <<data[1] + 13, 1>>
    [] nibble = 14 /\ Len(data) >= 2 -> <<Uint(SubSeq(data, 1, 2)) + 269, 2>>
    [] OTHER -> <<0, 0>>

(* The option number after prev, or -1 when it leaves the 16-bit space. *)
NextNum(prev, delta) == IF delta > Bit16 - 1 - prev THEN -1 ELSE prev + delta

(* parseOptions, decodeOptionHeader: the options and the payload.  A         *)
(* malformed option ends the parse with what was read so far; a repeated     *)
(* option number keeps its last value.                                       *)
RECURSIVE parseOptions(_, _, _)
parseOptions(data, prev, options) ==
  LET stop == [options |-> options, payload |-> <<>>] IN
  IF data = <<>> THEN stop
  ELSE IF Head(data) = Marker THEN [options |-> options, payload |-> Tail(data)]
  ELSE LET dn == Head(data) \div 16
           ln == Head(data) % 16
           d == readOptionExtended(Tail(data), dn)
           afterDelta == SubSeq(data, 2 + d[2], Len(data))
           l == readOptionExtended(afterDelta, ln)
           rest == SubSeq(afterDelta, 1 + l[2], Len(afterDelta))
           num == NextNum(prev, d[1])
       IN  IF dn > 14 \/ ln > 14 \/ num = -1 \/ l[1] > Len(rest) THEN stop
           ELSE parseOptions(SubSeq(rest, l[1] + 1, Len(rest)), num,
                             (num :> SubSeq(rest, 1, l[1])) @@ options)

(* Parse, with the longest token it takes. *)
ParseUpTo(data, maxToken) ==
  LET tokenLen == data[1] % 16 IN
  IF Len(data) < 4 THEN Bad
  ELSE IF data[1] \div 64 # 1 \/ tokenLen > maxToken \/ Len(data) < 4 + tokenLen THEN Bad
  ELSE [ok |-> TRUE, type |-> (data[1] \div 16) % 4, code |-> data[2],
        mid |-> Uint(SubSeq(data, 3, 4)), token |-> SubSeq(data, 5, 4 + tokenLen)]
       @@ parseOptions(SubSeq(data, 5 + tokenLen, Len(data)), 0, NoOptions)

Parse(data) == ParseUpTo(data, 8)

-----------------------------------------------------------------------------
(* Mutation of extended: the one-byte form ends one too early. *)
extendedShort(v) == IF v < 13 THEN <<v, <<>>>> ELSE IF v < 256 THEN <<13, <<v - 13>>>>
                    ELSE <<14, Big16(v - 269)>>

(* encodeOptionHeader, encodeExtendedField: the nibble of a delta or length  *)
(* and the bytes that extend it.                                             *)
extended(v) == IF v < 13 THEN <<v, <<>>>> ELSE IF v < 269 THEN <<13, <<v - 13>>>>
               ELSE <<14, Big16(v - 269)>>

(* encodeOption *)
encodeOption(delta, value) ==
  LET d == extended(delta)
      l == extended(Len(value))
  IN  <<16 * d[1] + l[1]>> \o d[2] \o l[2] \o value

(* sortedOptionNums *)
sortedOptionNums(options) == SetToSortSeq(DOMAIN options, <)

(* Marshal: no bytes for a message whose token is too long. *)
Marshal(m) ==
  LET nums == sortedOptionNums(m.options)
      option(i) == encodeOption(nums[i] - (IF i = 1 THEN 0 ELSE nums[i - 1]), m.options[nums[i]])
  IN  IF Len(m.token) > 8 THEN <<>>
      ELSE <<64 + 16 * m.type + Len(m.token), m.code>> \o Big16(m.mid) \o m.token
      \o FlattenSeq([i \in 1..Len(nums) |-> option(i)])
      \o (IF m.payload = <<>> THEN <<>> ELSE <<Marker>> \o m.payload)

(* ACK *)
ACK(req, code, payload) ==
  [ok |-> TRUE, type |-> 2, code |-> code, mid |-> req.mid, token |-> req.token,
   options |-> NoOptions, payload |-> payload]

(* encodeObserveSeq keeps the low three bytes. *)
encodeObserveSeq(seq) ==
  CASE seq <= 255 -> <<seq>>
    [] seq > 255 /\ seq < Bit16 -> Big16(seq)
    [] OTHER -> <<(seq \div Bit16) % 256>> \o Big16(seq % Bit16)

-----------------------------------------------------------------------------
(* BlockOption.Size, sizeExp and WithMaxBlockSize *)
Size(szx) == 2 ^ (szx + 4)
sizeExp(size) == IF \E e \in 0..6 : Size(e) = size THEN CHOOSE e \in 0..6 : Size(e) = size ELSE 6
WithMaxBlockSize(size) ==
  IF size <= 0 THEN 0
  ELSE LET legal == {Size(e) : e \in 0..6}
           below == {s \in legal : s <= size}
       IN  IF below = {} THEN 16 ELSE CHOOSE s \in below : \A o \in below : o <= s

(* BlockOption.Marshal: 24 bits without leading zero bytes. *)
MarshalBlock(b) ==
  LET raw == 16 * b.num + b.szx + (IF b.more THEN 8 ELSE 0)
      low == raw % (256 * Bit16)
  IN  CASE raw = 0 -> <<>>
        [] raw # 0 /\ low < 256 -> <<low>>
        [] low >= 256 /\ low < Bit16 -> Big16(low)
        [] low >= Bit16 -> <<low \div Bit16>> \o Big16(low % Bit16)

(* parseBlockOption *)
parseBlockOption(v) ==
  LET raw == Uint(v) IN
  IF Len(v) > 3 \/ raw % 8 = 7 THEN Bad
  ELSE [ok |-> TRUE, num |-> raw \div 16, more |-> (raw \div 8) % 2 = 1, szx |-> raw % 8]

(* sliceBlock: block num of a body of length len. *)
sliceBlock(len, num, size) ==
  LET offset == num * size IN
  IF offset >= len THEN Bad
  ELSE IF offset + size >= len THEN [ok |-> TRUE, from |-> offset, to |-> len, more |-> FALSE]
  ELSE [ok |-> TRUE, from |-> offset, to |-> offset + size, more |-> TRUE]

(* negotiateBlock2: v is the Block2 value of the request, or absent. *)
negotiateBlock2(present, v, maxSize) ==
  IF ~present THEN [ok |-> TRUE, present |-> FALSE, offset |-> 0, size |-> maxSize]
  ELSE LET opt == parseBlockOption(v) IN
       IF ~opt.ok THEN Bad
       ELSE LET requested == Size(opt.szx) IN
            [ok |-> TRUE, present |-> TRUE, offset |-> opt.num * requested,
             size |-> IF requested > maxSize THEN maxSize ELSE requested]

(* blockFor *)
blockFor(len, req) ==
  IF ~req.present /\ len <= req.size
    THEN [ok |-> TRUE, from |-> 0, to |-> len, more |-> FALSE, block |-> FALSE]
  ELSE LET num == req.offset \div req.size
           s == sliceBlock(len, num, req.size)
       IN  IF ~s.ok THEN Bad
           ELSE s @@ [block |-> TRUE, num |-> num, szx |-> sizeExp(req.size)]

(* applyBlock2: maxSize 0 leaves block-wise transfer off; Bad is 4.02. *)
applyBlock2(len, present, v, maxSize) ==
  IF maxSize <= 0 THEN [ok |-> TRUE, from |-> 0, to |-> len, more |-> FALSE, block |-> FALSE]
  ELSE LET req == negotiateBlock2(present, v, maxSize) IN
       IF req.ok THEN blockFor(len, req) ELSE Bad

-----------------------------------------------------------------------------
(* A client that fetches a body of a given length: it asks for the block     *)
(* after the bytes it has, in the size of the last answer or a smaller one.  *)
RECURSIVE Fetch(_, _, _, _)
Fetch(len, got, szx, maxSize) ==
  LET ans == applyBlock2(len, TRUE, MarshalBlock([num |-> got \div Size(szx), more |-> FALSE, szx |-> szx]), maxSize)
  IN  IF ~ans.ok \/ ans.from # got THEN -1
      ELSE IF ~ans.more THEN ans.to
      ELSE Fetch(len, ans.to, IF ans.block THEN ans.szx ELSE szx, maxSize)

(* Every message comes back from the wire as it was: token, options with     *)
(* short, extended and repeated-delta numbers, and payload (Parse after      *)
(* Marshal); and its acknowledgement names it by id and token.               *)
RoundTrip(m) ==
  LET answer == Parse(Marshal(ACK(m, 69, m.payload))) IN
  Parse(Marshal(m)) = m /\ answer.mid = m.mid /\ answer.token = m.token

(* Whatever arrives, what Parse understood survives a second trip: no        *)
(* truncated length, overflowing delta, repeated option or long token is     *)
(* read one way and written another, and writing it takes no more bytes.     *)
ParseStable(data) ==
  LET m == Parse(data) IN
  m.ok => RoundTrip(m) /\ Len(Marshal(m)) <= Len(data)

(* A block option survives the wire, and the reserved SZX never gets in; an  *)
(* Observe sequence number is carried modulo 2^24.                           *)
BlockRoundTrip(b) ==
  /\ parseBlockOption(MarshalBlock(b)) = IF b.szx = 7 THEN Bad ELSE [ok |-> TRUE] @@ b
  /\ \A seq \in {b.num, 17 * b.num} : Uint(encodeObserveSeq(seq)) = seq % (256 * Bit16)

(* A client that follows the answers gets every byte of the body from block  *)
(* start on exactly once and learns where it ends, whatever size it asks for *)
(* at first and whatever the server's maximum (negotiateBlock2 re-divides).  *)
(* With block-wise transfer off every answer is the whole body.              *)
BlocksReassemble(len, start, szx, configured) ==
  LET got == start * Size(szx)
      max == WithMaxBlockSize(configured)
  IN  got < len => Fetch(len, IF max = 0 THEN 0 ELSE got, szx, max) = len
=============================================================================
