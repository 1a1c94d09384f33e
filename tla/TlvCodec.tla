------------------------------ MODULE TlvCodec ------------------------------
(***************************************************************************)
(* The OMA TLV records of LwM2M (internal/protocol/lwm2m/codec_tlv.go).      *)
(* Bytes are numbers below 256.  An identifier is its bytes without leading  *)
(* zeros, so that all 32 bits are within TLC's integers.                     *)
(***************************************************************************)
EXTENDS Integers, Sequences, SequencesExt, FiniteSets

Rejected == [ok |-> FALSE]
Be(n, w) == [i \in 1..w |-> (n \div 256 ^ (w - i)) % 256]
Unsigned(bytes) == FoldLeft(LAMBDA acc, b : 256 * acc + b, 0, bytes)
Pad(id, w) == [i \in 1..w |-> IF i <= w - Len(id) THEN 0 ELSE id[i - w + Len(id)]]
Strip(s) == SubSeq(s, 1 + Cardinality({i \in DOMAIN s : \A j \in 1..i : s[j] = 0}), Len(s))
(* A 32-bit length beyond any message counts as 2^30. *)
Length(s) == IF Len(s) = 4 /\ s[1] >= 64 THEN 2 ^ 30 ELSE Unsigned(s)
First(s, n) == SubSeq(s, 1, n)
Drop(s, n) == SubSeq(s, n + 1, Len(s))

(* EncodeTLV for one entry: TT = 11, the shortest identifier, an 8- or       *)
(* 16-bit length.                                                            *)
idBytes(id) == IF Len(id) <= 1 THEN 1 ELSE IF Len(id) = 2 THEN 2 ELSE 4
idFlag(id) == IF Len(id) <= 1 THEN 0 ELSE IF Len(id) = 2 THEN 8 ELSE 16
encodeEntry(e) ==
  LET w == IF Len(e.value) <= 255 THEN 1 ELSE 2
  IN  <<192 + idFlag(e.id) + w>> \o Pad(e.id, idBytes(e.id)) \o Be(Len(e.value), w) \o e.value

EncodeTLV(entries) ==
  IF \E i \in DOMAIN entries : Len(entries[i].id) > 4 \/ Len(entries[i].value) > 65535 THEN Rejected
  ELSE [ok |-> TRUE, data |-> FlattenSeq([i \in DOMAIN entries |-> encodeEntry(entries[i])])]

(* The bytes of an identifier; 0 is the reserved form. *)
idWidth(ii) == IF ii = 3 THEN 0 ELSE 2 ^ ii

(* decodeTLV: every record must be a Resource with Value with an explicit    *)
(* length that fits; anything else refuses the whole message.                *)
RECURSIVE decodeTLV(_, _)
decodeTLV(data, results) ==
  IF data = <<>> THEN [ok |-> TRUE, entries |-> results]
  ELSE LET t == Head(data)
           iw == idWidth((t \div 8) % 4)
           lw == t % 8
           head == 1 + iw + lw
           length == Length(SubSeq(data, 2 + iw, head))
       IN  IF \/ t \div 64 # 3 \/ iw = 0 \/ lw \notin 1..4
              \/ head > Len(data)
              \/ head + length > Len(data) THEN Rejected
           ELSE decodeTLV(Drop(data, head + length),
                  Append(results, [id |-> Strip(SubSeq(data, 2, 1 + iw)),
                                   value |-> SubSeq(data, head + 1, head + length)]))

(* ResourceValue of an Integer of up to three bytes: two's complement.  (Up  *)
(* to seven bytes the code extends the sign the same way.)                   *)
Integer(v) == IF v # <<>> /\ v[1] >= 128 THEN Unsigned(v) - 256 ^ Len(v) ELSE Unsigned(v)

-----------------------------------------------------------------------------
(* What EncodeTLV writes DecodeTLV reads, for identifiers and lengths on     *)
(* both sides of every change of width, alone and one after another; of a    *)
(* message cut short it reads the whole records in front or nothing.         *)
RecordsComeBack(entries, cut) ==
  LET data == EncodeTLV(entries).data IN
  EncodeTLV(entries).ok =>
    /\ decodeTLV(data, <<>>) = [ok |-> TRUE, entries |-> entries]
    /\ LET short == decodeTLV(First(data, Len(data) - cut), <<>>)
       IN  cut \in 1..Len(data) /\ short.ok => IsStrictPrefix(short.entries, entries)

(* Whatever DecodeTLV accepts, its records mean the same when written again, *)
(* and take no more bytes than they came in.                                 *)
DecodeSound(data) ==
  LET r == decodeTLV(data, <<>>) IN
  r.ok => /\ decodeTLV(EncodeTLV(r.entries).data, <<>>) = r
          /\ Len(EncodeTLV(r.entries).data) <= Len(data)

(* An Integer of any width means the same number in one more byte of sign,   *)
(* and lies in the range of its width (ResourceValue's sign extension).      *)
IntegerWidens(v) ==
  v # <<>> /\ Len(v) < 3 =>
    /\ Integer((IF v[1] >= 128 THEN <<255>> ELSE <<0>>) \o v) = Integer(v)
    /\ 2 * Integer(v) \in -(256 ^ Len(v)) .. (256 ^ Len(v) - 1)
=============================================================================
