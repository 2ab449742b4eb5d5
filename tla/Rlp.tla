---------------------------------- MODULE Rlp ----------------------------------
(* The RLP reader and writer (src/src/rlp, src/include/rlp) over sequences of  *)
(* bytes. A view is a sequence of bytes. A read returns the decoding error it  *)
(* reports ("" for none), what it read and the view it leaves.                 *)
EXTENDS Naturals, Sequences, SequencesExt

kMaxShortLen       == 55
kShortStringOffset == 128
kLongStringOffset  == 183
kShortListOffset   == 192
kLongListOffset    == 247

(* Lengths are 64-bit in the code. No view of a model is as long as TooLong,   *)
(* so larger lengths all behave as TooLong does.                               *)
TooLong == 2^24

Drop(v, n) == SubSeq(v, n + 1, Len(v))

(* F(x), with x evaluated once.                                                *)
Bind(x, F(_)) == CHOOSE y \in {F(z) : z \in {x}} : TRUE

--------------------------------------------------------------------------------
(* Big-endian integers without leading zeros (endian.cpp).                     *)

BigEndian(bs) ==
    CASE bs = <<>>   -> 0
      [] Len(bs) = 1 -> bs[1]
      [] Len(bs) = 2 -> 256 * bs[1] + bs[2]
      [] Len(bs) = 3 -> 65536 * bs[1] + 256 * bs[2] + bs[3]
      [] OTHER       -> TooLong

(* The value that w bytes hold, or the error.                                  *)
from_big_compact(bs, w) ==
    CASE Len(bs) > 1 /\ bs[1] = 0 -> [err |-> "kLeadingZero", out |-> 0]
      [] Len(bs) > w              -> [err |-> "kOverflow", out |-> 0]
      [] OTHER                    -> [err |-> "", out |-> BigEndian(bs)]

to_big_compact(n) ==
    CASE n = 0                -> <<>>
      [] n \in 1..255         -> <<n>>
      [] n \in 256..65535     -> <<n \div 256, n % 256>>
      [] OTHER                -> <<n \div 65536, (n \div 256) % 256, n % 256>>

--------------------------------------------------------------------------------
(* Headers (rlp_decoder.cpp).                                                  *)

HdrErr(e) == [err |-> e, list |-> FALSE, header |-> 0, payload |-> 0]

(* The last check of decode_header_impl: the payload is all there.             *)
Hdr(v, isList, header, payload) ==
    IF Len(v) < header + payload
    THEN HdrErr("kInputTooShort")
    ELSE [err |-> "", list |-> isList, header |-> header, payload |-> payload]

(* The long form: lenlen length bytes after the first one.                     *)
LongHdr(v, isList, header, len) ==
    IF len.err # "" THEN HdrErr(len.err)
    ELSE IF len.out <= kMaxShortLen THEN HdrErr("kNonCanonicalSize")
    ELSE Hdr(v, isList, header, len.out)

LongHeader(v, isList, lenlen) ==
    IF Len(v) < 1 + lenlen THEN HdrErr("kInputTooShort")
    ELSE LongHdr(v, isList, 1 + lenlen, from_big_compact(SubSeq(v, 2, 1 + lenlen), 8))

(* decode_header_impl on a copy of the view.                                   *)
PeekHeader(v) ==
    IF v = <<>> THEN HdrErr("kInputTooShort")
    ELSE LET b == v[1] IN
    IF Len(v) = 1 /\ b >= 249 THEN HdrErr("kMalformedHeader")
    ELSE IF b < kShortStringOffset THEN Hdr(v, FALSE, 0, 1)
    ELSE IF b <= kShortStringOffset + kMaxShortLen THEN
         IF b = kShortStringOffset + 1 /\ Len(v) > 1 /\ v[2] < kShortStringOffset
         THEN HdrErr("kNonCanonicalSize")
         ELSE Hdr(v, FALSE, 1, b - kShortStringOffset)
    ELSE IF b < kShortListOffset THEN LongHeader(v, FALSE, b - kLongStringOffset)
    ELSE IF b <= kShortListOffset + kMaxShortLen
         THEN Hdr(v, TRUE, 1, b - kShortListOffset)
    ELSE LongHeader(v, TRUE, b - kLongListOffset)

(* The reads compute the header's length again, from the first byte alone.     *)
skip_header_internal(v) ==
    LET b == v[1] IN
    CASE b < kShortStringOffset                                -> 0
      [] b \in kShortStringOffset..kLongStringOffset           -> 1
      [] b \in (kLongStringOffset + 1)..(kShortListOffset - 1) -> 1 + (b - kLongStringOffset)
      [] b \in kShortListOffset..kLongListOffset               -> 1
      [] b > kLongListOffset                                   -> 1 + (b - kLongListOffset)

--------------------------------------------------------------------------------
(* Reads                                                                       *)

Failed(e, v)      == [err |-> e, out |-> <<>>, rest |-> v]
Read(out, rest)   == [err |-> "", out |-> out, rest |-> rest]
Payload(v, h)     == SubSeq(v, h.header + 1, h.header + h.payload)
AfterItem(v, h)   == Drop(v, h.header + h.payload)

Unheaded(v)       == Drop(v, skip_header_internal(v))

(* The reads that need a string: r is what they return for one.                *)
OfString(v, h, r) ==
    IF h.err # "" THEN Failed(h.err, v)
    ELSE IF h.list THEN Failed("kUnexpectedList", v)
    ELSE r

(* read(Bytes&), of an item with header h                                      *)
BytesOf(v, h, w) ==
    OfString(v, h, IF Len(w) < h.payload THEN Failed("kInputTooShort", w)
                   ELSE Read(SubSeq(w, 1, h.payload), Drop(w, h.payload)))
ReadBytes(v) == BytesOf(v, PeekHeader(v), Unheaded(v))

(* read of an unsigned integer of w bytes; w = 32 is read_uint256.             *)
IntegralOf(v, h, n) ==
    OfString(v, h, IF n.err # "" THEN Failed(n.err, v) ELSE Read(n.out, AfterItem(v, h)))
ReadIntegral(v, w) ==
    LET h == PeekHeader(v) IN IntegralOf(v, h, from_big_compact(Payload(v, h), w))

(* read_bool: an empty string or a zero byte is false.                         *)
BoolOf(v, h, p) ==
    OfString(v, h, IF p \in {<<>>, <<0>>, <<1>>} THEN Read(p = <<1>>, AfterItem(v, h))
                   ELSE Failed("kOverflow", v))
ReadBool(v) == LET h == PeekHeader(v) IN BoolOf(v, h, Payload(v, h))

(* read into a fixed-size array of n bytes.                                    *)
ArrayOf(v, h, w, n) ==
    OfString(v, h, IF h.payload # n THEN Failed("kUnexpectedLength", v)
                   ELSE Read(SubSeq(w, 1, n), Drop(w, n)))
ReadArray(v, n) == ArrayOf(v, PeekHeader(v), Unheaded(v), n)

(* ReadListHeaderBytes: only the header is consumed.                           *)
ListHeaderOf(v, h) ==
    IF h.err # "" THEN Failed(h.err, v)
    ELSE IF ~h.list THEN Failed("kUnexpectedString", v)
    ELSE Read(h.payload, Unheaded(v))
ReadListHeader(v) == ListHeaderOf(v, PeekHeader(v))

SkipOf(v, h, w) ==
    IF h.err # "" THEN Failed(h.err, v)
    ELSE IF Len(w) < h.payload THEN Failed("kInputTooShort", w)
    ELSE Read(<<>>, Drop(w, h.payload))
SkipItem(v) == SkipOf(v, PeekHeader(v), Unheaded(v))

IsList(v) == v # <<>> /\ v[1] >= kShortListOffset

(* The next read, unless this one failed.                                      *)
Then(r, F(_)) == IF r.err # "" THEN r ELSE F(r)

(* A read as that of a sequence: of the one value, or of nothing.              *)
One(r)     == IF r.err # "" THEN r ELSE Read(<<r.out>>, r.rest)
Nothing(r) == IF r.err # "" THEN r ELSE Read(<<>>, r.rest)

(* Two reads of sequences in a row.                                            *)
Joined(a, b) == IF a.err # "" THEN a
                ELSE IF b.err # "" THEN b ELSE Read(a.out \o b.out, b.rest)

--------------------------------------------------------------------------------
(* The writer (rlp_encoder.cpp): the bytes each add appends.                   *)

encode_header_bytes(isList, n) ==
    LET len == to_big_compact(n)
    IN  IF n <= kMaxShortLen
        THEN << (IF isList THEN kShortListOffset ELSE kShortStringOffset) + n >>
        ELSE << (IF isList THEN kLongListOffset ELSE kLongStringOffset) + Len(len) >> \o len

(* add(ByteView)                                                               *)
EncodeBytes(bs) ==
    IF Len(bs) = 1 /\ bs[1] < kShortStringOffset
    THEN bs
    ELSE encode_header_bytes(FALSE, Len(bs)) \o bs

(* add of an unsigned integer, of a uint256, of a bool.                        *)
EncodeIntegral(n) ==
    CASE n = 0                        -> <<kShortStringOffset>>
      [] n \in 1..(kShortStringOffset - 1) -> <<n>>
      [] OTHER -> << kShortStringOffset + Len(to_big_compact(n)) >> \o to_big_compact(n)

EncodeBool(b) == << IF b THEN 1 ELSE kShortStringOffset >>

================================================================================
