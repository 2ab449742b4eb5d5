------------------------------- MODULE EthObjects -------------------------------
(* The objects of the eth protocol (src/src/eth/objects.cpp) as layouts: each  *)
(* encode_ function writes, and each decode_ function reads, the fields of one *)
(* layout in order. Put and Get say what writing and reading a layout does. A  *)
(* value is a number, a sequence of bytes, or a sequence of the values of its  *)
(* fields; an optional value is a sequence of at most one. Which error a       *)
(* refused input is reported with is not modelled beyond the first reader's.   *)
EXTENDS Rlp

kRlpListPrefixMin == 192
kDefaultChainId   == 1
kLegacy           == 0
kAccessList       == 1
kDynamicFee       == 2
kOpDeposit        == 126

--------------------------------------------------------------------------------
(* Layouts                                                                     *)

Uint(n)      == [k |-> "uint", n |-> n]         \* an integer of n bytes
Flag         == [k |-> "bool"]
Fixed(n)     == [k |-> "fixed", n |-> n]        \* n bytes
Blob         == [k |-> "bytes"]
RawItem      == [k |-> "raw"]                   \* any item, with its header
Maybe(t, d)  == [k |-> "maybe", of |-> t, default |-> d]  \* written as d when absent
To           == [k |-> "to"]                    \* an address, or nothing
Outcome      == [k |-> "outcome"]               \* of a receipt: state root or status
ListOf(t)    == [k |-> "listof", of |-> t]
Struct(ts)   == [k |-> "struct", of |-> ts]     \* a list of exactly these fields
Lax(ts)      == [k |-> "lax", of |-> ts]        \* a list whose end is not checked
Longer(ts)   == [k |-> "longer", of |-> ts]     \* a list; items after the fields are skipped
Item(t)      == [k |-> "item", of |-> t]        \* one item, given to a decoder of its own
Header       == [k |-> "header"]
Receipt      == [k |-> "receipt"]
Transaction  == [k |-> "tx"]

Hash256 == Fixed(32)
Address == Fixed(20)
Bloom   == Fixed(256)

LogEntry == Struct(<<Address, ListOf(Hash256), Blob>>)

AccessListEntry == Struct(<<Address, ListOf(Hash256)>>)

BlockHeaderFields == <<Hash256, Hash256, Address, Hash256, Hash256, Hash256, Bloom,
                       Uint(32), Uint(8), Uint(8), Uint(8), Uint(8), Blob, Hash256, Fixed(8)>>

ReceiptFields == <<Outcome, Uint(32), Bloom, ListOf(LogEntry)>>

TransactionFields(type) ==
    CASE type = kLegacy     -> <<Uint(8), Maybe(Uint(32), 0), Uint(8), To, Uint(32), Blob,
                                 Uint(32), Uint(32), Uint(32)>>
      [] type = kAccessList -> <<Maybe(Uint(8), kDefaultChainId), Uint(8), Maybe(Uint(32), 0),
                                 Uint(8), To, Uint(32), Blob, ListOf(AccessListEntry),
                                 Uint(32), Uint(32), Uint(32)>>
      [] type = kDynamicFee -> <<Maybe(Uint(8), kDefaultChainId), Uint(8), Maybe(Uint(32), 0),
                                 Maybe(Uint(32), 0), Uint(8), To, Uint(32), Blob,
                                 ListOf(AccessListEntry), Uint(32), Uint(32), Uint(32)>>

--------------------------------------------------------------------------------
(* Writing. The values are those an encoder accepts: encode_receipt refuses a  *)
(* receipt without outcome, encode_transaction an OP-stack deposit.            *)

ListBytes(payload) == encode_header_bytes(TRUE, Len(payload)) \o payload

(* encode_receipt's first field: the state root when there is one.             *)
PutOutcome(x) == IF x.root # <<>> THEN EncodeBytes(x.root[1]) ELSE EncodeIntegral(x.status[1])

RECURSIVE Put(_, _), PutAll(_, _, _)
PutAll(ts, xs, n) ==
    IF n = 0 THEN <<>> ELSE PutAll(ts, xs, n - 1) \o Put(ts[n], xs[n])

(* encode_transaction; a typed one is prefixed with its type.                  *)
encode_transaction(tx) ==
    LET fs == TransactionFields(tx.type)
        ls == ListBytes(PutAll(fs, tx.fields, Len(fs)))
    IN  IF tx.type = kLegacy THEN ls ELSE <<tx.type>> \o ls

encode_block_header(h) ==
    ListBytes(PutAll(BlockHeaderFields, h.fields, Len(BlockHeaderFields))
              \o (IF h.base_fee = <<>> THEN <<>> ELSE EncodeIntegral(h.base_fee[1])))

Put(t, x) ==
    CASE t.k = "uint"   -> EncodeIntegral(x)
      [] t.k = "bool"   -> EncodeBool(x)
      [] t.k \in {"fixed", "bytes"} -> EncodeBytes(x)
      [] t.k = "raw"    -> x
      [] t.k = "maybe"  -> Put(t.of, IF x = <<>> THEN t.default ELSE x[1])
      [] t.k = "to"     -> EncodeBytes(IF x = <<>> THEN <<>> ELSE x[1])
      [] t.k = "outcome" -> PutOutcome(x)
      [] t.k = "listof" -> ListBytes(PutAll([i \in DOMAIN x |-> t.of], x, Len(x)))
      [] t.k \in {"struct", "lax", "longer"} -> ListBytes(PutAll(t.of, x, Len(t.of)))
      [] t.k = "item"   -> Put(t.of, x)
      [] t.k = "header" -> encode_block_header(x)
      [] t.k = "receipt" -> ListBytes(PutAll(ReceiptFields, x, Len(ReceiptFields)))
      [] t.k = "tx"     -> IF x.type = kLegacy THEN encode_transaction(x)
                           ELSE EncodeBytes(encode_transaction(x))

--------------------------------------------------------------------------------
(* Reading                                                                     *)

(* decode_status_or_state_root                                                 *)
OutcomeOf(v, r) ==
    CASE r.err # ""       -> r
      [] r.err = "" /\ Len(r.out) = 32 -> Read([root |-> <<r.out>>, status |-> <<>>], r.rest)
      [] r.err = "" /\ Len(r.out) \in {0, 1} ->
           Read([root |-> <<>>, status |-> <<IF r.out \in {<<>>, <<0>>} THEN 0 ELSE 1>>], r.rest)
      [] OTHER            -> Failed("kUnexpectedLength", v)
GetOutcome(v) == OutcomeOf(v, ReadBytes(v))

(* The recipient of a transaction: an empty string is none.                    *)
ToOf(v, h) ==
    IF h.err # "" THEN Failed(h.err, v)
    ELSE IF h.payload = 0 THEN Nothing(ReadBytes(v)) ELSE One(ReadArray(v, 20))
GetTo(v) == ToOf(v, PeekHeader(v))

(* consume_next_item: the item's bytes.                                        *)
ItemBytes(v, r) == IF r.err # "" THEN r ELSE Read(SubSeq(v, 1, Len(v) - Len(r.rest)), r.rest)
consume_next_item(v) == ItemBytes(v, SkipItem(v))

(* A mutant: where the list ends is not checked.                               *)
AnyEnd(r, target) == r

(* The reads of a list must end where the list ends.                           *)
AtEnd(r, target) ==
    IF r.err = "" /\ Len(r.rest) # target THEN Failed("kListLengthMismatch", r.rest) ELSE r

(* Fields read one after the other. The sequence is halved only to keep the    *)
(* recursion shallow.                                                          *)
RECURSIVE Get(_, _), GetAll(_, _), GetOn(_, _)
GetOn(a, ts)  == Joined(a, GetAll(a.rest, ts))
GetAll(v, ts) ==
    IF ts = <<>> THEN Read(<<>>, v)
    ELSE IF Len(ts) = 1 THEN One(Get(ts[1], v))
    ELSE GetOn(GetAll(v, SubSeq(ts, 1, Len(ts) \div 2)), Drop(ts, Len(ts) \div 2))

(* Items read while more than target bytes are left and none fails. The loop   *)
(* is written in rounds of 2^k items, again to keep the recursion shallow.     *)
RECURSIVE GetRound(_, _, _, _), GetRounds(_, _, _, _)
GetRound(k, t, v, target) ==
    IF Len(v) <= target THEN Read(<<>>, v)
    ELSE IF k = 0 THEN One(Get(t, v))
    ELSE LET a == GetRound(k - 1, t, v, target)
         IN  Joined(a, GetRound(k - 1, t, a.rest, target))

GetRounds(k, t, a, target) ==
    IF a.err # "" \/ Len(a.rest) <= target THEN a
    ELSE GetRounds(k + 1, t, Joined(a, GetRound(k, t, a.rest, target)), target)

GetWhile(t, v, target) == GetRounds(0, t, Read(<<>>, v), target)

SkipTo(v, target) == GetWhile(RawItem, v, target)

(* read_vector of integers of w bytes, from a copy of the list's payload.      *)
VectorOf(l, all) ==
    IF l.err # "" THEN l
    ELSE IF all.err # "" THEN Failed(all.err, l.rest) ELSE Read(all.out, Drop(l.rest, l.out))
ReadVector(v, w) ==
    LET l == ReadListHeader(v) IN VectorOf(l, GetWhile(Uint(w), SubSeq(l.rest, 1, l.out), 0))

(* A list with header l, down to its end: how its fields are read depends on   *)
(* its layout.                                                                 *)
Skipped(r, target) == Joined(r, Nothing(SkipTo(r.rest, target)))

GetList(t, l, target) ==
    IF l.err # "" THEN l
    ELSE AtEnd(IF t.k = "listof" THEN GetWhile(t.of, l.rest, target)
               ELSE IF t.k = "struct" THEN GetAll(l.rest, t.of)
               ELSE Skipped(GetAll(l.rest, t.of), target), target)

(* The fields after a list's header, wherever the list ends.                   *)
Fields(ts, l) == IF l.err # "" THEN l ELSE GetAll(l.rest, ts)

(* decode_block_header: an optional base fee, then items that are skipped.     *)
BaseFee(r) == IF r.err # "" THEN r
              ELSE IF r.rest = <<>> THEN Read(<<>>, r.rest) ELSE One(ReadIntegral(r.rest, 32))
HeaderOf(r, fee, end) ==
    IF fee.err # "" THEN fee ELSE IF end.err # "" THEN end
    ELSE Read([fields |-> r.out, base_fee |-> fee.out], end.rest)
WithFee(r, fee) == HeaderOf(r, fee, SkipTo(fee.rest, 0))
decode_block_header(v) ==
    LET r == Fields(BlockHeaderFields, ReadListHeader(v)) IN WithFee(r, BaseFee(r))

(* decode_receipt: a byte below the list prefixes is taken for a type.         *)
decode_receipt(v) ==
    Fields(ReceiptFields,
           ReadListHeader(IF v # <<>> /\ v[1] < kRlpListPrefixMin THEN Tail(v) ELSE v))

(* decode_transaction: nothing checks that the list ends with its last field.  *)
TransactionOf(type, r) == IF r.err # "" THEN r ELSE Read([type |-> type, fields |-> r.out], r.rest)
decode_transaction(v) ==
    LET type == IF v[1] >= kRlpListPrefixMin THEN kLegacy ELSE v[1]
        list == IF type = kLegacy THEN v ELSE Tail(v)
    IN  IF v = <<>> THEN Failed("kInputTooShort", v)
        ELSE IF v[1] = kOpDeposit THEN Read([type |-> kOpDeposit, fields |-> <<>>], Tail(v))
        ELSE IF v[1] < kRlpListPrefixMin /\ v[1] \notin {kAccessList, kDynamicFee}
             THEN Failed("kUnexpectedString", v)
        ELSE TransactionOf(type, Fields(TransactionFields(type), ReadListHeader(list)))

(* What was read from an item of its own; the view continues after the item.   *)
Within(item, r) == IF item.err # "" THEN item ELSE IF r.err # "" THEN r ELSE Read(r.out, item.rest)

(* An item of a transaction list: a typed transaction comes as a string.       *)
TransactionItem(v, h) ==
    IF h.err # "" THEN Failed(h.err, v)
    ELSE IF ~h.list /\ h.payload > 0 THEN ReadBytes(v) ELSE consume_next_item(v)
InTransaction(item) == Within(item, decode_transaction(item.out))
GetTransaction(v) == InTransaction(TransactionItem(v, PeekHeader(v)))

Get(t, v) ==
    CASE t.k = "uint"   -> ReadIntegral(v, t.n)
      [] t.k = "bool"   -> ReadBool(v)
      [] t.k = "fixed"  -> ReadArray(v, t.n)
      [] t.k = "bytes"  -> ReadBytes(v)
      [] t.k = "raw"    -> consume_next_item(v)
      [] t.k = "maybe"  -> One(Get(t.of, v))
      [] t.k = "to"     -> GetTo(v)
      [] t.k = "outcome" -> GetOutcome(v)
      [] t.k \in {"listof", "struct", "longer"} -> 
           LET l == ReadListHeader(v) IN GetList(t, l, Len(l.rest) - l.out)
      [] t.k = "lax"    -> Fields(t.of, ReadListHeader(v))
      [] t.k = "item"   -> LET i == consume_next_item(v) IN Within(i, Get(t.of, i.out))
      [] t.k = "header"  -> decode_block_header(v)
      [] t.k = "receipt" -> decode_receipt(v)
      [] t.k = "tx"      -> GetTransaction(v)

================================================================================
