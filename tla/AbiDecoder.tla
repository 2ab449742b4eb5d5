------------------------------- MODULE AbiDecoder -------------------------------
(* The values of a log (src/src/eth/abi_decoder.cpp). A word is 32 bytes; a    *)
(* uint256 is the sequence of its significant bytes. Offsets and lengths of    *)
(* TooLong and more are beyond every buffer; that an offset within a word of   *)
(* 2^64 wraps around is not modelled.                                          *)
EXTENDS Rlp

kAbiWordSize       == 32
kAbiAddressPadding == 12

(* The significant bytes of a big-endian integer, and the integer in n bytes.  *)
Significant(bs) ==
    LET nz == {i \in DOMAIN bs : bs[i] # 0}
    IN  IF nz = {} THEN <<>> ELSE Drop(bs, (CHOOSE i \in nz : \A j \in nz : i <= j) - 1)
Padded(sig, n) == [i \in 1..n |-> IF i <= n - Len(sig) THEN 0 ELSE sig[i - (n - Len(sig))]]

read_uint256_be(word) == Significant(word)

is_dynamic(kind) == kind \in {"bytes", "string"}

decode_abi_word(word, kind) ==
    CASE kind = "address"          -> Drop(word, kAbiAddressPadding)
      [] kind \in {"uint", "int"}  -> read_uint256_be(word)
      [] kind = "bytes32"          -> word
      [] kind = "bool"             -> << IF word[kAbiWordSize] # 0 THEN 1 ELSE 0 >>
      [] is_dynamic(kind)          -> <<>>

decode_indexed_param(topic, param) == decode_abi_word(topic, param.kind)

Word(data, at) == SubSeq(data, at + 1, at + kAbiWordSize)

(* A word used as an offset or a length.                                       *)
SizeWord(word) ==
    LET n == read_uint256_be(word)
    IN  IF Len(n) > 8 THEN [err |-> "kOverflow", out |-> 0] ELSE [err |-> "", out |-> BigEndian(n)]

(* The bytes that n bytes from at on hold.                                     *)
Content(data, at, n) ==
    IF Len(data) < at + n THEN Failed("kInputTooShort", data)
    ELSE Read(SubSeq(data, at + 1, at + n), data)

DynamicValue(data, head) ==
    Then(SizeWord(Word(data, head)), LAMBDA offset :
    Then(Content(data, offset.out, kAbiWordSize), LAMBDA word :
    Then(SizeWord(word.out), LAMBDA len :
         Content(data, offset.out + kAbiWordSize, len.out))))

DataValue(data, kind, head) ==
    IF is_dynamic(kind) THEN DynamicValue(data, head)
    ELSE Read(decode_abi_word(Word(data, head), kind), data)

(* The first failure of a sequence of reads, else what they read.              *)
AllOf(rs) ==
    IF \E i \in DOMAIN rs : rs[i].err # ""
    THEN rs[CHOOSE i \in DOMAIN rs : rs[i].err # "" /\ \A j \in 1..(i - 1) : rs[j].err = ""]
    ELSE Read([i \in DOMAIN rs |-> rs[i].out], <<>>)

decode_log_data(data, params) ==
    IF params = <<>> THEN Read(<<>>, <<>>)
    ELSE IF Len(data) < Len(params) * kAbiWordSize THEN Failed("kInputTooShort", data)
    ELSE AllOf([i \in DOMAIN params |-> DataValue(data, params[i].kind, (i - 1) * kAbiWordSize)])

(* The values of the indexed parameters come first, from the topics after the  *)
(* signature, then the others, from the data.                                  *)
decode_log(topics, data, sig, params) ==
    LET indexed == SelectSeq(params, LAMBDA p : p.indexed)
    IN  IF topics = <<>> THEN Failed("kInputTooShort", <<>>)
        ELSE IF topics[1] # sig THEN Failed("kUnexpectedString", <<>>)
        ELSE IF Len(topics) <= Len(indexed) THEN Failed("kInputTooShort", <<>>)
        ELSE Then(decode_log_data(data, SelectSeq(params, LAMBDA p : ~p.indexed)), LAMBDA r :
             Read([i \in DOMAIN indexed |-> decode_indexed_param(topics[i + 1], indexed[i])] \o r.out, <<>>))

--------------------------------------------------------------------------------
(* What a contract emits (the EVM's ABI, which is not in the repository):      *)
(* a topic for each indexed value, in the data a word for each other value,    *)
(* and for a dynamic one the offset of its length and padded bytes.            *)

WordOf(kind, value) ==
    IF is_dynamic(kind) THEN [i \in 1..32 |-> 85]  \* the hash of the value
    ELSE Padded(value, kAbiWordSize)

Tail32(value) ==
    Padded(to_big_compact(Len(value)), 32) \o value
    \o [i \in 1..((32 - (Len(value) % 32)) % 32) |-> 0]

AbiTopics(sig, params, values) ==
    LET indexed == SelectSeq(params, LAMBDA p : p.indexed)
    IN  <<sig>> \o [i \in DOMAIN indexed |-> WordOf(indexed[i].kind, values[i])]

AbiData(params, values) ==
    LET ps    == SelectSeq(params, LAMBDA p : ~p.indexed)
        vs    == Drop(values, Len(params) - Len(ps))
        tails == [i \in DOMAIN ps |-> IF is_dynamic(ps[i].kind) THEN Tail32(vs[i]) ELSE <<>>]
        start(i) == 32 * Len(ps) + FoldLeft(LAMBDA n, t : n + Len(t), 0, SubSeq(tails, 1, i - 1))
        head(i)  == IF is_dynamic(ps[i].kind) THEN Padded(to_big_compact(start(i)), 32)
                    ELSE WordOf(ps[i].kind, vs[i])
    IN  FlattenSeq([i \in DOMAIN ps |-> head(i)]) \o FlattenSeq(tails)
================================================================================
