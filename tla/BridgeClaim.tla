------------------------------ MODULE BridgeClaim ------------------------------
(* The payload of a bridge event claim, which observers sign                   *)
(* (src/src/eth/bridge_observation.cpp, src/include/base/byte_encoding.hpp). A *)
(* claim is the sequence of its fields; integers are the sequences of their    *)
(* significant bytes.                                                          *)
EXTENDS AbiDecoder

kBridgeEventDomain ==   \* "GNUS_BRIDGE_EVENT_V1"
    <<71, 78, 85, 83, 95, 66, 82, 73, 68, 71, 69, 95, 69, 86, 69, 78, 84, 95, 86, 49>>

append_be(sig, n)      == Padded(sig, n)
append_array(bs)       == bs
append_length(n)       == Padded(to_big_compact(n), 8)
append_length_prefixed_bytes(bs)  == append_length(Len(bs)) \o bs
append_length_prefixed_arrays(xs) == append_length(Len(xs)) \o FlattenSeq(xs)

(* The fields, in the order of the payload.                                    *)
Num(n)   == [k |-> "int", n |-> n]
Array(n) == [k |-> "array", n |-> n]
Arrays   == [k |-> "arrays", n |-> 32]
Buffer   == [k |-> "buffer"]

ClaimFields ==
    << Num(8), Num(8), Array(20),                  \* src and dest chain, bridge contract
       Num(8), Array(32), Array(32), Num(4),       \* block number and hash, tx hash, log index
       Array(32), Arrays, Buffer,                  \* topic0, topics, data
       Array(20), Num(32), Num(32), Array(20),     \* sender, nonce, amount, recipient
       Num(8), Num(8) >>                           \* observed at, finality depth

Append_(f, x) ==
    CASE f.k = "int"    -> append_be(x, f.n)
      [] f.k = "array"  -> append_array(x)
      [] f.k = "arrays" -> append_length_prefixed_arrays(x)
      [] f.k = "buffer" -> append_length_prefixed_bytes(x)

bridge_event_claim_payload(claim) ==
    kBridgeEventDomain \o FlattenSeq([i \in DOMAIN ClaimFields |-> Append_(ClaimFields[i], claim[i])])

--------------------------------------------------------------------------------
(* PayloadReader                                                               *)

read_array(v, n) == IF Len(v) < n THEN Failed("short", v) ELSE Read(SubSeq(v, 1, n), Drop(v, n))

read_domain(v) ==
    Then(read_array(v, Len(kBridgeEventDomain)), LAMBDA r :
        IF r.out # kBridgeEventDomain THEN Failed("domain", v) ELSE r)

read_int(v, n) == Then(read_array(v, n), LAMBDA r : Read(Significant(r.out), r.rest))

read_u64(v) == Then(read_array(v, 8), LAMBDA r : Read(BigEndian(Significant(r.out)), r.rest))

read_length_prefixed_arrays(v, n) ==
    Then(read_u64(v), LAMBDA count :
        IF count.out > Len(count.rest) \div n THEN Failed("short", v)
        ELSE Read([i \in 1..count.out |-> SubSeq(count.rest, n * (i - 1) + 1, n * i)],
                  Drop(count.rest, n * count.out)))

read_length_prefixed_bytes(v) ==
    Then(read_u64(v), LAMBDA len : read_array(len.rest, len.out))

ReadField(f, v) ==
    CASE f.k = "int"    -> read_int(v, f.n)
      [] f.k = "array"  -> read_array(v, f.n)
      [] f.k = "arrays" -> read_length_prefixed_arrays(v, f.n)
      [] f.k = "buffer" -> read_length_prefixed_bytes(v)

finished(v) == v = <<>>

decode_bridge_event_claim_payload(v) ==
    LET next(a, f) == Then(a, LAMBDA r :
                      Then(ReadField(f, r.rest), LAMBDA x : Read(Append(r.out, x.out), x.rest)))
    IN  Then(read_domain(v), LAMBDA d :
        Then(FoldLeft(next, Read(<<>>, d.rest), ClaimFields), LAMBDA r :
             IF finished(r.rest) THEN r ELSE Failed("trailing", v)))
================================================================================
