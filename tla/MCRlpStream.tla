------------------------------ MODULE MCRlpStream ------------------------------
(* RlpStream on small inputs, and the abstract builder it implements.          *)
EXTENDS RlpStream

Fill(n, b) == [i \in 1..n |-> b]

MCStrings == {<<>>, <<127>>, Fill(54, 7), Fill(55, 7), Fill(56, 7)}
MCNumbers == {0, 127, 128, 256}
MCVectors == {<<0, 300>>}
MCRaw     == {<<193, 192>>}
MCPieces  == {<<5>>, <<200>>, Fill(55, 9)}

(* One-byte payloads below 128 are streamed as 0x81 and the byte, a form that  *)
(* the readers refuse; the mapping reads it as the string it is meant to be.   *)
ItemHeader(v) ==
    IF v[1] = 129 THEN [err |-> "", list |-> FALSE, header |-> 1, payload |-> 1]
                  ELSE PeekHeader(v)

RECURSIVE ItemsOf(_)
ItemsOf(view) ==
    Bind(view, LAMBDA v :
        IF v = <<>> THEN <<>>
        ELSE Bind(ItemHeader(v), LAMBDA h :
             << [list  |-> h.list,
                 str   |-> IF h.list THEN <<>> ELSE Payload(v, h),
                 items |-> IF h.list THEN ItemsOf(Payload(v, h)) ELSE <<>>] >>
             \o ItemsOf(AfterItem(v, h))))

(* The lists the client has open, and the bytes that are the client's items.   *)
Opened == IF wr.started THEN Front(starts) ELSE starts
End_   == IF wr.kind = "none" THEN Len(buffer) ELSE wr.at

Bound(k) == IF k = 0 THEN 0 ELSE IF k > Len(Opened) THEN End_ ELSE Opened[k]

MapStack == [k \in 1..(Len(Opened) + 1) |-> ItemsOf(SubSeq(buffer, Bound(k - 1) + 1, Bound(k)))]

Builder == INSTANCE ItemBuilder WITH
    Items  <- {[list |-> FALSE, str |-> s, items |-> <<>>] :
                  s \in MCStrings \cup {<<>>, <<1>>, <<127>>, <<128>>, <<1, 0>>}}
              \cup {[list |-> TRUE, str |-> <<>>, items |-> ItemsOf(<<192>>)],
                    [list |-> TRUE, str |-> <<>>, items |-> ItemsOf(<<128, 130, 1, 44>>)]},
    stack  <- MapStack,
    part   <- CASE wr.kind = "none"   -> <<>>
                [] wr.kind = "string" -> Drop(buffer, wr.at + 9)
                [] wr.kind = "list"   ->
                     LET chunks == ItemsOf(Drop(buffer, wr.at))
                     IN  FlattenSeq([i \in DOMAIN chunks |-> chunks[i].str]) \o wr.pending,
    stream <- wr.kind,
    chunk  <- wr.chunk

(* RlpEncoder and the streaming writers implement the abstract builder: the    *)
(* bytes between the recorded list starts always hold the items added there,   *)
(* and a streamed payload joins them whole when its stream is finished.        *)
BuilderSpec == Builder!Spec

Refused == last.kind = "string" /\ Len(last.given) = 1 /\ last.given[1] < kShortStringOffset

(* What was streamed comes back. The chunks a reader returns are, in order, a  *)
(* prefix of the payload, all of it once the reader says it is finished, and   *)
(* no read fails. (A one-byte payload below 0x80 streamed as a large string is *)
(* the one exception: its reads all fail with kNonCanonicalSize.) After the    *)
(* end of a large string remaining() is what follows it, so that a reader can  *)
(* be chained to the next item. A chunked payload is also given back whole by  *)
(* one call of decodeChunkedListFull, and the size peeked for it, before or    *)
(* between reads, is the number of bytes streamed.                             *)
ReadsBackStream ==
    /\ rd.kind # "none" =>
         /\ IsPrefix(got, last.given)
         /\ ReaderFinished => got = last.given
         /\ rd.err # "" => (Refused /\ rd.err = "kNonCanonicalSize")
         /\ Refused => ~rd.init
    /\ rd.kind = "string" /\ ReaderFinished =>
         buffer = SubSeq(buffer, 1, last.at)
                  \o encode_header_bytes(FALSE, Len(last.given)) \o last.given \o rd.view
    /\ last.kind = "list" /\ starts = <<>> /\ Writing =>
         decodeChunkedListFull(Drop(buffer, last.at)).out = last.given
    /\ rd.kind = "list" /\ rd.total > 0 /\ last.given # <<>> => rd.total = Len(last.given)

================================================================================
