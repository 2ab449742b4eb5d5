------------------------------- MODULE RlpStream -------------------------------
(* RlpEncoder and the streaming writers and readers built on it                *)
(* (rlp_encoder.cpp, rlp_streaming.cpp). A client adds items, opens and closes *)
(* lists, streams a payload as one string or as a list of chunks, and reads    *)
(* the last streamed payload back in chunks. While a stream is open the client *)
(* uses the encoder through it only. Calls that report an error and change     *)
(* nothing (EndList without a list, a large string inside an open list, a call *)
(* on a finished stream, AddRaw of nothing, a chunk size of zero) are guards.  *)
EXTENDS Rlp

CONSTANTS Strings, Numbers, Vectors,  \* what add() is given
          Raw,                        \* encoded items given to AddRaw()
          Pieces, ChunkSizes,         \* what streams are given
          ReadSizes,                  \* max_chunk_size of readChunk()
          MaxAdds, MaxCalls           \* bounds on the add calls and on the writers' other calls

VARIABLES buffer,   \* buffer_
          starts,   \* list_start_positions_
          wr,       \* the open writer stream
          last,     \* the last finished stream: kind, place in buffer, bytes given
          rd,       \* the streaming reader
          got,      \* what the reader has returned, in order
          adds, calls

vars == <<buffer, starts, wr, last, rd, got, adds, calls>>

NoWriter == [kind |-> "none", at |-> 0, size |-> 0, pending |-> <<>>,
             started |-> FALSE, chunk |-> 0, given |-> <<>>]
NoReader == [kind |-> "none", view |-> <<>>, list |-> <<>>, size |-> 0,
             index |-> 0, total |-> 0, init |-> FALSE, err |-> ""]
NoStream == [kind |-> "none", at |-> 0, given |-> <<>>]

Init == /\ buffer = <<>> /\ starts = <<>> /\ wr = NoWriter
        /\ last = NoStream /\ rd = NoReader /\ got = <<>> /\ adds = 0 /\ calls = 0

Call    == calls < MaxCalls /\ calls' = calls + 1 /\ UNCHANGED adds
AddCall == adds < MaxAdds /\ adds' = adds + 1 /\ UNCHANGED calls
Writing == wr.kind = "none" /\ rd.kind = "none"   \* the encoder is in the client's hands

--------------------------------------------------------------------------------
(* RlpEncoder                                                                  *)

Append_(bs) == /\ AddCall /\ Writing /\ buffer' = buffer \o bs
               /\ UNCHANGED <<starts, wr, last, rd, got>>

AddBytes    == \E s \in Strings : Append_(EncodeBytes(s))
AddIntegral == \E n \in Numbers : Append_(EncodeIntegral(n))
AddBool     == \E b \in BOOLEAN : Append_(EncodeBool(b))
AddRaw      == \E r \in Raw     : Append_(r)

(* A mutant: the header is put in front of the whole buffer.                   *)
EndListAtFront(buf, start) ==
    encode_header_bytes(TRUE, Len(buf) - start) \o buf

(* EndList: the header goes in front of what was added since BeginList.        *)
EndListAt(buf, start) ==
    LET payload == Drop(buf, start)
    IN  SubSeq(buf, 1, start) \o encode_header_bytes(TRUE, Len(payload)) \o payload

(* add(vector), add(span): BeginList, the items, EndList.                      *)
AddVector == \E ns \in Vectors :
    Append_(EndListAt(FoldLeft(LAMBDA a, n : a \o EncodeIntegral(n), <<>>, ns), 0))

BeginList == /\ Call /\ Writing /\ starts' = Append(starts, Len(buffer))
             /\ UNCHANGED <<buffer, wr, last, rd, got>>

EndList == /\ Call /\ Writing /\ starts # <<>>
           /\ buffer' = EndListAt(buffer, Last(starts))
           /\ starts' = Front(starts)
           /\ UNCHANGED <<wr, rd, got>>
           /\ last' = IF last.at >= Last(starts) THEN NoStream ELSE last

(* clear(), and MoveBytes() once every list is closed, leave an empty encoder. *)
Clear == /\ Call /\ Writing /\ buffer' = <<>> /\ starts' = <<>>
         /\ last' = NoStream /\ UNCHANGED <<wr, rd, got>>

--------------------------------------------------------------------------------
(* RlpLargeStringEncoder: nine bytes are reserved for the header, which finish *)
(* patches before it moves the payload down.                                   *)

LargeCreate == /\ Call /\ Writing /\ starts = <<>>
               /\ buffer' = buffer \o [i \in 1..9 |-> 0]
               /\ wr' = [NoWriter EXCEPT !.kind = "string", !.at = Len(buffer)]
               /\ UNCHANGED <<starts, last, rd, got>>

LargeAddChunk == /\ Call /\ wr.kind = "string"
                 /\ \E c \in Pieces :
                      /\ buffer' = buffer \o c
                      /\ wr' = [wr EXCEPT !.size = @ + Len(c), !.given = @ \o c]
                 /\ UNCHANGED <<starts, last, rd, got>>

PatchHeader(buf, at, size) ==
    SubSeq(buf, 1, at) \o encode_header_bytes(FALSE, size) \o SubSeq(buf, at + 10, at + 9 + size)

Finished == last' = [kind |-> wr.kind, at |-> wr.at, given |-> wr.given] /\ wr' = NoWriter

(* finish(), by the client or by the destructor.                               *)
LargeFinish == /\ Call /\ wr.kind = "string"
               /\ buffer' = PatchHeader(buffer, wr.at, wr.size)
               /\ Finished /\ UNCHANGED <<starts, rd, got>>

--------------------------------------------------------------------------------
(* RlpChunkedListEncoder: full chunks are added to a list that the first data  *)
(* opens.                                                                      *)

ChunkedCreate == /\ Call /\ Writing
                 /\ \E n \in ChunkSizes :
                      wr' = [NoWriter EXCEPT !.kind = "list", !.at = Len(buffer), !.chunk = n]
                 /\ UNCHANGED <<buffer, starts, last, rd, got>>

(* How much of the data the flushes of addChunk take: whole chunks.            *)
Flushed(data, n) == (Len(data) \div n) * n

EncodeChunks(data, n) ==
    FlattenSeq([k \in 1..(Len(data) \div n) |-> EncodeBytes(SubSeq(data, (k - 1) * n + 1, k * n))])

ChunkedAddChunk ==
    /\ Call /\ wr.kind = "list"
    /\ starts' = IF wr.started THEN starts ELSE Append(starts, Len(buffer))
    /\ \E c \in Pieces :
         LET data == wr.pending \o c
             full == Flushed(data, wr.chunk)
         IN  /\ buffer' = buffer \o EncodeChunks(SubSeq(data, 1, full), wr.chunk)
             /\ wr' = [wr EXCEPT !.started = TRUE, !.pending = Drop(data, full),
                                 !.size = @ + Len(c), !.given = @ \o c]
    /\ UNCHANGED <<last, rd, got>>

(* finish(): what is pending becomes the last chunk; without data, an empty    *)
(* list is written.                                                            *)
ChunkedFinish ==
    /\ Call /\ wr.kind = "list"
    /\ LET items == buffer \o (IF wr.pending = <<>> THEN <<>> ELSE EncodeBytes(wr.pending))
       IN  buffer' = EndListAt(items, IF wr.started THEN Last(starts) ELSE Len(buffer))
    /\ starts' = IF wr.started THEN Front(starts) ELSE starts
    /\ Finished /\ UNCHANGED <<rd, got>>

--------------------------------------------------------------------------------
(* The readers, on a copy of the finished bytes from the streamed item on.     *)

OpenReader == /\ UNCHANGED <<adds, calls>> /\ Writing /\ starts = <<>> /\ last.kind # "none"
              /\ rd' = [NoReader EXCEPT !.kind = last.kind, !.view = Drop(buffer, last.at)]
              /\ got' = <<>>
              /\ UNCHANGED <<buffer, starts, wr, last>>

CloseReader == /\ UNCHANGED <<adds, calls>> /\ rd.kind # "none" /\ rd' = NoReader /\ got' = <<>>
               /\ UNCHANGED <<buffer, starts, wr, last>>

ReadError(e) == rd' = [rd EXCEPT !.err = e] /\ UNCHANGED got

(* RlpLargeStringDecoder::readChunk; an empty chunk once all is read.          *)
LargeReadChunk(max) ==
    LET h    == PeekHeader(rd.view)
        view == IF rd.init THEN rd.view ELSE Drop(rd.view, h.header)
        size == IF rd.init THEN rd.size ELSE h.payload
        n    == IF size - rd.index < max THEN size - rd.index ELSE max
    IN  \/ ~rd.init /\ h.err # "" /\ ReadError(h.err)
        \/ ~rd.init /\ h.err = "" /\ h.list /\ ReadError("kUnexpectedList")
        \/ /\ rd.init \/ (h.err = "" /\ ~h.list)
           /\ rd' = [rd EXCEPT !.init = TRUE, !.view = Drop(view, n), !.size = size,
                               !.index = @ + n, !.err = ""]
           /\ got' = got \o SubSeq(view, 1, n)

(* The chunks of a list's payload, by scanning their headers: how many they    *)
(* are and how many bytes they hold.                                           *)
RECURSIVE ScanChunks(_, _, _)
ScanChunks(payload, n, total) ==
    Bind(payload, LAMBDA p : Bind(PeekHeader(p), LAMBDA h :
        IF p = <<>> THEN [n |-> n, total |-> total, err |-> ""]
        ELSE IF h.err # "" THEN [n |-> 0, total |-> 0, err |-> h.err]
        ELSE IF h.list THEN [n |-> 0, total |-> 0, err |-> "kUnexpectedList"]
        ELSE ScanChunks(AfterItem(p, h), n + 1, total + h.payload)))

(* RlpChunkedListDecoder::peekTotalSize and peekChunkCount                     *)
PeekTotalSize ==
    LET h    == PeekHeader(rd.view)
        scan == ScanChunks(Payload(rd.view, h), 0, 0)
    IN  /\ UNCHANGED <<adds, calls>> /\ rd.kind = "list"
        /\ rd' = IF (rd.init /\ rd.total > 0) \/ h.err # "" \/ ~h.list \/ scan.err # ""
                 THEN rd      \* the cached sizes, or an error
                 ELSE [rd EXCEPT !.total = scan.total, !.size = scan.n]
        /\ UNCHANGED <<buffer, starts, wr, last, got>>

(* RlpChunkedListDecoder::readChunk. The view stays at the list's payload.     *)
ChunkedReadChunk ==
    LET h    == PeekHeader(rd.view)
        view == IF rd.init THEN rd.view ELSE Drop(rd.view, h.header)
        list == IF rd.init THEN rd.list ELSE Payload(rd.view, h)
        scan == ScanChunks(list, 0, 0)
        size == IF rd.init \/ rd.size # 0 THEN rd.size ELSE scan.n
        done == rd.index >= size \/ list = <<>>
        c    == PeekHeader(list)
    IN  \/ ~rd.init /\ h.err # "" /\ ReadError(h.err)
        \/ ~rd.init /\ h.err = "" /\ ~h.list /\ ReadError("kUnexpectedString")
        \/ /\ ~rd.init /\ h.err = "" /\ h.list /\ rd.size = 0 /\ scan.err # ""
           /\ rd' = [rd EXCEPT !.view = view, !.list = list, !.err = scan.err]
           /\ UNCHANGED got
        \/ /\ rd.init \/ (h.err = "" /\ h.list /\ (rd.size # 0 \/ scan.err = ""))
           /\ rd' = [rd EXCEPT !.init = TRUE, !.size = size, !.err = "",
                        !.view  = IF done THEN Drop(view, Len(list)) ELSE view,
                        !.index = IF done THEN @ ELSE @ + 1,
                        !.list  = IF done THEN <<>> ELSE AfterItem(list, c)]
           /\ got' = got \o (IF done THEN <<>> ELSE Payload(list, c))

(* The loop of decodeChunkedList: readChunk until it returns an empty chunk.   *)
RECURSIVE ChunksUntilEmpty(_, _)
ChunksUntilEmpty(list, data) ==
    Bind(list, LAMBDA l : Bind(PeekHeader(l), LAMBDA h :
        IF l = <<>> \/ h.payload = 0 THEN data
        ELSE ChunksUntilEmpty(AfterItem(l, h), data \o Payload(l, h))))

decodeChunkedListFull(v) ==
    LET h    == PeekHeader(v)
        scan == ScanChunks(Payload(v, h), 0, 0)
    IN  IF h.err # "" THEN Failed(h.err, v)
        ELSE IF ~h.list THEN Failed("kUnexpectedString", v)
        ELSE IF scan.err # "" THEN Failed(scan.err, v)
        ELSE Read(ChunksUntilEmpty(Payload(v, h), <<>>), v)

ReadChunk == /\ UNCHANGED <<adds, calls>>
             /\ \/ rd.kind = "string" /\ \E max \in ReadSizes : LargeReadChunk(max)
                \/ rd.kind = "list" /\ ChunkedReadChunk
             /\ UNCHANGED <<buffer, starts, wr, last>>

(* A mutant: the last chunk is not waited for.                                 *)
ReaderFinishedEarly == rd.init /\ rd.index + 1 >= rd.size

ReaderFinished == rd.init /\ rd.index >= rd.size

--------------------------------------------------------------------------------
Next == \/ AddBytes \/ AddIntegral \/ AddBool \/ AddRaw \/ AddVector
        \/ BeginList \/ EndList \/ Clear
        \/ LargeCreate \/ LargeAddChunk \/ LargeFinish
        \/ ChunkedCreate \/ ChunkedAddChunk \/ ChunkedFinish
        \/ OpenReader \/ PeekTotalSize \/ ReadChunk \/ CloseReader

Spec == Init /\ [][Next]_vars
================================================================================
