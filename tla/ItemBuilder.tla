------------------------------ MODULE ItemBuilder ------------------------------
(* What the RLP encoder promises, without bytes: it builds a sequence of items *)
(* with a stack of lists still open; a string or a closed list becomes the     *)
(* last item of the innermost open list. A payload may also arrive in pieces;  *)
(* it joins the items, whole, when its stream is closed.                       *)
EXTENDS Naturals, Sequences, SequencesExt

CONSTANTS Items,      \* the items a client adds at once
          Pieces,     \* the pieces in which payloads arrive
          ChunkSizes  \* chunk sizes of payloads that become a list of chunks

VARIABLES stack,      \* stack[1]: the items; stack[k + 1]: those of the k-th open list
          part,       \* what has arrived of a payload in pieces
          stream,     \* "none", "string" (to become one string) or "list" (of chunks)
          chunk       \* the chunk size of a "list" stream, otherwise 0

vars == <<stack, part, stream, chunk>>

Str(s)  == [list |-> FALSE, str |-> s, items |-> <<>>]
Lst(is) == [list |-> TRUE, str |-> <<>>, items |-> is]

Top == Len(stack)
Put(item) == [stack EXCEPT ![Top] = Append(@, item)]

(* A payload cut into chunks of n bytes, the last one possibly shorter.        *)
Chunked(s, n) ==
    [k \in 1..((Len(s) + n - 1) \div n) |->
        Str(SubSeq(s, (k - 1) * n + 1, IF k * n < Len(s) THEN k * n ELSE Len(s)))]

Init == stack = << <<>> >> /\ part = <<>> /\ stream = "none" /\ chunk = 0

Idle  == stream = "none" /\ UNCHANGED <<part, stream, chunk>>

Add   == Idle /\ \E i \in Items : stack' = Put(i)
Begin == Idle /\ stack' = Append(stack, <<>>)
End   == /\ Idle /\ Top > 1
         /\ stack' = [Front(stack) EXCEPT ![Top - 1] = Append(@, Lst(Last(stack)))]
Clear == Idle /\ stack' = << <<>> >>

Open  == /\ stream = "none"
         /\ \/ stream' = "string" /\ chunk' = 0 /\ Top = 1
            \/ stream' = "list" /\ chunk' \in ChunkSizes
         /\ UNCHANGED <<part, stack>>
Piece == /\ stream # "none"
         /\ \E c \in Pieces : part' = part \o c
         /\ UNCHANGED <<stack, stream, chunk>>
Close == /\ stream # "none"
         /\ stack' = Put(IF stream = "string" THEN Str(part) ELSE Lst(Chunked(part, chunk)))
         /\ part' = <<>> /\ stream' = "none" /\ chunk' = 0

Next == Add \/ Begin \/ End \/ Clear \/ Open \/ Piece \/ Close

Spec == Init /\ [][Next]_vars
================================================================================
