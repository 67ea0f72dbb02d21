-------------------------------- MODULE Buffer --------------------------------
(***************************************************************************)
(* buffer.c: the list of chunks behind a connection's bin and bout, byte   *)
(* by byte.  The other modules keep whole lines in bin and bout; that this *)
(* is sound - lines come out whole, in order and once, however the bytes   *)
(* arrived - is what BufferRefined says.                                   *)
(*                                                                         *)
(* The list from head to tail is a sequence.  Memory is not modelled: a    *)
(* chunk header that buffer_get_line forgets to free (152-160) is lost to  *)
(* the process, not to the buffer.                                         *)
(***************************************************************************)
EXTENDS Integers, SequencesExt

CONSTANTS Bytes, NL, Null,
          MaxPiece,      \* bound: the longest piece put in at a time
          MaxBytes       \* bound: the most the buffer holds

ASSUME BytesAssumption == NL \in Bytes
ASSUME BoundsAssumption == MaxPiece \in Nat /\ MaxBytes \in Nat

VARIABLES chunks,   \* the bytes of each chunk, from head to tail
          size,     \* the field of the same name
          last      \* the last operation and what it returned

vars == <<chunks, size, last>>

Data == FlattenSeq(chunks)
Pieces == BoundedSeq(Bytes, MaxPiece)

Operations == {"none", "put", "get_line", "get", "finish"}
Returns(op, r) == last' = [op |-> op, ret |-> r]

TypeOK == /\ chunks \in Seq(Seq(Bytes))
          /\ size \in Nat
          /\ last \in [op : Operations, ret : Seq(Bytes) \cup {Null}]

Init == chunks = <<>> /\ size = 0 /\ last = [op |-> "none", ret |-> Null]

(* memchr finds the first newline at the very end: one complete line.      *)
IsLine(s) == s # <<>> /\ SelectInSeq(s, LAMBDA b : b = NL) = Len(s)

buffer_put(s) ==
    /\ Len(Data) + Len(s) <= MaxBytes
    /\ chunks' = Append(chunks, s)
    /\ size' = size + Len(s)
    /\ Returns("put", Null)

(* Mutant: a line once begun is continued for ever.                        *)
AddBytesToLast(a, s) ==
    IF s = <<>> THEN a
    ELSE [ list   |-> IF a.inLine THEN Append(Front(a.list), Last(a.list) \o s)
                                  ELSE Append(a.list, s),
           inLine |-> TRUE ]

(* compact_buffer_to_lines.  a.list is the list being built, a.inLine says *)
(* that its last chunk is a line still to be continued.                    *)
AddBytes(a, s) ==
    IF s = <<>> THEN a
    ELSE [ list   |-> IF a.inLine THEN Append(Front(a.list), Last(a.list) \o s)
                                  ELSE Append(a.list, s),
           inLine |-> Last(s) # NL ]

(* The lines of s, and what follows the last newline as a last, perhaps    *)
(* empty, piece.                                                           *)
Ending(s, i) == {j \in i .. Len(s) : s[j] = NL}
SplitLines(s) ==
    LET starts == {1} \cup {i + 1 : i \in Ending(s, 1)}
        piece(i) == SubSeq(s, i, IF Ending(s, i) = {} THEN Len(s)
                                 ELSE CHOOSE j \in Ending(s, i) : \A k \in Ending(s, i) : j <= k)
    IN  [n \in 1 .. Cardinality(starts) |->
           piece(CHOOSE i \in starts : Cardinality({j \in starts : j < i}) = n - 1)]

(* Mutant: a chunk that is one line is kept even where a line goes on.     *)
AddChunkAlone(a, old) ==
    IF IsLine(old)
      THEN [list |-> Append(a.list, old), inLine |-> FALSE]
      ELSE FoldLeft(AddBytes, a, SplitLines(old))

(* A chunk that is one line, where a line may start, is kept as it is.     *)
AddChunk(a, old) ==
    IF ~a.inLine /\ IsLine(old)
      THEN [a EXCEPT !.list = Append(@, old)]
      ELSE FoldLeft(AddBytes, a, SplitLines(old))

Compacted == FoldLeft(AddChunk, [list |-> <<>>, inLine |-> FALSE], chunks).list

buffer_get_line ==
    \/ /\ chunks = <<>>
       /\ Returns("get_line", Null)
       /\ UNCHANGED <<chunks, size>>
    \/ /\ chunks # <<>>
       /\ IsLine(Head(chunks))
       /\ Returns("get_line", Head(chunks))
       /\ chunks' = Tail(chunks)
       /\ size' = size - Len(Head(chunks))
    \/ /\ chunks # <<>>
       /\ ~IsLine(Head(chunks))
       /\ IF Compacted # <<>> /\ Last(Head(Compacted)) = NL
            THEN /\ Returns("get_line", Head(Compacted))
                 /\ chunks' = Tail(Compacted)
                 /\ size' = size - Len(Head(Compacted))
            ELSE /\ Returns("get_line", Null)
                 /\ chunks' = Compacted
                 /\ UNCHANGED size

(* An empty piece leaves a chunk behind that size does not show.           *)
buffer_get ==
    \/ /\ size = 0
       /\ Returns("get", <<>>)
       /\ UNCHANGED <<chunks, size>>
    \/ /\ size # 0
       /\ Returns("get", Data)
       /\ chunks' = <<>>
       /\ size' = 0

(* Mutants: the size is not reset; the list is not reset.                  *)
FinishKeepsSize == chunks' = <<>> /\ Returns("finish", Null) /\ UNCHANGED size
FinishKeepsList == size' = 0 /\ Returns("finish", Null) /\ UNCHANGED chunks

buffer_finish == chunks' = <<>> /\ size' = 0 /\ Returns("finish", Null)

Next == \/ \E s \in Pieces : buffer_put(s)
        \/ buffer_get_line
        \/ buffer_get
        \/ buffer_finish

Spec == Init /\ [][Next]_vars

-------------------------------------------------------------------------------
(* The count kept in size is the number of bytes in the chunks: buffer_get *)
(* allocates by the one and copies by the other.                           *)
SizeIsLength == size = Len(Data)

(* The comment at buffer.c:146-147: after compaction "each chunk should    *)
(* now be either a line or part of a line but never multiple lines", and   *)
(* only the last can be a part.                                            *)
LinesAfterCompaction ==
    [][ buffer_get_line /\ chunks # <<>> /\ ~IsLine(Head(chunks)) =>
          \A i \in DOMAIN chunks' :
            \/ IsLine(chunks'[i])
            \/ i = Len(chunks') /\ Ending(chunks'[i], 1) = {} ]_vars

(* The chunks implement the queue: whatever the cuts between the pieces,   *)
(* lines come out whole, in order, once, and as soon as they are complete. *)
Q == INSTANCE LineQueue WITH data <- Data

BufferRefined == Q!Spec
===============================================================================
