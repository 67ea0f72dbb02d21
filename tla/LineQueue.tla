------------------------------ MODULE LineQueue ------------------------------
(***************************************************************************)
(* What a buffer is for: bytes go in at one end in pieces of any size, and *)
(* come out at the other as whole lines, or all at once.                   *)
(***************************************************************************)
EXTENDS Naturals, Sequences

CONSTANTS Bytes, NL, Null,
          Pieces      \* the pieces of data that may be put in

VARIABLES data,       \* what was put in and has not come out
          last        \* the last operation and what it returned

vars == <<data, last>>

NewLines == {i \in DOMAIN data : data[i] = NL}

Returns(op, r) == last' = [op |-> op, ret |-> r]

Init == data = <<>> /\ last = [op |-> "none", ret |-> Null]

Put(s) == data' = data \o s /\ Returns("put", Null)

GetLine ==
    \/ /\ NewLines = {}
       /\ Returns("get_line", Null)
       /\ UNCHANGED data
    \/ \E i \in NewLines :
         /\ \A j \in NewLines : i <= j
         /\ Returns("get_line", SubSeq(data, 1, i))
         /\ data' = SubSeq(data, i + 1, Len(data))

Get == Returns("get", data) /\ data' = <<>>

Finish == data' = <<>> /\ Returns("finish", Null)

Next == GetLine \/ Get \/ Finish \/ \E s \in Pieces : Put(s)

Spec == Init /\ [][Next]_vars
==============================================================================
