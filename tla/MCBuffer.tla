------------------------------- MODULE MCBuffer -------------------------------
(***************************************************************************)
(* Instances of Buffer for TLC.                                            *)
(***************************************************************************)
EXTENDS Buffer

Newline == "nl"

(* An empty piece can be put in for ever without filling the buffer.       *)
FewChunks == Len(chunks) <= 4
===============================================================================
