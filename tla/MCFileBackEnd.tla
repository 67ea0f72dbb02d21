---------------------------- MODULE MCFileBackEnd ----------------------------
(***************************************************************************)
(* Instances of FileBackEnd for TLC.                                       *)
(***************************************************************************)
EXTENDS FileBackEnd

Ask(v, f) == [verb |-> v, arg |-> f]

(* Of everything that can be typed, one request of each kind.              *)
Sample == FrontEndRequests
            \cup {Ask("POLL", "a"), Ask("FOLDER", NoArg), Ask("DATARESPONSE", "a"),
                  Ask("OTHER", NoArg), Ask("QUIT", NoArg)}

(* Names that differ only in case.                                         *)
Folded == [f \in Names |-> "a"]
===============================================================================
