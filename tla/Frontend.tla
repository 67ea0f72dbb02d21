------------------------------- MODULE Frontend -------------------------------
(***************************************************************************)
(* The front end and its back ends, over an interface that keeps the       *)
(* contract of the file GUI: after add_fd the right descriptor is served   *)
(* until delete_fd, and retries and polls are run when due.  The front end *)
(* is one thread: a chunk it has read is processed line by line before it  *)
(* does anything else, while the back ends go on running.                  *)
(*                                                                         *)
(* The back ends are those of BackEnd.                                     *)
(***************************************************************************)
EXTENDS BackEnd

VARIABLE conn    \* the front end's record of each connection

vars == <<conn, toBack, fromBack, be>>

TypeOK == /\ conn \in [Conns -> ConnRecords]
          /\ BackTypeOK

Init == /\ conn = [c \in Conns |-> connection_init]
        /\ BackInit

-------------------------------------------------------------------------------
(* The front end *)

(* It is inside the loop of proto_do_conn_input.                           *)
Busy == \E c \in Conns : conn[c].bin # <<>>

(* Both pipe ends are closed; the process they led to is on its own now.   *)
Disconnect(c) == /\ toBack' = [toBack EXCEPT ![c] = <<>>]
                 /\ fromBack' = [fromBack EXCEPT ![c] = <<>>]
                 /\ be' = [be EXCEPT ![c] = Gone]

Close(c) == /\ conn' = [conn EXCEPT ![c] = connection_close(conn[c])]
            /\ Disconnect(c)

(* Every connection whose time has come is tried; where xpopen2 fails the  *)
(* connection stays as it is.                                              *)
proto_do_retries ==
    /\ ~Busy
    /\ \E started \in SUBSET {c \in Conns : WantsRetry(conn[c])} :
         /\ started # {}
         /\ \A c \in Conns : WantsRetry(conn[c]) /\ c \notin started
                             => "refuse" \in Faults[c]
         /\ conn' = [c \in Conns |-> IF c \in started THEN proto_init_conn(conn[c])
                                                      ELSE conn[c]]
         /\ be' = [c \in Conns |-> IF c \in started THEN Fresh ELSE be[c]]
    /\ UNCHANGED <<toBack, fromBack>>

(* read() returns some of what is in the pipe.                             *)
proto_do_conn_input(c) ==
    /\ ~Busy
    /\ "read" \in conn[c].watch
    /\ \E n \in 1 .. Len(fromBack[c]) :
         /\ conn' = [conn EXCEPT ![c].bin = SubSeq(fromBack[c], 1, n)]
         /\ fromBack' = [fromBack EXCEPT ![c] = SubSeq(@, n + 1, Len(@))]
    /\ UNCHANGED <<toBack, be>>

(* read() returns 0: the pipe is drained and its writer is gone.           *)
Hangup(c) ==
    /\ ~Busy
    /\ "read" \in conn[c].watch
    /\ fromBack[c] = <<>>
    /\ ~be[c].up
    /\ Close(c)

(* One turn of the loop over buffer_get_line.                              *)
ProcessLine(c) ==
    /\ conn[c].bin # <<>>
    /\ LET line == Head(conn[c].bin)
           s    == [conn[c] EXCEPT !.bin = Tail(@)]
       IN  /\ \E have \in BOOLEAN :
                conn' = [conn EXCEPT ![c] = proto_process_line(c, s, line, have)]
           /\ IF Closes(s, line) THEN Disconnect(c)
                                 ELSE UNCHANGED <<toBack, fromBack, be>>

(* write() takes all of it or, interrupted, a part.                        *)
proto_do_conn_output(c) ==
    /\ ~Busy
    /\ "write" \in conn[c].watch
    /\ be[c].up
    /\ \E n \in 0 .. Len(conn[c].bout) :
         /\ n = 0 => conn[c].bout = <<>>
         /\ conn' = [conn EXCEPT ![c] = Written(@, n)]
         /\ toBack' = [toBack EXCEPT ![c] = @ \o SubSeq(conn[c].bout, 1, n)]
    /\ UNCHANGED <<fromBack, be>>

(* write() fails because nobody can read the pipe any more.                *)
BrokenPipe(c) ==
    /\ ~Busy
    /\ "write" \in conn[c].watch
    /\ conn[c].bout # <<>>
    /\ ~be[c].up
    /\ Close(c)

(* The poll timer has expired.                                             *)
proto_do_poll ==
    /\ ~Busy
    /\ \E c \in Conns : WantsPoll(conn[c])
    /\ conn' = [c \in Conns |-> IF WantsPoll(conn[c]) THEN proto_poll_conn(conn[c])
                                                      ELSE conn[c]]
    /\ UNCHANGED <<toBack, fromBack, be>>

(* A second passes.                                                        *)
Tick ==
    /\ \E c \in Conns : conn[c].wait > 0
    /\ conn' = [c \in Conns |->
                  [conn[c] EXCEPT !.wait = IF @ > 0 THEN @ - 1 ELSE 0]]
    /\ UNCHANGED <<toBack, fromBack, be>>

-------------------------------------------------------------------------------
FrontEndStep(c) == \/ proto_do_conn_input(c) \/ Hangup(c) \/ ProcessLine(c)
                   \/ proto_do_conn_output(c) \/ BrokenPipe(c)

Next == \/ proto_do_retries
        \/ proto_do_poll
        \/ Tick
        \/ \E c \in Conns : \/ FrontEndStep(c)
                            \/ BackEndStep(c) /\ UNCHANGED conn

Spec == Init /\ [][Next]_vars

-------------------------------------------------------------------------------
(* Properties *)

(* The statuses connection c's back end still owes or has under way.       *)
Outstanding(c) == Owed(c, conn[c])

(* The front end counts exactly the statuses that are still to come, so    *)
(* that it never meets an OK or NO it does not expect (proto.c:119, 137),  *)
(* takes no answer for another's, and asks for one folder at a time.       *)
StatusAccounting ==
    \A c \in Conns :
      /\ conn[c].state = "PENALTY_BOX" =>
           /\ toBack[c] = <<>> /\ fromBack[c] = <<>>
           /\ conn[c].bin = <<>> /\ conn[c].bout = <<>>
      /\ conn[c].state \in {"WAIT_HELLO", "ADDING_FOLDERS"} =>
           Outstanding(c) = 1
      /\ conn[c].pending = IF conn[c].state = "NORMAL" THEN Outstanding(c) ELSE 0

(* A connection is polled only after its back end has accepted every       *)
(* folder, and in the order of the configuration: the next folder goes out *)
(* when the one before it is accepted (proto_add_next_folder).             *)
FoldersAnnounced ==
    \A c \in Conns :
      /\ conn[c].state \in {"ADDING_FOLDERS", "NORMAL"} =>
           {Folders[c][i] : i \in 1 .. conn[c].added} \subseteq be[c].known
      /\ conn[c].state = "NORMAL" => conn[c].added = Len(Folders[c])

(* The interface waits to write exactly while there is something to write, *)
(* and to read exactly while the connection is open: no request is ever    *)
(* left in bout, no answer in the pipe, and a closed connection is silent. *)
NoLostWakeup ==
    \A c \in Conns :
      /\ "write" \in conn[c].watch <=> conn[c].bout # <<>>
      /\ "read" \in conn[c].watch <=> conn[c].state # "PENALTY_BOX"

(* With "image" configured for updates and "image-reset" for resets, the   *)
(* flag is up exactly while some folder of the connection is biffed: also  *)
(* after several updates, partial resets and a connection that was closed. *)
FlagShowsBiff ==
    \A c \in Conns : conn[c].flag = "up" <=> conn[c].biffed # {}

(* Once everything a back end said is processed, the folders shown as      *)
(* biffed are those of the configuration that it reported and has not      *)
(* taken back since, whatever else it spoke of and whenever it did.        *)
Configured(c) == {Folders[c][i] : i \in DOMAIN Folders[c]}

MirrorsBackEnd ==
    \A c \in Conns :
      fromBack[c] = <<>> /\ conn[c].bin = <<>> =>
        {Folders[c][i] : i \in conn[c].biffed} = be[c].news \cap Configured(c)

(* PROTO:63-66: after a RESET "any events which occured as a response to   *)
(* the UPDATE of that folder should be cancelled (e.g., the flag should go *)
(* down)": with all that was reported taken back the flag is down.         *)
ResetCancels ==
    \A c \in Conns :
      fromBack[c] = <<>> /\ conn[c].bin = <<>> /\ be[c].news = {} =>
        conn[c].flag = "down"

(* Each connection implements the abstract session, with the statuses      *)
(* actually in the pipes and buffers as what the back end owes.            *)
PhaseOf(state) == CASE state = "PENALTY_BOX"    -> "down"
                    [] state = "WAIT_HELLO"     -> "greeting"
                    [] state = "ADDING_FOLDERS" -> "folders"
                    [] state = "NORMAL"         -> "normal"

Session(c) == INSTANCE Session
                WITH NFolders <- Len(Folders[c]),
                     phase    <- PhaseOf(conn[c].state),
                     accepted <- conn[c].added,
                     owed     <- IF conn[c].state = "PENALTY_BOX" THEN 0
                                                               ELSE Outstanding(c)

SessionStep(c) == [Session(c)!Next]_(Session(c)!vars)

SessionRefined == /\ \A c \in Conns : Session(c)!Init
                  /\ [][\A c \in Conns : SessionStep(c)]_vars
===============================================================================
