-------------------------------- MODULE Proto --------------------------------
(***************************************************************************)
(* proto.c: what the front end does with one line from a back end, with a  *)
(* poll that is due, and with a connection it (re)opens.  As in Connection *)
(* every operator maps a connection's record to the next one; the process  *)
(* that calls them is in Frontend, TextLoop and GtkLoop.                   *)
(***************************************************************************)
EXTENDS Connection

(* buffer_put on bout, then gui.add_fd(c, GUI_FD_WRITE).                   *)
Send(s, cmd) == [s EXCEPT !.bout  = Append(@, cmd),
                          !.watch = @ \cup {"write"}]

(* The branch of proto_init_conn taken once xpopen2 has succeeded.         *)
proto_init_conn(s) == [s EXCEPT !.state = "WAIT_HELLO",
                                !.watch = @ \cup {"read"}]

(* Mutant: the poll is not counted.                                        *)
PollUncounted(s) == Send(s, Command("POLL", NoArg))

proto_poll_conn(s) ==
    [Send(s, Command("POLL", NoArg)) EXCEPT !.pending = @ + 1]

(* Mutant: a folder counts as added when it is asked for.                  *)
AddFolderEagerly(c, s) ==
    IF s.added = Len(Folders[c])
      THEN proto_poll_conn([s EXCEPT !.state = "NORMAL"])
      ELSE Send([s EXCEPT !.added = @ + 1], Command("FOLDER", Folders[c][s.added + 1]))

proto_add_next_folder(c, s) ==
    IF s.added = Len(Folders[c])
      THEN proto_poll_conn([s EXCEPT !.state = "NORMAL"])
      ELSE Send(s, Command("FOLDER", Folders[c][s.added + 1]))

(* Mutant: the penalty is taken off altogether.                            *)
HelloPenaltyCleared(c, s) ==
    proto_add_next_folder(c, [s EXCEPT !.penalty = 0,
                                       !.state   = "ADDING_FOLDERS"])

ProcessHello(c, s) ==
    proto_add_next_folder(c, [s EXCEPT !.penalty = 1,
                                       !.state   = "ADDING_FOLDERS"])

ProcessFolderOk(c, s) ==
    proto_add_next_folder(c, [s EXCEPT !.added = @ + 1])

(* Mutant: a status leaves the count alone.                                *)
StatusUncounted(s) == s

(* A status in the NORMAL state is for the oldest outstanding request;     *)
(* one nobody waits for is reported and otherwise ignored.                 *)
ProcessStatus(s) ==
    [s EXCEPT !.pending = IF @ > 0 THEN @ - 1 ELSE @]

ProcessOk(c, s) ==
    CASE s.state = "WAIT_HELLO"     -> ProcessHello(c, s)
      [] s.state = "ADDING_FOLDERS" -> ProcessFolderOk(c, s)
      [] s.state = "NORMAL"         -> ProcessStatus(s)
      [] s.state = "PENALTY_BOX"    -> s

ProcessNo(s) ==
    CASE s.state \in {"WAIT_HELLO", "ADDING_FOLDERS"} -> connection_close(s)
      [] s.state = "NORMAL"                           -> ProcessStatus(s)
      [] s.state = "PENALTY_BOX"                      -> s

(* The item goes out, whatever state the connection is in by then.         *)
Respond(s) == [Send(s, Command("DATARESPONSE", NoArg)) EXCEPT !.pending = @ + 1]

(* have: conf_read_data or gui.request_data produced the item.  With NULL  *)
(* from both the request is dropped without an answer.                     *)
ProcessDataRequest(s, have) ==
    IF s.state = "NORMAL" /\ have THEN Respond(s) ELSE s

proto_process_line(c, s, line, have) ==
    CASE line.tag = "OK"              -> ProcessOk(c, s)
      [] line.tag = "NO"              -> ProcessNo(s)
      [] line.tag = "BAD"             -> connection_close(s)
      [] line.tag = "UPDATE"          -> connection_do_update(c, s, line.arg)
      [] line.tag = "RESET"           -> connection_do_reset(c, s, line.arg)
      [] line.tag = "DATAREQUEST"     -> ProcessDataRequest(s, have)
      [] line.tag = "NOTE"            -> s

(* Whether that line makes the front end close the connection.             *)
Closes(s, line) ==
    \/ line.tag = "BAD"
    \/ line.tag = "NO" /\ s.state \in {"WAIT_HELLO", "ADDING_FOLDERS"}

(* Mutant: the interface goes on waiting to write.                         *)
WrittenStillWatched(s, n) == [s EXCEPT !.bout = SubSeq(@, n + 1, Len(@))]

(* proto_do_conn_output: the first n lines left through the pipe, the rest *)
(* is put back; with nothing left the interface stops waiting to write.    *)
Written(s, n) ==
    LET rest == SubSeq(s.bout, n + 1, Len(s.bout))
    IN  [s EXCEPT !.bout  = rest,
                  !.watch = IF rest = <<>> THEN @ \ {"write"} ELSE @]

(* Mutants: a connection is polled that is not ready for it; one that has  *)
(* failed is given up.                                                     *)
WantsPollUnready(s) == s.pending = 0
WantsRetryUnlessFailed(s) == s.state = "PENALTY_BOX" /\ s.wait = 0 /\ s.penalty = 1

WantsPoll(s) == s.state = "NORMAL" /\ s.pending = 0
WantsRetry(s) == s.state = "PENALTY_BOX" /\ s.wait = 0
==============================================================================
