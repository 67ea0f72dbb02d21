------------------------------- MODULE GtkLoop -------------------------------
(***************************************************************************)
(* The GTK interface: the sources and timers gui_gtk.c gives to the main   *)
(* loop of GLib, with the functions of proto.c, connection.c and xlib.c    *)
(* that their callbacks run.  The main loop picks any source that is ready.*)
(* A callback may run the loop itself: while the user is asked for a data  *)
(* item (gtk_request_data) everything else goes on, except for the source  *)
(* whose callback asked, which GLib does not enter twice.                  *)
(***************************************************************************)
EXTENDS Descriptors

CONSTANTS
    PollFreq,    \* poll_frequency, in ticks
    Prompting,   \* connections whose data items are not in the configuration
    MaxTags,     \* bound: tags for writing a connection has when it reads on
    MaxLate      \* bound: retry timers that are due when time passes

ASSUME ConnsAssumption == Conns = 1 .. Cardinality(Conns)
ASSUME FreqAssumption == PollFreq \in Nat \ {0}
ASSUME PromptingAssumption == Prompting \subseteq Conns
ASSUME BoundAssumption == MaxTags \in Nat /\ MaxLate \in Nat

VARIABLES
    conn,     \* connections[], as in Frontend; its watch fields stay empty
    io,       \* descriptors, and the list of tags of the sources watching them
    timers,   \* ticks left until the next poll; retry timers by ticks left
    loop,     \* where the thread is
    main      \* the image of the main window

vars == <<conn, io, timers, loop, main, toBack, fromBack, be>>

Nobody == 0

(* The list of tags, by connection and type, which is how it is searched;  *)
(* each tag as the descriptor its source watches, the oldest first.        *)
IOs == [ file : Files, fds : [Conns -> FdPairs],
         reads : [Conns -> Seq(Fds)], writes : [Conns -> Seq(Fds)] ]

Delays == 0 .. 2 * MaxPenalty
Timers == [ poll : 0 .. PollFreq, retry : [Delays -> Nat] ]

(* serving: the connection whose lines are being processed: one that was   *)
(* taken ("line"), one that waited for the user ("answer"), the next       *)
(* ("next"); asking: the one for which a dialog is open (pending_request); *)
(* entered: its read source is still there, in the middle of its callback. *)
Loops == [ pc      : {"start", "idle", "next", "line", "answer", "killed"},
           serving : Conns \cup {Nobody},
           asking  : Conns \cup {Nobody},
           entered : BOOLEAN ]

TypeOK == /\ conn \in [Conns -> ConnRecords]
          /\ io \in IOs
          /\ timers \in Timers
          /\ loop \in Loops
          /\ main \in {"up", "down"}
          /\ BackTypeOK

Init == /\ conn = [c \in Conns |-> connection_init]
        /\ io = [ file |-> NoFiles, fds |-> [c \in Conns |-> NoFds],
                reads |-> [c \in Conns |-> <<>>], writes |-> [c \in Conns |-> <<>>] ]
        /\ timers = [ poll |-> PollFreq, retry |-> [k \in Delays |-> 0] ]
        /\ loop = [pc |-> "start", serving |-> Nobody, asking |-> Nobody, entered |-> FALSE]
        /\ main = "down"
        /\ BackInit

-------------------------------------------------------------------------------
(* Sources.  A table t is a value of io.                                   *)

(* Every call adds a source, also where there is one already.  types says  *)
(* for which connections, each of which has lists of its own.              *)
gtk_add_fd(t, types) ==
    [t EXCEPT
       !.reads  = [c \in Conns |->
          IF "read" \in types[c] THEN Append(t.reads[c], t.fds[c].in) ELSE t.reads[c]],
       !.writes = [c \in Conns |->
          IF "write" \in types[c] THEN Append(t.writes[c], t.fds[c].out) ELSE t.writes[c]]]

(* taglist_find_and_delete: the oldest one goes.                           *)
taglist_delete(tags) == IF tags = <<>> THEN <<>> ELSE Tail(tags)

gtk_delete_fd(t, c, types) ==
    [t EXCEPT
       !.reads  = [d \in Conns |->
          IF d = c /\ "read" \in types THEN taglist_delete(t.reads[d]) ELSE t.reads[d]],
       !.writes = [d \in Conns |->
          IF d = c /\ "write" \in types THEN taglist_delete(t.writes[d]) ELSE t.writes[d]]]

(* Mutant: the sources of a closed connection stay.                        *)
CloseFdsStillTagged(t, c) == Shut(t, c)

CloseFds(t, c) == gtk_delete_fd(Shut(t, c), c, {"read", "write"})

(* A source of c whose condition holds.                                    *)
InputReady(c) ==
    \E i \in DOMAIN io.reads[c] :
      LET e == io.file[io.reads[c][i]]
      IN  e.end = "in" /\ (fromBack[e.of] # <<>> \/ ~be[e.of].up)
OutputReady(c) == \E i \in DOMAIN io.writes[c] : io.file[io.writes[c][i]].end = "out"

-------------------------------------------------------------------------------
(* The main image, and what closing a connection does to it.               *)

(* Mutant: the image is reset with the connection's.                       *)
FlagdownAlone(image, records) == "down"

gtk_flagdown(image, records) ==
    IF \A d \in Conns : records[d].biffed = {} THEN "down" ELSE image

(* The image after a list of actions, the records being as in records.     *)
(* Where a reset does something, nothing before it is left.                *)
ImageAfter(acts, image, records) ==
    LET shown == IF \E i \in DOMAIN acts : acts[i] = "image" THEN "up" ELSE image
    IN  IF Performed("up", acts) = "down" THEN gtk_flagdown(shown, records) ELSE shown

ActionsOf(c, s, line) ==
    CASE line.tag = "UPDATE"                                -> Updates[c]
      [] line.tag = "RESET" /\ ResetFires(c, s, line.arg)   -> Resets[c]
      [] OTHER                                              -> <<>>

(* Mutant: the timer is set for the penalty alone.                         *)
RetrySooner(t, wait) == [t EXCEPT !.retry[wait \div 2] = @ + 1]

gtk_schedule_retry(t, wait) == [t EXCEPT !.retry[wait] = @ + 1]

(* Mutants: the image is looked after before the folders are unbiffed; no  *)
(* retry is scheduled.                                                     *)
CloseFlagFirst(c, t) ==
    /\ conn' = [conn EXCEPT ![c] = connection_close(@)]
    /\ io' = t
    /\ LeaveUnheld(io')
    /\ timers' = gtk_schedule_retry(timers, conn'[c].wait)
    /\ main' = gtk_flagdown(main, conn)

CloseUnscheduled(c, t) ==
    /\ conn' = [conn EXCEPT ![c] = connection_close(@)]
    /\ io' = t
    /\ LeaveUnheld(io')
    /\ UNCHANGED timers
    /\ main' = gtk_flagdown(main, conn')

(* connection_close; t: the table that is left.                            *)
Close(c, t) ==
    /\ conn' = [conn EXCEPT ![c] = connection_close(@)]
    /\ io' = t
    /\ LeaveUnheld(io')
    /\ timers' = gtk_schedule_retry(timers, conn'[c].wait)
    /\ main' = gtk_flagdown(main, conn')

(* A handler of proto.c turned c's record into s: what it asked of the     *)
(* interface by add_fd is in s.watch.                                      *)
Handled(c, s) ==
    /\ conn' = [conn EXCEPT ![c] = [s EXCEPT !.watch = {}]]
    /\ io' = gtk_add_fd(io, [d \in Conns |-> IF d = c THEN s.watch ELSE {}])

Left(c) == [loop EXCEPT !.entered = @ /\ loop.asking # c]

-------------------------------------------------------------------------------
(* The callbacks *)

Opened(t, started) ==
    gtk_add_fd(xpopen2(t, started), [c \in Conns |-> IF c \in started THEN {"read"} ELSE {}])

(* Where xpopen2 fails nothing is scheduled.                               *)
proto_do_retries ==
    LET due == {c \in Conns : WantsRetry(conn[c])}
    IN  /\ \E started \in SUBSET due :
             /\ \A c \in due \ started : "refuse" \in Faults[c]
             /\ io' = Opened(io, started)
             /\ conn' = [c \in Conns |->
                           IF c \in started
                             THEN [proto_init_conn(conn[c]) EXCEPT !.watch = {}]
                             ELSE conn[c]]
             /\ be' = [c \in Conns |-> IF c \in started THEN Fresh ELSE be[c]]
        /\ UNCHANGED <<main, toBack, fromBack>>

Start == /\ loop.pc = "start"
         /\ proto_do_retries
         /\ loop' = [loop EXCEPT !.pc = "idle"]
         /\ UNCHANGED timers

(* A retry timer expires; it runs once.                                    *)
gtk_retry_shim ==
    /\ loop.pc = "idle"
    /\ timers.retry[0] > 0
    /\ timers' = [timers EXCEPT !.retry[0] = @ - 1]
    /\ proto_do_retries
    /\ UNCHANGED loop

(* Mutant: every connection is polled, whatever its state.                 *)
PolledAlways(c) == proto_poll_conn(conn[c])

(* The poll timer expires; it starts anew.                                 *)
Polled(c) == IF WantsPoll(conn[c]) THEN proto_poll_conn(conn[c]) ELSE conn[c]

gtk_poll_shim ==
    /\ loop.pc = "idle"
    /\ timers.poll = 0
    /\ timers' = [timers EXCEPT !.poll = PollFreq]
    /\ conn' = [c \in Conns |-> [Polled(c) EXCEPT !.watch = {}]]
    /\ io' = gtk_add_fd(io, [c \in Conns |-> Polled(c).watch])
    /\ UNCHANGED <<loop, main, toBack, fromBack, be>>

(* gtk_io_shim for reading: proto_do_conn_input up to its loop.  The tags  *)
(* for writing are bounded here: they are ready too, and served in turn.   *)
Input(c) ==
    LET x == io.fds[c].in
    IN  /\ loop.pc = "idle" /\ InputReady(c)
        /\ ~(loop.asking = c /\ loop.entered)
        /\ Len(io.writes[c]) <= MaxTags
        /\ \/ /\ io.file[x].end = "in"
              /\ LET d == io.file[x].of
                 IN  \E n \in 1 .. Len(fromBack[d]) :
                       /\ conn' = [conn EXCEPT ![c].bin = SubSeq(fromBack[d], 1, n)]
                       /\ fromBack' = [fromBack EXCEPT ![d] = SubSeq(@, n + 1, Len(@))]
              /\ loop' = [loop EXCEPT !.pc = "next", !.serving = c]
              /\ UNCHANGED <<io, timers, main, toBack, be>>
           \/ /\ io.file[x].end = "in" => fromBack[io.file[x].of] = <<>> /\ ~be[io.file[x].of].up
              /\ Close(c, CloseFds(io, c))
              /\ loop' = Left(c)

(* buffer_get_line has a line for the connection being served.  If it asks *)
(* for something the user must type, and no dialog is open, one is opened. *)
DataRequest == Line("DATAREQUEST", NoArg)

TakeLine ==
    LET c == loop.serving
        prompt == /\ Head(conn[c].bin) = DataRequest
                  /\ conn[c].state = "NORMAL"
                  /\ c \in Prompting
                  /\ loop.asking = Nobody
    IN  /\ loop.pc = "next"
        /\ \/ /\ prompt
              /\ conn' = [conn EXCEPT ![c].bin = Tail(@)]
              /\ loop' = [pc |-> "idle", serving |-> Nobody, asking |-> c, entered |-> TRUE]
           \/ /\ ~prompt
              /\ loop' = [loop EXCEPT !.pc = "line"]
              /\ UNCHANGED conn
        /\ UNCHANGED <<io, timers, main, toBack, fromBack, be>>

(* The user answers, or closes the dialog, which counts as an empty item:  *)
(* back to the request, whatever became of its connection.                 *)
Answered ==
    LET c == loop.asking
    IN  /\ loop.pc = "idle"
        /\ c # Nobody
        /\ conn' = [conn EXCEPT ![c].bin = <<DataRequest>> \o @]
        /\ loop' = [pc |-> "answer", serving |-> c, asking |-> Nobody, entered |-> FALSE]
        /\ UNCHANGED <<io, timers, main, toBack, fromBack, be>>

(* On to the next line, or back to the main loop.                          *)
Continue(c) ==
    loop' = IF conn'[c].bin # <<>> THEN [loop EXCEPT !.pc = "next"]
            ELSE [loop EXCEPT !.pc = "idle", !.serving = Nobody]

(* The end of proto_process_untagged, after gui.request_data.              *)
ProcessAnswer ==
    LET c == loop.serving
    IN  /\ loop.pc = "answer"
        /\ Handled(c, Respond([conn[c] EXCEPT !.bin = Tail(@)]))
        /\ Continue(c)
        /\ UNCHANGED <<timers, main, toBack, fromBack, be>>

(* proto_process_line.  While a dialog is open a second one is refused.    *)
ProcessLine ==
    LET c    == loop.serving
        line == Head(conn[c].bin)
        s    == [conn[c] EXCEPT !.bin = Tail(@)]
    IN  /\ loop.pc = "line"
        /\ IF Closes(s, line)
             THEN Close(c, CloseFds(io, c))
             ELSE /\ Handled(c, proto_process_line(c, s, line, c \notin Prompting))
                  /\ main' = ImageAfter(ActionsOf(c, s, line), main, conn')
                  /\ UNCHANGED <<timers, toBack, fromBack, be>>
        /\ Continue(c)

(* Nobody can read the pipe any more.  Only text_init ignores SIGPIPE, so  *)
(* that here the write ends netbiff.                                       *)
BrokenPipe(c) ==
    /\ loop' = [loop EXCEPT !.pc = "killed"]
    /\ UNCHANGED <<conn, io, timers, main, toBack, fromBack, be>>

(* gtk_io_shim for writing: proto_do_conn_output.  It is always the pipe   *)
(* of c's back end (see TagsServe), and no write to it fails otherwise.    *)
Output(c) ==
    LET x == io.fds[c].out
    IN  /\ loop.pc = "idle" /\ OutputReady(c)
        /\ \/ /\ conn[c].bout = <<>>
              /\ io' = gtk_delete_fd(io, c, {"write"})
              /\ UNCHANGED <<conn, timers, loop, main, toBack, fromBack, be>>
           \/ /\ io.file[x].end = "out" /\ be[io.file[x].of].up
              /\ \E n \in 1 .. Len(conn[c].bout) :
                   LET s == Written(conn[c], n)
                   IN  /\ conn' = [conn EXCEPT ![c] = s]
                       /\ toBack' = [toBack EXCEPT ![io.file[x].of] =
                                       @ \o SubSeq(conn[c].bout, 1, n)]
                       /\ io' = IF s.bout = <<>> THEN gtk_delete_fd(io, c, {"write"}) ELSE io
              /\ UNCHANGED <<timers, loop, main, fromBack, be>>
           \/ /\ conn[c].bout # <<>>
              /\ io.file[x].end = "out" /\ ~be[io.file[x].of].up
              /\ BrokenPipe(c)

(* image_clicked, button 1: the user has seen it.  A dialog has the grab.  *)
image_clicked ==
    /\ loop.pc = "idle"
    /\ loop.asking = Nobody
    /\ main = "up"
    /\ main' = "down"
    /\ UNCHANGED <<conn, io, timers, loop, toBack, fromBack, be>>

(* A second passes.  No callback takes that long, save for dialogs.        *)
Tick ==
    /\ loop.pc = "idle"
    /\ timers.retry[0] <= MaxLate
    /\ conn' = [c \in Conns |-> [conn[c] EXCEPT !.wait = IF @ > 0 THEN @ - 1 ELSE 0]]
    /\ timers' = [ poll  |-> IF timers.poll > 0 THEN timers.poll - 1 ELSE 0,
                   retry |-> [k \in Delays |->
                     (IF k < 2 * MaxPenalty THEN timers.retry[k + 1] ELSE 0)
                       + (IF k = 0 THEN timers.retry[0] ELSE 0)] ]
    /\ UNCHANGED <<io, loop, main, toBack, fromBack, be>>

Callback(c) == Input(c) \/ Output(c)

LoopStep == \/ Start \/ gtk_retry_shim \/ gtk_poll_shim \/ TakeLine \/ ProcessLine \/ ProcessAnswer
            \/ \E c \in Conns : Callback(c)

UserStep == Answered \/ image_clicked

BackStep(c) == BackEndStep(c) /\ UNCHANGED <<conn, io, timers, loop, main>>

Next == LoopStep \/ UserStep \/ Tick \/ \E c \in Conns : BackStep(c)

Spec == Init /\ [][Next]_vars

(* GLib dispatches in each iteration every source that is ready, time      *)
(* passes, and back ends greet and answer in the end.  This is assumed for *)
(* the connections that do not wait for the user, nothing for the others;  *)
(* the user need not do anything.                                          *)
FairSpec ==
    /\ Spec
    /\ WF_vars(Start \/ TakeLine \/ ProcessLine \/ ProcessAnswer)
    /\ SF_vars(gtk_retry_shim)
    /\ SF_vars(Tick)
    /\ \A c \in Conns \ Prompting :
         /\ SF_vars(Input(c))
         /\ SF_vars(Output(c))
         /\ SF_vars((Greet(c) \/ Answer(c)) /\ UNCHANGED <<conn, io, timers, loop, main>>)

-------------------------------------------------------------------------------
(* Properties *)

Open(c) == conn[c].state # "PENALTY_BOX"

(* An open connection has one source for its input and, while there is     *)
(* something to write, one for its output, on descriptors that are its own.*)
(* add_fd and delete_fd are not called in pairs: a leftover tag may be the *)
(* one that is removed (gui_gtk.c:304-323), or lead to the wrong number.   *)
TagsServe ==
    \A c \in Conns : Open(c) =>
      LET f == io.fds[c]
      IN  /\ io.file[f.in] = [of |-> c, end |-> "in"]
          /\ io.file[f.out] = [of |-> c, end |-> "out"]
          /\ io.reads[c] = <<f.in>>
          /\ conn[c].bout # <<>> => \E i \in DOMAIN io.writes[c] : io.writes[c][i] = f.out

(* GUI:52-53: whoever waits in the penalty box will be tried: a timer runs *)
(* that does not expire before the connection is due.  Where pipe or fork  *)
(* may fail this does not hold: nothing is scheduled then (proto.c:14-15). *)
RetryScheduled ==
    \A c \in Conns :
      ~Open(c) /\ loop.pc # "start" /\ "refuse" \notin Faults[c] =>
        \E k \in Delays : k >= conn[c].wait /\ timers.retry[k] > 0

(* NEWS:40-41: the main image is reset only if all connections are         *)
(* unbiffed, or the user clicks on it; it is never left up with nothing    *)
(* biffed.  For connections with "image" and "image-reset" as actions.     *)
MainReset ==
    /\ main = "up" => \E c \in Conns : conn[c].biffed # {}
    /\ \A c \in Conns : conn[c].flag = "up" <=> conn[c].biffed # {}

MainKept ==
    [][main = "up" /\ main' = "down" =>
         image_clicked \/ \A c \in Conns : conn'[c].biffed = {}]_vars

(* PROTO:28: a DATARESPONSE is "the response to a requested data item", so  *)
(* that a process that has not even greeted is sent none.                  *)
ResponsesRequested ==
    \A c \in Conns :
      be[c].up /\ ~be[c].greeted =>
        \A i \in DOMAIN toBack[c] : toBack[c][i].verb # "DATARESPONSE"

(* The main loop implements Frontend.  What a callback has read and not    *)
(* yet taken counts as not yet read, and so does a request whose dialog is *)
(* open: Frontend reads it when it is answered.                            *)
Taken(c) == IF loop.pc \in {"line", "answer"} /\ loop.serving = c THEN 1 ELSE 0

Unread(c) ==
    (IF loop.asking = c /\ loop.entered THEN <<DataRequest>> ELSE <<>>)
      \o SubSeq(conn[c].bin, Taken(c) + 1, Len(conn[c].bin)) \o fromBack[c]

Seen(c) ==
    [conn[c] EXCEPT !.bin = SubSeq(@, 1, Taken(c)),
                    !.watch = (IF io.reads[c] # <<>> THEN {"read"} ELSE {})
                                \cup (IF conn[c].bout # <<>> THEN {"write"} ELSE {})]

F == INSTANCE Frontend WITH conn     <- [c \in Conns |-> Seen(c)],
                            fromBack <- [c \in Conns |-> Unread(c)],
                            MaxLines <- 2 * MaxLines

FrontendRefined == F!Spec

(* Whether or not the user ever answers, a connection that does not wait   *)
(* for the user is opened again, and is in order unless its new back end   *)
(* fails as well (a dialog runs the loop itself, gui_gtk.c:411-412), or    *)
(* netbiff was killed by writing to one that has.                          *)
Killed == loop.pc = "killed"

Failing(c) ==
    ~be[c].up \/ \E i \in DOMAIN Unread(c) : Unread(c)[i].tag = "BAD"

Reopened ==
    \A c \in Conns \ Prompting :
      ~Open(c) ~> Killed \/ (Open(c) /\ (conn[c].state = "NORMAL" \/ Failing(c)))

(* NEWS:38-39: "connections will be retried forever": whatever became of   *)
(* the other back ends, a connection in the penalty box is opened again    *)
(* (proto.c:190 writes to one that may be gone).                           *)
RetriedForever == \A c \in Conns : ~Open(c) ~> Open(c)
===============================================================================
