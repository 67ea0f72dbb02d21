------------------------------- MODULE TextLoop -------------------------------
(***************************************************************************)
(* The text interface: the select loop of gui_text.c with the functions of *)
(* proto.c, connection.c and xlib.c it runs, down to the numbers of the    *)
(* descriptors.  Numbers matter: select is told numbers, a connection      *)
(* keeps its numbers when it is closed, and the kernel gives the lowest    *)
(* free ones to the next process that is started.                          *)
(*                                                                         *)
(* Where Frontend says what an interface should do, TextLoop says what     *)
(* this one does; FrontendRefined relates the two.                         *)
(***************************************************************************)
EXTENDS Descriptors, FiniteSetsExt

CONSTANT PollFreq     \* poll_frequency, in ticks

ASSUME ConnsAssumption == Conns = 1 .. Cardinality(Conns)
ASSUME FreqAssumption == PollFreq \in Nat \ {0}

VARIABLES
    conn,   \* connections[], as in Frontend; its watch fields stay empty
    io,     \* descriptors: the kernel's table and what the interface keeps
    loop    \* where the thread is

vars == <<conn, io, loop, toBack, fromBack, be>>

(* file and fds as in Descriptors; rfds, wfds and maxfd are the variables  *)
(* of gui_text.c.                                                          *)
IOs == [ file  : Files,
         fds   : [Conns -> FdPairs],
         rfds  : SUBSET Fds,
         wfds  : SUBSET Fds,
         maxfd : -1 .. MaxFd + 1 ]

(* i: the loop index of proto_do_io; r and w: what select returned;        *)
(* next: time left until next_poll.                                        *)
Points == {"start", "select", "retry", "read", "line", "write", "poll",
           "returned", "aborted"}
Loops == [ pc   : Points,
           i    : Conns,
           r    : SUBSET Fds,
           w    : SUBSET Fds,
           next : 0 .. PollFreq ]

TypeOK == /\ conn \in [Conns -> ConnRecords]
          /\ io \in IOs
          /\ loop \in Loops
          /\ BackTypeOK

Init == /\ conn = [c \in Conns |-> connection_init]
        /\ io = [ file  |-> NoFiles,
                  fds   |-> [c \in Conns |-> NoFds],
                  rfds  |-> {},
                  wfds  |-> {},
                  maxfd |-> -1 ]
        /\ loop = [pc |-> "start", i |-> 1, r |-> {}, w |-> {}, next |-> 0]
        /\ BackInit

-------------------------------------------------------------------------------
(* The interface's sets.  A table t is a value of io.                      *)

(* types says for which connections it is called, and with what.           *)
text_add_fd(t, types) ==
    LET rd == {t.fds[c].in : c \in {d \in Conns : "read" \in types[d]}}
        wr == {t.fds[c].out : c \in {d \in Conns : "write" \in types[d]}}
    IN  [t EXCEPT !.rfds  = @ \cup rd,
                  !.wfds  = @ \cup wr,
                  !.maxfd = Max({@} \cup {x + 1 : x \in rd \cup wr})]

(* Mutant: maxfd++ is missing.                                             *)
DeleteFdLow(t, c, types) ==
    LET rs == IF "read" \in types THEN t.rfds \ {t.fds[c].in} ELSE t.rfds
        ws == IF "write" \in types THEN t.wfds \ {t.fds[c].out} ELSE t.wfds
    IN  [t EXCEPT !.rfds = rs, !.wfds = ws, !.maxfd = Max({-1} \cup rs \cup ws)]

text_delete_fd(t, c, types) ==
    LET rs == IF "read" \in types THEN t.rfds \ {t.fds[c].in} ELSE t.rfds
        ws == IF "write" \in types THEN t.wfds \ {t.fds[c].out} ELSE t.wfds
        watched == ({t.fds[d].in : d \in Conns} \cap rs)
                     \cup ({t.fds[d].out : d \in Conns} \cap ws)
    IN  [t EXCEPT !.rfds  = rs,
                  !.wfds  = ws,
                  !.maxfd = 1 + Max({-1} \cup watched)]

(* Mutant: the descriptors are closed but still watched.                   *)
CloseFdsStillWatched(t, c) == Shut(t, c)

(* The descriptors' part of connection_close.  fd_in and fd_out keep their *)
(* values.                                                                 *)
CloseFds(t, c) == text_delete_fd(Shut(t, c), c, {"read", "write"})

Close(c) ==
    /\ conn' = [conn EXCEPT ![c] = connection_close(@)]
    /\ io' = CloseFds(io, c)
    /\ LeaveUnheld(io')

(* A handler of proto.c turned c's record into s: what it asked of the     *)
(* interface by add_fd is in s.watch.                                      *)
Handled(c, s) ==
    /\ conn' = [conn EXCEPT ![c] = [s EXCEPT !.watch = {}]]
    /\ io' = text_add_fd(io, [d \in Conns |-> IF d = c THEN s.watch ELSE {}])

-------------------------------------------------------------------------------
(* The loop *)

At(pc) == loop.pc = pc
Go(pc) == loop' = [loop EXCEPT !.pc = pc]

(* proto_do_retries tries the connections in order; pipe or fork may fail  *)
(* where that is among the faults.                                         *)
Opened(t, started) ==
    text_add_fd(xpopen2(t, started), [c \in Conns |-> IF c \in started THEN {"read"} ELSE {}])

proto_do_retries ==
    LET due == {c \in Conns : WantsRetry(conn[c])}
    IN  /\ \E started \in SUBSET due :
             /\ \A c \in due \ started : "refuse" \in Faults[c]
             /\ io' = Opened(io, started)
             /\ conn' = [c \in Conns |->
                           IF c \in started
                             THEN [proto_init_conn(conn[c]) EXCEPT !.watch = {}]
                             ELSE conn[c]]
             /\ be' = [c \in Conns |-> IF c \in started THEN Fresh ELSE be[c]]
        /\ UNCHANGED <<toBack, fromBack>>

(* main calls it once before the loop, and every iteration does again.     *)
Start == /\ At("start")
         /\ proto_do_retries
         /\ Go("select")

Retry == /\ At("retry")
         /\ proto_do_retries
         /\ loop' = [loop EXCEPT !.pc = "read", !.i = 1]

(* Data, a pipe whose writer is gone, or room to write.                    *)
Readable(x) == LET e == io.file[x]
               IN  e.end = "in" /\ (fromBack[e.of] # <<>> \/ ~be[e.of].up)

Watched == {x \in io.rfds \cup io.wfds : x < io.maxfd}
(* Mutant: what is watched is taken for what select returned.              *)
AllWatched == {x \in io.rfds : x < io.maxfd}

ReadyToRead == {x \in io.rfds : x < io.maxfd /\ Readable(x)}
ReadyToWrite == {x \in io.wfds : x < io.maxfd /\ io.file[x].end = "out"}

text_calc_timeout ==
    Min({loop.next} \cup {conn[c].wait : c \in {d \in Conns : conn[d].state = "PENALTY_BOX"}})

(* A negative count is EINVAL, a closed descriptor EBADF.                  *)
SelectFails == io.maxfd < 0 \/ \E x \in Watched : io.file[x] = Free

Select ==
    /\ At("select")
    /\ ~SelectFails
    /\ ReadyToRead \cup ReadyToWrite # {} \/ text_calc_timeout = 0
    /\ loop' = [loop EXCEPT !.pc = "retry", !.r = ReadyToRead, !.w = ReadyToWrite]
    /\ UNCHANGED <<conn, io, toBack, fromBack, be>>

Return ==
    /\ At("select")
    /\ SelectFails
    /\ Go("returned")
    /\ UNCHANGED <<conn, io, toBack, fromBack, be>>

(* Time passes in select.                                                  *)
Tick ==
    /\ At("select")
    /\ ~SelectFails
    /\ loop.next > 0 \/ \E c \in Conns : conn[c].wait > 0
    /\ conn' = [c \in Conns |-> [conn[c] EXCEPT !.wait = IF @ > 0 THEN @ - 1 ELSE 0]]
    /\ loop' = [loop EXCEPT !.next = IF @ > 0 THEN @ - 1 ELSE 0]
    /\ UNCHANGED <<io, toBack, fromBack, be>>

(* FD_ISSET of -1, for a connection that was never opened, is undefined:   *)
(* the bit reads as clear, or a checking C library stops the program.      *)
Abort ==
    /\ At("read")
    /\ io.fds[loop.i].in = Unopened
    /\ Go("aborted")
    /\ UNCHANGED <<conn, io, toBack, fromBack, be>>

(* proto_do_io, first half, for connection i: proto_do_conn_input.  Where  *)
(* the pipe is empty and its writer alive, read waits.                     *)
Read ==
    LET i == loop.i
        x == io.fds[i].in
    IN  /\ At("read")
        /\ \/ /\ x \notin loop.r
              /\ Go("write")
              /\ UNCHANGED <<conn, io, toBack, fromBack, be>>
           \/ /\ x \in loop.r
              /\ io.file[x].end = "in"
              /\ LET d == io.file[x].of
                 IN  \E n \in 1 .. Len(fromBack[d]) :
                       /\ conn' = [conn EXCEPT ![i].bin = SubSeq(fromBack[d], 1, n)]
                       /\ fromBack' = [fromBack EXCEPT ![d] = SubSeq(@, n + 1, Len(@))]
              /\ Go("line")
              /\ UNCHANGED <<io, toBack, be>>
           \/ /\ x \in loop.r
              /\ io.file[x].end = "in" => fromBack[io.file[x].of] = <<>> /\ ~be[io.file[x].of].up
              /\ Close(i)
              /\ Go("write")

(* The loop over buffer_get_line.  A data item is never refused here.      *)
ProcessLine ==
    LET i    == loop.i
        line == Head(conn[i].bin)
        s    == [conn[i] EXCEPT !.bin = Tail(@)]
    IN  /\ At("line")
        /\ conn[i].bin # <<>>
        /\ IF Closes(s, line)
             THEN Close(i)
             ELSE /\ Handled(i, proto_process_line(i, s, line, TRUE))
                  /\ UNCHANGED <<toBack, fromBack, be>>
        /\ IF conn'[i].bin = <<>> THEN Go("write") ELSE UNCHANGED loop

(* proto_do_io, second half: proto_do_conn_output, then the next i.        *)
(* Mutant: one connection too many.                                        *)
NextConnPast == loop' = IF loop.i > Cardinality(Conns)
                          THEN [loop EXCEPT !.pc = "poll", !.i = 1, !.r = {}, !.w = {}]
                          ELSE [loop EXCEPT !.pc = "read", !.i = @ + 1]

NextConn == loop' = IF loop.i = Cardinality(Conns)
                      THEN [loop EXCEPT !.pc = "poll", !.i = 1, !.r = {}, !.w = {}]
                      ELSE [loop EXCEPT !.pc = "read", !.i = @ + 1]

Write ==
    LET i == loop.i
        x == io.fds[i].out
    IN  /\ At("write")
        /\ \/ /\ x \notin loop.w
              /\ UNCHANGED <<conn, io, toBack, fromBack, be>>
           \/ /\ x \in loop.w
              /\ conn[i].bout = <<>>
              /\ io' = text_delete_fd(io, i, {"write"})
              /\ UNCHANGED <<conn, toBack, fromBack, be>>
           \/ /\ x \in loop.w
              /\ io.file[x].end = "out" /\ be[io.file[x].of].up
              /\ \E n \in 1 .. Len(conn[i].bout) :
                   LET s == Written(conn[i], n)
                   IN  /\ conn' = [conn EXCEPT ![i] = s]
                       /\ toBack' = [toBack EXCEPT ![io.file[x].of] =
                                       @ \o SubSeq(conn[i].bout, 1, n)]
                       /\ io' = IF s.bout = <<>> THEN text_delete_fd(io, i, {"write"})
                                                 ELSE io
              /\ UNCHANGED <<fromBack, be>>
           \/ /\ x \in loop.w
              /\ conn[i].bout # <<>>
              /\ io.file[x].end = "out" => ~be[io.file[x].of].up
              /\ Close(i)
        /\ NextConn

(* Mutants: no connection is polled; every one is, whatever its state.     *)
PolledNever(c) == conn[c]
PolledAlways(c) == proto_poll_conn(conn[c])

(* The end of an iteration: proto_do_poll, if it is time.                  *)
Polled(c) == IF WantsPoll(conn[c]) THEN proto_poll_conn(conn[c]) ELSE conn[c]

Poll ==
    /\ At("poll")
    /\ IF loop.next = 0
         THEN /\ conn' = [c \in Conns |-> [Polled(c) EXCEPT !.watch = {}]]
              /\ io' = text_add_fd(io, [c \in Conns |-> Polled(c).watch])
              /\ loop' = [loop EXCEPT !.pc = "select", !.next = PollFreq]
         ELSE Go("select") /\ UNCHANGED <<conn, io>>
    /\ UNCHANGED <<toBack, fromBack, be>>

LoopStep == Start \/ Select \/ Return \/ Retry \/ Abort \/ Read \/ ProcessLine \/ Write \/ Poll

BackStep(c) == BackEndStep(c) /\ UNCHANGED <<conn, io, loop>>

Next == LoopStep \/ Tick \/ \E c \in Conns : BackStep(c)

Spec == Init /\ [][Next]_vars

(* One thread that always goes on when it can, and back ends that greet    *)
(* and answer in the end.  Time passes also while the thread is busy: it   *)
(* cannot go through its loop for ever within a second.                    *)
FairSpec == /\ Spec
            /\ WF_vars(LoopStep)
            /\ SF_vars(Tick)
            /\ \A c \in Conns :
                 SF_vars((Greet(c) \/ Answer(c)) /\ UNCHANGED <<conn, io, loop>>)

-------------------------------------------------------------------------------
(* Properties *)

Open(c) == conn[c].state # "PENALTY_BOX"

(* Between two iterations the interface looks at exactly the descriptors   *)
(* of the open connections, for reading always and for writing while there *)
(* is something to write; they are still theirs, and below maxfd, so that  *)
(* select sees them.                                                       *)
WatchedServed ==
    At("select") =>
      \A c \in Conns : Open(c) =>
        LET f == io.fds[c]
        IN  /\ io.file[f.in] = [of |-> c, end |-> "in"]
            /\ io.file[f.out] = [of |-> c, end |-> "out"]
            /\ f.in \in io.rfds /\ f.in < io.maxfd
            /\ f.out \in io.wfds <=> conn[c].bout # <<>>
            /\ f.out \in io.wfds => f.out < io.maxfd

(* No pipe stays open, or watched, that no open connection owns.           *)
NothingLeaked ==
    \A x \in Fds :
      /\ io.file[x] # Free =>
           Open(io.file[x].of) /\ x \in {io.fds[io.file[x].of].in, io.fds[io.file[x].of].out}
      /\ x \in io.rfds \cup io.wfds => io.file[x] # Free

(* GUI:38-40: after delete_fd the interface no longer responds to the      *)
(* descriptors of a connection.  connection_close deletes both.            *)
ClosedNotServed ==
    /\ At("read") /\ io.fds[loop.i].in \in loop.r => Open(loop.i)
    /\ At("write") /\ io.fds[loop.i].out \in loop.w /\ ~Open(loop.i)
         => io.file[io.fds[loop.i].out] = Free

(* The thread reads only what is there: it never waits in read for one     *)
(* back end while the others wait for it.                                  *)
NeverBlocks ==
    At("read") /\ io.fds[loop.i].in \in loop.r =>
      LET e == io.file[io.fds[loop.i].in]
      IN  e.end = "in" => fromBack[e.of] # <<>> \/ ~be[e.of].up

(* netbiff stops by itself only while some connection was never opened.    *)
StopsOnlyUnopened ==
    /\ At("aborted") => \E c \in Conns : io.fds[c].in = Unopened
    /\ At("returned") => \A c \in Conns : io.fds[c].in = Unopened

(* The loop implements Frontend: what the sets of descriptors say is what  *)
(* Frontend keeps as watch.                                                *)
Seen(c) ==
    [conn[c] EXCEPT !.watch =
       IF ~Open(c) THEN {}
       ELSE {t \in {"read", "write"} :
               IF t = "read" THEN io.fds[c].in \in io.rfds ELSE io.fds[c].out \in io.wfds}]

F == INSTANCE Frontend WITH conn <- [c \in Conns |-> Seen(c)]

FrontendRefined == F!Spec

(* A connection whose back end keeps dying is opened again and again, and  *)
(* one whose back end is well goes on being polled meanwhile: again and    *)
(* again a poll is on its way, and again and again it has been answered.   *)
Reopened == \A c \in Conns : ~Open(c) ~> Open(c)

StillPolled ==
    \A c \in Conns : Faults[c] = {} =>
      /\ []<>(conn[c].state = "NORMAL" /\ conn[c].pending > 0)
      /\ []<>(conn[c].state = "NORMAL" /\ conn[c].pending = 0)
===============================================================================
