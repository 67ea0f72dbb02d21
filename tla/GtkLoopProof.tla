----------------------------- MODULE GtkLoopProof -----------------------------
(***************************************************************************)
(* Proofs about GtkLoop for every number of connections, every             *)
(* configuration and every bound: that retries are scheduled, sources and  *)
(* the main image are right, and, if no back end exits whose user may      *)
(* still have to be asked, that the main loop implements Frontend.         *)
(***************************************************************************)
EXTENDS GtkLoop, ProtoProof

-------------------------------------------------------------------------------
(* Sources *)

LEMMA AddFd ==
  ASSUME NEW t \in IOs, NEW types \in [Conns -> SUBSET {"read", "write"}],
         \A c \in Conns : types[c] # {} => t.fds[c] \in Numbers
  PROVE  LET u == gtk_add_fd(t, types)
         IN  /\ u \in IOs /\ u.file = t.file /\ u.fds = t.fds
             /\ \A c \in Conns :
                  /\ u.reads[c] = IF "read" \in types[c] THEN Append(t.reads[c], t.fds[c].in)
                                  ELSE t.reads[c]
                  /\ u.writes[c] = IF "write" \in types[c] THEN Append(t.writes[c], t.fds[c].out)
                                   ELSE t.writes[c]
<1> DEFINE u == gtk_add_fd(t, types)
           rd == [c \in Conns |-> IF "read" \in types[c] THEN Append(t.reads[c], t.fds[c].in)
                                                         ELSE t.reads[c]]
           wr == [c \in Conns |-> IF "write" \in types[c] THEN Append(t.writes[c], t.fds[c].out)
                                                          ELSE t.writes[c]]
<1>1. /\ t.file \in Files /\ t.fds \in [Conns -> FdPairs]
      /\ t.reads \in [Conns -> Seq(Fds)] /\ t.writes \in [Conns -> Seq(Fds)]
  BY DEF IOs
<1>2. u = [t EXCEPT !.reads = rd, !.writes = wr]
  BY Zenon DEF gtk_add_fd
<1>3. rd \in [Conns -> Seq(Fds)]
  <2>1. ASSUME NEW c \in Conns PROVE rd[c] \in Seq(Fds)
    <3>1. CASE "read" \in types[c]
      <4>1. t.fds[c].in \in Fds /\ t.reads[c] \in Seq(Fds)
        BY <1>1, <3>1 DEF Numbers
      <4> QED
        BY <3>1, <4>1, AppendProperties
    <3>2. CASE "read" \notin types[c]
      BY <1>1, <3>2
    <3> QED
      BY <3>1, <3>2
  <2> QED
    BY <2>1
<1>4. wr \in [Conns -> Seq(Fds)]
  <2>1. ASSUME NEW c \in Conns PROVE wr[c] \in Seq(Fds)
    <3>1. CASE "write" \in types[c]
      <4>1. t.fds[c].out \in Fds /\ t.writes[c] \in Seq(Fds)
        BY <1>1, <3>1 DEF Numbers
      <4> QED
        BY <3>1, <4>1, AppendProperties
    <3>2. CASE "write" \notin types[c]
      BY <1>1, <3>2
    <3> QED
      BY <3>1, <3>2
  <2> QED
    BY <2>1
<1>5. \A c \in Conns :
        /\ rd[c] = IF "read" \in types[c] THEN Append(t.reads[c], t.fds[c].in) ELSE t.reads[c]
        /\ wr[c] = IF "write" \in types[c] THEN Append(t.writes[c], t.fds[c].out)
                   ELSE t.writes[c]
  BY Zenon
<1> HIDE DEF rd, wr, u
<1>6. /\ u \in IOs /\ u.file = t.file /\ u.fds = t.fds /\ u.reads = rd /\ u.writes = wr
  BY <1>1, <1>2, <1>3, <1>4 DEF IOs
<1> QED
  BY <1>5, <1>6 DEF u

(* A tag is removed from a list, or there was none.                        *)
LEMMA TagsDeleted ==
  ASSUME NEW tags \in Seq(Fds)
  PROVE  /\ taglist_delete(tags) \in Seq(Fds)
         /\ tags = <<>> => taglist_delete(tags) = <<>>
BY HeadTailProperties, EmptySeq DEF taglist_delete

LEMMA DeleteFd ==
  ASSUME NEW t \in IOs, NEW c \in Conns, NEW types \in SUBSET {"read", "write"}
  PROVE  LET u == gtk_delete_fd(t, c, types)
         IN  /\ u \in IOs /\ u.file = t.file /\ u.fds = t.fds
             /\ \A d \in Conns :
                  /\ u.reads[d] = IF d = c /\ "read" \in types THEN taglist_delete(t.reads[d])
                                  ELSE t.reads[d]
                  /\ u.writes[d] = IF d = c /\ "write" \in types THEN taglist_delete(t.writes[d])
                                   ELSE t.writes[d]
<1> DEFINE u == gtk_delete_fd(t, c, types)
           rd == [d \in Conns |-> IF d = c /\ "read" \in types THEN taglist_delete(t.reads[d])
                                                               ELSE t.reads[d]]
           wr == [d \in Conns |-> IF d = c /\ "write" \in types THEN taglist_delete(t.writes[d])
                                                                ELSE t.writes[d]]
<1>1. /\ t.file \in Files /\ t.fds \in [Conns -> FdPairs]
      /\ t.reads \in [Conns -> Seq(Fds)] /\ t.writes \in [Conns -> Seq(Fds)]
  BY DEF IOs
<1>2. u = [t EXCEPT !.reads = rd, !.writes = wr]
  BY Zenon DEF gtk_delete_fd
<1>3. rd \in [Conns -> Seq(Fds)] /\ wr \in [Conns -> Seq(Fds)]
  BY <1>1, TagsDeleted
<1>4. \A d \in Conns :
        /\ rd[d] = IF d = c /\ "read" \in types THEN taglist_delete(t.reads[d]) ELSE t.reads[d]
        /\ wr[d] = IF d = c /\ "write" \in types THEN taglist_delete(t.writes[d])
                   ELSE t.writes[d]
  BY Zenon
<1> HIDE DEF rd, wr, u
<1>5. /\ u \in IOs /\ u.file = t.file /\ u.fds = t.fds /\ u.reads = rd /\ u.writes = wr
  BY <1>1, <1>2, <1>3 DEF IOs
<1> QED
  BY <1>4, <1>5 DEF u

(* What closing the descriptors of c leaves of a table: its ends are free, *)
(* the oldest of its tags of each kind is gone.                            *)
Stripped(t, c, u) ==
    /\ u \in IOs /\ u.fds = t.fds /\ u.file = Emptied(t, c)
    /\ u.reads[c] = taglist_delete(t.reads[c])
    /\ t.writes[c] = <<>> => u.writes[c] = <<>>
    /\ \A d \in Conns \ {c} : u.reads[d] = t.reads[d] /\ u.writes[d] = t.writes[d]

LEMMA CloseFdsStrips ==
  ASSUME NEW t \in IOs, NEW c \in Conns
  PROVE  Stripped(t, c, CloseFds(t, c))
<1> DEFINE shut == Shut(t, c)
           u == CloseFds(t, c)
<1>1. /\ t.file \in Files /\ t.fds \in [Conns -> FdPairs]
      /\ t.reads \in [Conns -> Seq(Fds)] /\ t.writes \in [Conns -> Seq(Fds)]
  BY DEF IOs
<1>2. /\ shut \in IOs /\ shut.file = Emptied(t, c)
      /\ shut.fds = t.fds /\ shut.reads = t.reads /\ shut.writes = t.writes
  <2> DEFINE left == Emptied(t, c)
  <2>1. shut = [t EXCEPT !.file = left]
    BY DEF Shut, Emptied, IOs
  <2>2. left \in Files
    BY <1>1 DEF Files, Emptied
  <2> HIDE DEF left, shut
  <2>3. /\ shut \in IOs /\ shut.file = left
        /\ shut.fds = t.fds /\ shut.reads = t.reads /\ shut.writes = t.writes
    BY <1>1, <2>1, <2>2 DEF IOs
  <2> QED
    BY <2>3 DEF left
<1>3. u = gtk_delete_fd(shut, c, {"read", "write"})
  BY DEF CloseFds
<1> HIDE DEF shut, u
<1>4. /\ u \in IOs /\ u.file = Emptied(t, c) /\ u.fds = t.fds
      /\ \A d \in Conns : /\ u.reads[d] = IF d = c THEN taglist_delete(t.reads[d]) ELSE t.reads[d]
                          /\ u.writes[d] = IF d = c THEN taglist_delete(t.writes[d])
                                           ELSE t.writes[d]
  BY <1>2, <1>3, DeleteFd
<1>5. Stripped(t, c, u)
  BY <1>1, <1>4, TagsDeleted DEF Stripped
<1> QED
  BY <1>5 DEF u

-------------------------------------------------------------------------------
(* Types *)

(* Whoever has sources, is served or is asked for was started once.        *)
Addressed(c, s, t, l) ==
    \/ s.state # "PENALTY_BOX" \/ t.reads[c] # <<>> \/ t.writes[c] # <<>>
    \/ c \in {l.serving, l.asking}
    => t.fds[c] \in Numbers

(* While lines are processed there is one to process.                      *)
LoopInv == loop.pc \in {"next", "line", "answer"} =>
             loop.serving \in Conns /\ conn[loop.serving].bin # <<>>

TypeInv == /\ TypeOK
           /\ \A c \in Conns : RecordInv(c, conn[c])
           /\ \A c \in Conns : Addressed(c, conn[c], io, loop)
           /\ Owned(io.file, io.fds, OpenIn(conn))
           /\ LoopInv

LEMMA ConnsNumbers == Conns \subseteq Nat /\ Nobody \notin Conns
<1>1. Cardinality(Conns) \in Nat
  BY FdAssumption, FS_CardinalityType
<1> QED
  BY <1>1, ConnsAssumption DEF Nobody

LEMMA TypeInit == Init => TypeInv
<1> SUFFICES ASSUME Init PROVE TypeInv
  OBVIOUS
<1>1. /\ conn = [c \in Conns |-> connection_init] /\ main = "down" /\ BackInit
      /\ io = [ file |-> NoFiles, fds |-> [c \in Conns |-> NoFds],
                reads |-> [c \in Conns |-> <<>>], writes |-> [c \in Conns |-> <<>>] ]
      /\ timers = [ poll |-> PollFreq, retry |-> [k \in Delays |-> 0] ]
      /\ loop = [pc |-> "start", serving |-> Nobody, asking |-> Nobody, entered |-> FALSE]
  BY DEF Init
<1>2. \A c \in Conns : RecordInv(c, conn[c]) /\ conn[c].state = "PENALTY_BOX"
  BY <1>1, InitRecord
<1>3. io \in IOs
  <2>1. NoFiles \in Files /\ NoFds \in FdPairs
    BY DEF NoFiles, Files, NoFds, FdPairs
  <2>2. [c \in Conns |-> <<>>] \in [Conns -> Seq(Fds)]
    BY EmptySeq
  <2> QED
    BY <1>1, <2>1, <2>2 DEF IOs
<1>4. timers \in Timers /\ loop \in Loops
  BY <1>1, FreqAssumption DEF Timers, Loops
<1>5. TypeOK
  <2>1. conn \in [Conns -> ConnRecords]
    BY <1>1, <1>2 DEF RecordInv, Shape
  <2>2. BackTypeOK
    BY <1>1, EmptySeq DEF BackInit, BackTypeOK, Gone, BackEnds
  <2> QED
    BY <1>1, <1>3, <1>4, <2>1, <2>2 DEF TypeOK
<1>6. \A c \in Conns : Addressed(c, conn[c], io, loop)
  <2>1. \A c \in Conns : c # Nobody
    BY ConnsNumbers
  <2> QED
    BY <1>1, <1>2, <2>1 DEF Addressed
<1>7. Owned(io.file, io.fds, OpenIn(conn))
  BY <1>1 DEF Owned, NoFiles
<1>8. LoopInv
  BY <1>1 DEF LoopInv
<1> QED
  BY <1>2, <1>5, <1>6, <1>7, <1>8 DEF TypeInv

LEMMA Fields ==
  ASSUME TypeInv
  PROVE  /\ conn \in [Conns -> ConnRecords] /\ io \in IOs /\ timers \in Timers /\ loop \in Loops
         /\ io.file \in Files /\ io.fds \in [Conns -> FdPairs]
         /\ io.reads \in [Conns -> Seq(Fds)] /\ io.writes \in [Conns -> Seq(Fds)]
         /\ toBack \in [Conns -> Seq(Commands)] /\ fromBack \in [Conns -> Seq(Lines)]
         /\ be \in [Conns -> BackEnds]
         /\ \A c \in Conns : conn[c].watch = {}
BY DEF TypeInv, TypeOK, BackTypeOK, IOs, RecordInv

(* A descriptor at which something can be read or written is in use.       *)
LEMMA InUse ==
  ASSUME TypeInv, NEW x \in Fds, io.file[x].end \in {"in", "out"}
  PROVE  io.file[x] # Free /\ io.file[x] \in Ends /\ io.file[x].of \in Conns
<1>1. io.file[x] \in Ends \cup {Free}
  BY Fields DEF Files
<1>2. io.file[x] # Free
  BY DEF Free
<1> QED
  BY <1>1, <1>2 DEF Ends

LEMMA SourcesNumbered ==
  ASSUME TypeInv, NEW c \in Conns
  PROVE  /\ InputReady(c) => io.fds[c] \in Numbers
         /\ OutputReady(c) => io.fds[c] \in Numbers
<1>1. InputReady(c) => io.reads[c] # <<>>
  BY Fields, EmptySeq DEF InputReady
<1>2. OutputReady(c) => io.writes[c] # <<>>
  BY Fields, EmptySeq DEF OutputReady
<1> QED
  BY <1>1, <1>2 DEF TypeInv, Addressed

LEMMA Untouched ==
  ASSUME TypeInv, NEW d \in Conns, conn'[d] = conn[d], NEW in
  PROVE  LoopStepOf(d, conn[d], conn'[d], in)
BY Fields DEF LoopStepOf, HandlerStep

LEMMA CloseRecords ==
  ASSUME TypeInv, NEW c \in Conns, NEW t, Close(c, t), NEW d \in Conns, NEW in
  PROVE  LoopStepOf(d, conn[d], conn'[d], in)
<1>1. conn' = [conn EXCEPT ![c] = connection_close(@)]
  BY DEF Close
<1>2. CASE d = c
  <2>1. conn'[d] = connection_close(conn[d]) /\ conn[d] \in ConnRecords
    BY <1>1, <1>2, Fields
  <2>2. connection_close(conn[d]).watch = {}
    BY <2>1 DEF connection_close, ConnRecords
  <2> QED
    BY <2>1, <2>2 DEF LoopStepOf, HandlerStep, Shuts
<1>3. CASE d # c
  BY <1>1, <1>3, Fields, Untouched
<1> QED
  BY <1>2, <1>3

LEMMA HandledRecords ==
  ASSUME TypeInv, NEW c \in Conns, NEW r, Handled(c, r), NEW d \in Conns, NEW in,
         HandlerStep(c, conn[c], r, in) \/ Answers(conn[c], r)
  PROVE  LoopStepOf(d, conn[d], conn'[d], in)
<1>1. conn' = [conn EXCEPT ![c] = Muted(r)]
  BY DEF Handled, Muted
<1>2. CASE d = c
  BY <1>1, <1>2, Fields DEF LoopStepOf
<1>3. CASE d # c
  BY <1>1, <1>3, Fields, Untouched
<1> QED
  BY <1>2, <1>3

(* Reading, and taking a line that is put back for later.                  *)
LEMMA BinRecords ==
  ASSUME TypeInv, NEW c \in Conns, NEW in, NEW q \in Seq(in),
         conn' = [conn EXCEPT ![c].bin = q], NEW d \in Conns
  PROVE  LoopStepOf(d, conn[d], conn'[d], in)
<1>1. CASE d = c
  <2>1. conn'[d] = [conn[d] EXCEPT !.bin = q] /\ conn[d] \in ConnRecords /\ conn[d].watch = {}
    BY <1>1, Fields
  <2>2. conn'[d].watch = {}
    BY <2>1 DEF ConnRecords
  <2> QED
    BY <2>1, <2>2 DEF LoopStepOf, HandlerStep, Reads
<1>2. CASE d # c
  BY <1>2, Fields, Untouched
<1> QED
  BY <1>1, <1>2

(* What may be read into bin.                                              *)
Readable(c, in) ==
    InputReady(c) /\ io.fds[c].in \in Fds /\ io.file[io.fds[c].in].end = "in" =>
      fromBack[io.file[io.fds[c].in].of] \in Seq(in)

LEMMA LoopRecords ==
  ASSUME TypeInv, [Next]_vars, NEW d \in Conns, NEW in, conn[d].bin \in Seq(in),
         DataRequest \in in, Readable(d, in)
  PROVE  LoopStepOf(d, conn[d], conn'[d], in)
<1>0. conn \in [Conns -> ConnRecords] /\ conn[d] \in ConnRecords /\ conn[d].watch = {}
  BY Fields
<1>1. CASE proto_do_retries
  <2>1. PICK started \in SUBSET {c \in Conns : WantsRetry(conn[c])} :
          conn' = [c \in Conns |-> IF c \in started
                                     THEN [proto_init_conn(conn[c]) EXCEPT !.watch = {}]
                                     ELSE conn[c]]
    BY <1>1 DEF proto_do_retries
  <2>2. CASE d \in started
    <3>1. conn'[d] = Muted(proto_init_conn(conn[d])) /\ WantsRetry(conn[d])
      BY <2>1, <2>2 DEF Muted
    <3> QED
      BY <3>1 DEF LoopStepOf, HandlerStep, Opens
  <2>3. CASE d \notin started
    BY <2>1, <2>3, Untouched
  <2> QED
    BY <2>2, <2>3
<1>2. CASE gtk_poll_shim
  <2>1. conn'[d] = Muted(Polled(d))
    BY <1>2 DEF gtk_poll_shim, Muted
  <2>2. HandlerStep(d, conn[d], Polled(d), in)
    BY DEF Polled, HandlerStep, Polls
  <2> QED
    BY <2>1, <2>2 DEF LoopStepOf
<1>3. ASSUME NEW c \in Conns, Input(c) PROVE LoopStepOf(d, conn[d], conn'[d], in)
  <2> DEFINE x == io.fds[c].in
             e == io.file[x].of
  <2>1. x \in Fds
    BY <1>3, SourcesNumbered DEF Input, Numbers
  <2>2. ASSUME NEW n \in 1 .. Len(fromBack[e]), io.file[x].end = "in",
               conn' = [conn EXCEPT ![c].bin = SubSeq(fromBack[e], 1, n)]
        PROVE  LoopStepOf(d, conn[d], conn'[d], in)
    <3>1. CASE d = c
      <4>1. fromBack[e] \in Seq(in)
        BY <1>3, <2>1, <2>2, <3>1 DEF Readable, Input
      <4>2. SubSeq(fromBack[e], 1, n) \in Seq(in)
        BY <2>2, <4>1, CutSeq
      <4> QED
        BY <2>2, <4>2, BinRecords
    <3>2. CASE d # c
      BY <1>0, <2>2, <3>2, Untouched
    <3> QED
      BY <3>1, <3>2
  <2>3. ASSUME Close(c, CloseFds(io, c)) PROVE LoopStepOf(d, conn[d], conn'[d], in)
    BY <2>3, CloseRecords
  <2> QED
    BY <1>3, <2>2, <2>3 DEF Input
<1>4. CASE TakeLine
  <2> DEFINE c == loop.serving
  <2>1. c \in Conns /\ conn[c].bin # <<>>
    BY <1>4 DEF TakeLine, TypeInv, LoopInv
  <2>2. conn' = [conn EXCEPT ![c].bin = Tail(@)] \/ conn' = conn
    BY <1>4 DEF TakeLine
  <2>3. CASE d = c /\ conn' = [conn EXCEPT ![c].bin = Tail(@)]
    <3>1. Tail(conn[c].bin) \in Seq(in)
      BY <2>1, <2>3, HeadTailProperties
    <3>2. conn' = [conn EXCEPT ![c].bin = Tail(conn[c].bin)]
      BY <2>3
    <3> QED
      BY <2>1, <3>1, <3>2, BinRecords
  <2>4. CASE d # c \/ conn' = conn
    BY <1>0, <2>2, <2>4, Untouched
  <2> QED
    BY <2>2, <2>3, <2>4
<1>5. CASE Answered
  <2> DEFINE c == loop.asking
             q == <<DataRequest>> \o conn[c].bin
  <2>1. c \in Conns
    BY <1>5, Fields DEF Answered, Loops
  <2>2. conn' = [conn EXCEPT ![c].bin = q]
    BY <1>5 DEF Answered
  <2>3. CASE d = c
    <3>1. q \in Seq(in)
      BY <2>3, ConsProperties
    <3> HIDE DEF q
    <3> QED
      BY <2>1, <2>2, <3>1, BinRecords
  <2>4. CASE d # c
    BY <1>0, <2>2, <2>4, Untouched
  <2> QED
    BY <2>3, <2>4
<1>6. CASE ProcessAnswer
  <2> DEFINE c == loop.serving
             r == Respond([conn[c] EXCEPT !.bin = Tail(@)])
  <2>1. c \in Conns /\ conn[c].bin # <<>>
    BY <1>6 DEF ProcessAnswer, TypeInv, LoopInv
  <2>2. Handled(c, r)
    BY <1>6 DEF ProcessAnswer
  <2>3. Answers(conn[c], r)
    BY <2>1 DEF Answers
  <2> HIDE DEF r
  <2> QED
    BY <2>1, <2>2, <2>3, HandledRecords
<1>7. CASE ProcessLine
  <2> DEFINE c == loop.serving
             line == Head(conn[c].bin)
             s == [conn[c] EXCEPT !.bin = Tail(@)]
             r == proto_process_line(c, s, line, c \notin Prompting)
  <2>1. c \in Conns /\ conn[c].bin # <<>>
    BY <1>7 DEF ProcessLine, TypeInv, LoopInv
  <2>2. Close(c, CloseFds(io, c)) \/ Handled(c, r)
    BY <1>7 DEF ProcessLine
  <2>3. HandlerStep(c, conn[c], r, in)
    <3>1. (c \notin Prompting) \in BOOLEAN
      OBVIOUS
    <3> QED
      BY <2>1, <3>1 DEF HandlerStep, Processes
  <2> HIDE DEF r
  <2> QED
    BY <2>1, <2>2, <2>3, HandledRecords, CloseRecords
<1>8. ASSUME NEW c \in Conns, Output(c) PROVE LoopStepOf(d, conn[d], conn'[d], in)
  <2>1. ASSUME NEW n \in 1 .. Len(conn[c].bout), conn' = [conn EXCEPT ![c] = Written(conn[c], n)]
        PROVE  LoopStepOf(d, conn[d], conn'[d], in)
    <3>1. CASE d = c
      <4>1. conn'[d] = Written(conn[d], n) /\ n \in 0 .. Len(conn[d].bout)
        BY <1>0, <2>1, <3>1
      <4>2. conn'[d].watch = {}
        BY <1>0, <4>1 DEF Written, ConnRecords
      <4> QED
        BY <4>1, <4>2 DEF LoopStepOf, HandlerStep, Writes
    <3>2. CASE d # c
      BY <1>0, <2>1, <3>2, Untouched
    <3> QED
      BY <3>1, <3>2
  <2>2. ASSUME UNCHANGED conn PROVE LoopStepOf(d, conn[d], conn'[d], in)
    BY <2>2, Untouched
  <2> QED
    BY <1>8, <2>1, <2>2 DEF Output, BrokenPipe
<1>9. CASE Tick
  <2>1. conn'[d] = [conn[d] EXCEPT !.wait = IF @ > 0 THEN @ - 1 ELSE 0]
    BY <1>9 DEF Tick
  <2> QED
    BY <2>1 DEF LoopStepOf, Ages
<1>10. CASE UNCHANGED conn
  BY <1>10, Untouched
<1> QED
  BY <1>1, <1>2, <1>3, <1>4, <1>5, <1>6, <1>7, <1>8, <1>9, <1>10
     DEF Next, LoopStep, UserStep, Callback, BackStep, Start, gtk_retry_shim, image_clicked, vars

(* Back ends that are left keep nothing; the others keep what they have.   *)
LEMMA UnheldTypes ==
  ASSUME TypeInv, NEW t, LeaveUnheld(t)
  PROVE  BackTypeOK'
<1>1. /\ toBack' = [d \in Conns |-> IF Held(t, d) THEN toBack[d] ELSE <<>>]
      /\ fromBack' = [d \in Conns |-> IF Held(t, d) THEN fromBack[d] ELSE <<>>]
      /\ be' = [d \in Conns |-> IF Held(t, d) THEN be[d] ELSE Gone]
  BY DEF LeaveUnheld
<1>2. Gone \in BackEnds
  BY DEF Gone, BackEnds
<1> QED
  BY <1>1, <1>2, Fields, EmptySeq DEF BackTypeOK

LEMMA BackTypesStep ==
  ASSUME TypeInv, [Next]_vars
  PROVE  BackTypeOK'
<1>0. BackTypeOK
  BY DEF TypeInv, TypeOK
<1>1. CASE proto_do_retries
  <2>1. Fresh \in BackEnds
    BY DEF Fresh, Gone, BackEnds
  <2>2. PICK started : be' = [c \in Conns |-> IF c \in started THEN Fresh ELSE be[c]]
    BY <1>1 DEF proto_do_retries
  <2>3. toBack' = toBack /\ fromBack' = fromBack
    BY <1>1 DEF proto_do_retries
  <2> QED
    BY <2>1, <2>2, <2>3, Fields DEF BackTypeOK
<1>2. ASSUME NEW c \in Conns, NEW t, Close(c, t) PROVE BackTypeOK'
  BY <1>2, UnheldTypes DEF Close
<1>3. ASSUME NEW c \in Conns, Input(c) PROVE BackTypeOK'
  <2> DEFINE x == io.fds[c].in
             e == io.file[x].of
  <2>1. x \in Fds
    BY <1>3, SourcesNumbered DEF Input, Numbers
  <2>2. ASSUME NEW n \in 1 .. Len(fromBack[e]), io.file[x].end = "in",
               fromBack' = [fromBack EXCEPT ![e] = SubSeq(@, n + 1, Len(@))],
               UNCHANGED <<toBack, be>>
        PROVE  BackTypeOK'
    <3>1. e \in Conns /\ fromBack[e] \in Seq(Lines)
      BY <2>1, <2>2, InUse, Fields
    <3>2. SubSeq(fromBack[e], n + 1, Len(fromBack[e])) \in Seq(Lines)
      <4>1. n \in 0 .. Len(fromBack[e])
        BY <2>2
      <4> QED
        BY <3>1, <4>1, CutSeq
    <3> QED
      BY <2>2, <3>1, <3>2, Fields DEF BackTypeOK
  <2> QED
    BY <1>2, <1>3, <2>2 DEF Input
<1>4. ASSUME NEW c \in Conns, Output(c) PROVE BackTypeOK'
  <2> DEFINE x == io.fds[c].out
             e == io.file[x].of
  <2>1. x \in Fds
    BY <1>4, SourcesNumbered DEF Output, Numbers
  <2>2. ASSUME NEW n \in 1 .. Len(conn[c].bout), io.file[x].end = "out",
               toBack' = [toBack EXCEPT ![e] = @ \o SubSeq(conn[c].bout, 1, n)],
               UNCHANGED <<fromBack, be>>
        PROVE  BackTypeOK'
    <3>1. e \in Conns /\ toBack[e] \in Seq(Commands) /\ conn[c].bout \in Seq(Commands)
      BY <2>1, <2>2, InUse, Fields DEF ConnRecords
    <3>2. SubSeq(conn[c].bout, 1, n) \in Seq(Commands)
      <4> DEFINE out == conn[c].bout
      <4>1. out \in Seq(Commands) /\ n \in 1 .. Len(out)
        BY <2>2, <3>1
      <4> HIDE DEF out
      <4>2. n \in 0 .. Len(out)
        BY <4>1
      <4>3. SubSeq(out, 1, n) \in Seq(Commands)
        BY <4>1, <4>2, CutCommands
      <4> QED
        BY <4>3 DEF out
    <3>3. toBack[e] \o SubSeq(conn[c].bout, 1, n) \in Seq(Commands)
      BY <3>1, <3>2, ConcatProperties
    <3> QED
      BY <2>2, <3>1, <3>3, Fields DEF BackTypeOK
  <2>3. ASSUME UNCHANGED <<toBack, fromBack, be>> PROVE BackTypeOK'
    BY <1>0, <2>3 DEF BackTypeOK
  <2> QED
    BY <1>4, <2>2, <2>3 DEF Output, BrokenPipe
<1>5. CASE ProcessLine
  <2>1. loop.serving \in Conns
    BY <1>5 DEF ProcessLine, TypeInv, LoopInv
  <2> QED
    BY <1>0, <1>2, <1>5, <2>1 DEF ProcessLine, BackTypeOK
<1>6. ASSUME NEW c \in Conns, BackStep(c) PROVE BackTypeOK'
  BY <1>0, <1>6, BackEndTypes DEF BackStep
<1>7. CASE UNCHANGED <<toBack, fromBack, be>>
  BY <1>0, <1>7 DEF BackTypeOK
<1> QED
  BY <1>1, <1>3, <1>4, <1>5, <1>6, <1>7
     DEF Next, LoopStep, UserStep, Callback, Start, gtk_retry_shim, gtk_poll_shim, TakeLine,
         Answered, ProcessAnswer, image_clicked, Tick, vars

(* Where the thread is *)
LEMMA LeftLoop ==
  ASSUME TypeInv, NEW c \in Conns
  PROVE  /\ Left(c) \in Loops /\ Left(c).pc = loop.pc /\ Left(c).serving = loop.serving
         /\ Left(c).asking = loop.asking
         /\ Left(c).entered <=> loop.entered /\ loop.asking # c
<1> DEFINE b == loop.entered /\ loop.asking # c
<1>1. Left(c) = [loop EXCEPT !.entered = b]
  BY Zenon DEF Left
<1>2. b \in BOOLEAN
  OBVIOUS
<1> HIDE DEF b
<1>3. /\ Left(c) \in Loops /\ Left(c).pc = loop.pc /\ Left(c).serving = loop.serving
      /\ Left(c).asking = loop.asking /\ Left(c).entered = b
  BY <1>1, <1>2, Fields DEF Loops
<1> QED
  BY <1>3, Zenon DEF b

(* A broken pipe ends the loop where it is.                                *)
LEMMA KilledLoop ==
  ASSUME TypeInv, NEW c, BrokenPipe(c)
  PROVE  /\ loop' \in Loops /\ loop'.pc = "killed" /\ loop'.serving = loop.serving
         /\ loop'.asking = loop.asking /\ loop'.entered = loop.entered
         /\ UNCHANGED <<conn, io, timers, main, toBack, fromBack, be>>
BY Fields DEF BrokenPipe, Loops

LEMMA ContinueLoop ==
  ASSUME TypeInv, NEW c \in Conns, c = loop.serving, Continue(c)
  PROVE  /\ loop' \in Loops /\ loop'.asking = loop.asking /\ loop'.entered = loop.entered
         /\ \/ loop'.pc = "next" /\ loop'.serving = c /\ conn'[c].bin # <<>>
            \/ loop'.pc = "idle" /\ loop'.serving = Nobody /\ conn'[c].bin = <<>>
<1>1. CASE conn'[c].bin # <<>>
  <2>1. loop' = [loop EXCEPT !.pc = "next"]
    BY <1>1 DEF Continue
  <2> QED
    BY <1>1, <2>1, Fields DEF Loops
<1>2. CASE conn'[c].bin = <<>>
  <2>1. loop' = [loop EXCEPT !.pc = "idle", !.serving = Nobody]
    BY <1>2 DEF Continue
  <2> QED
    BY <1>2, <2>1, Fields DEF Loops
<1> QED
  BY <1>1, <1>2

(* Descriptors and sources *)
TableInv(records, t, l) ==
    /\ t \in IOs
    /\ \A c \in Conns : Addressed(c, records[c], t, l)
    /\ Owned(t.file, t.fds, OpenIn(records))

(* Nobody else is served or asked for.                                     *)
Engaged(l) == {l.serving, l.asking}

(* The connections that are started, and what they get.                    *)
LEMMA RetryOpens ==
  ASSUME TypeInv, proto_do_retries
  PROVE  \E started \in SUBSET (Conns \ OpenIn(conn)) :
           /\ io' \in IOs /\ Owned(io'.file, io'.fds, OpenIn(conn) \cup started)
           /\ \A c \in started :
                /\ PipesOf(c, io'.file, io'.fds[c])
                /\ io'.reads[c] = Append(io.reads[c], io'.fds[c].in)
                /\ io'.writes[c] = io.writes[c]
                /\ conn'[c] = Muted(proto_init_conn(conn[c])) /\ be'[c] = Fresh
                /\ WantsRetry(conn[c])
           /\ \A c \in Conns \ started :
                /\ WantsRetry(conn[c]) => "refuse" \in Faults[c]
                /\ io'.fds[c] = io.fds[c]
                /\ io'.reads[c] = io.reads[c] /\ io'.writes[c] = io.writes[c]
                /\ conn'[c] = conn[c] /\ be'[c] = be[c]
           /\ \A x \in Fds : io.file[x] # Free => io'.file[x] = io.file[x]
<1>1. PICK started \in SUBSET {c \in Conns : WantsRetry(conn[c])} :
        /\ \A c \in {d \in Conns : WantsRetry(conn[d])} \ started : "refuse" \in Faults[c]
        /\ io' = Opened(io, started)
        /\ conn' = [c \in Conns |-> IF c \in started THEN Muted(proto_init_conn(conn[c]))
                                    ELSE conn[c]]
        /\ be' = [c \in Conns |-> IF c \in started THEN Fresh ELSE be[c]]
  BY DEF proto_do_retries, Muted
<1>2. started \in SUBSET (Conns \ OpenIn(conn)) /\ OpenIn(conn) \in SUBSET Conns
  BY <1>1 DEF OpenIn, WantsRetry
<1>3. PICK file \in Files, fds \in [Conns -> FdPairs] :
        /\ xpopen2(io, started) = Repiped(io, file, fds)
        /\ Owned(file, fds, OpenIn(conn) \cup started)
        /\ \A c \in started : PipesOf(c, file, fds[c])
        /\ \A c \in Conns \ started : fds[c] = io.fds[c]
        /\ \A x \in Fds : io.file[x] # Free => file[x] = io.file[x]
  <2>1. /\ Owned(io.file, io.fds, OpenIn(conn)) /\ Conns \subseteq Nat
        /\ io.file \in Files /\ io.fds \in [Conns -> FdPairs]
    BY Fields, ConnsNumbers DEF TypeInv, IOs
  <2> QED
    BY <1>2, <2>1, PipesMade, ZenonT(60)
<1> DEFINE u == Repiped(io, file, fds)
           types == [c \in Conns |-> IF c \in started THEN {"read"} ELSE {}]
<1>4. /\ u \in IOs /\ u.file = file /\ u.fds = fds /\ u.reads = io.reads /\ u.writes = io.writes
  BY <1>3, Fields DEF IOs, Repiped
<1>5. /\ types \in [Conns -> SUBSET {"read", "write"}]
      /\ \A c \in Conns : types[c] = IF c \in started THEN {"read"} ELSE {}
  OBVIOUS
<1>6. io' = gtk_add_fd(u, types)
  BY <1>1, <1>3 DEF Opened
<1> HIDE DEF u, types
<1>7. \A c \in Conns : types[c] # {} => u.fds[c] \in Numbers
  BY <1>3, <1>4, <1>5 DEF PipesOf
<1>8. /\ io' \in IOs /\ io'.file = file /\ io'.fds = fds
      /\ \A c \in Conns : /\ io'.writes[c] = io.writes[c]
                          /\ io'.reads[c] = IF c \in started THEN Append(io.reads[c], fds[c].in)
                                            ELSE io.reads[c]
  BY <1>4, <1>5, <1>6, <1>7, AddFd
<1>9. \A c \in Conns : IF c \in started
                       THEN /\ conn'[c] = Muted(proto_init_conn(conn[c])) /\ be'[c] = Fresh
                            /\ WantsRetry(conn[c])
                       ELSE /\ conn'[c] = conn[c] /\ be'[c] = be[c]
                            /\ WantsRetry(conn[c]) => "refuse" \in Faults[c]
  BY <1>1
<1> QED
  BY <1>2, <1>3, <1>8, <1>9

LEMMA RetryTable ==
  ASSUME TypeInv, proto_do_retries, Engaged(loop') = Engaged(loop)
  PROVE  TableInv(conn', io', loop')
<1>1. PICK started \in SUBSET (Conns \ OpenIn(conn)) :
        /\ io' \in IOs /\ Owned(io'.file, io'.fds, OpenIn(conn) \cup started)
        /\ \A c \in started : /\ PipesOf(c, io'.file, io'.fds[c])
                              /\ conn'[c] = Muted(proto_init_conn(conn[c]))
        /\ \A c \in Conns \ started :
             /\ io'.fds[c] = io.fds[c]
             /\ io'.reads[c] = io.reads[c] /\ io'.writes[c] = io.writes[c]
             /\ conn'[c] = conn[c]
  BY RetryOpens, ZenonT(60)
<1>2. \A c \in Conns : conn'[c].state = IF c \in started THEN "WAIT_HELLO" ELSE conn[c].state
  BY <1>1, Fields, InitFields
<1>3. OpenIn(conn') = OpenIn(conn) \cup started
  BY <1>2 DEF OpenIn
<1>4. ASSUME NEW c \in Conns PROVE Addressed(c, conn'[c], io', loop')
  <2>1. CASE c \in started
    BY <1>1, <2>1 DEF Addressed, PipesOf
  <2>2. CASE c \notin started
    BY <1>1, <1>2, <2>2 DEF Addressed, TypeInv, Engaged
  <2> QED
    BY <2>1, <2>2
<1> QED
  BY <1>1, <1>3, <1>4 DEF TableInv

LEMMA PolledFields ==
  ASSUME TypeInv, NEW c \in Conns
  PROVE  /\ Polled(c) \in ConnRecords /\ Polled(c).state = conn[c].state
         /\ Polled(c).watch # {} => conn[c].state = "NORMAL"
BY Fields, PollFields DEF Polled, WantsPoll

LEMMA PollTable ==
  ASSUME TypeInv, gtk_poll_shim
  PROVE  TableInv(conn', io', loop')
<1> DEFINE types == [c \in Conns |-> Polled(c).watch]
<1>1. /\ io' = gtk_add_fd(io, types) /\ loop' = loop
      /\ conn' = [c \in Conns |-> Muted(Polled(c))]
  BY DEF gtk_poll_shim, Muted
<1>2. /\ types \in [Conns -> SUBSET {"read", "write"}]
      /\ \A c \in Conns : types[c] # {} => conn[c].state = "NORMAL"
  BY PolledFields DEF ConnRecords
<1> HIDE DEF types
<1>3. \A c \in Conns : types[c] # {} => io.fds[c] \in Numbers
  BY <1>2 DEF TypeInv, Addressed
<1>4. /\ io' \in IOs /\ io'.file = io.file /\ io'.fds = io.fds
      /\ \A c \in Conns : types[c] = {} =>
           io'.reads[c] = io.reads[c] /\ io'.writes[c] = io.writes[c]
  <2>1. io \in IOs
    BY Fields
  <2> QED
    BY <1>1, <1>2, <1>3, <2>1, AddFd
<1>5. \A c \in Conns : conn'[c].state = conn[c].state
  BY <1>1, PolledFields, MutedFields
<1>6. OpenIn(conn') = OpenIn(conn)
  BY <1>5 DEF OpenIn
<1>7. ASSUME NEW c \in Conns PROVE Addressed(c, conn'[c], io', loop')
  <2>1. CASE types[c] # {}
    BY <1>3, <1>4, <2>1 DEF Addressed
  <2>2. CASE types[c] = {}
    BY <1>1, <1>4, <1>5, <2>2 DEF Addressed, TypeInv
  <2> QED
    BY <2>1, <2>2
<1> QED
  BY <1>4, <1>6, <1>7 DEF TableInv, TypeInv

LEMMA CloseTable ==
  ASSUME TypeInv, NEW c \in Conns, NEW t, Close(c, t), Stripped(io, c, t),
         Engaged(loop') \subseteq Engaged(loop) \cup {Nobody}
  PROVE  TableInv(conn', io', loop')
<1>1. /\ io' = t /\ io' \in IOs /\ io'.fds = io.fds /\ io'.file = Emptied(io, c)
      /\ io'.reads[c] = taglist_delete(io.reads[c])
      /\ io.writes[c] = <<>> => io'.writes[c] = <<>>
      /\ \A d \in Conns \ {c} : io'.reads[d] = io.reads[d] /\ io'.writes[d] = io.writes[d]
  BY DEF Close, Stripped
<1>2. io.reads[c] = <<>> => io'.reads[c] = <<>>
  BY <1>1, Fields, TagsDeleted
<1>3. /\ conn'[c].state = "PENALTY_BOX"
      /\ \A d \in Conns \ {c} : conn'[d] = conn[d]
  BY Fields DEF Close, connection_close, ConnRecords
<1>4. OpenIn(conn') = OpenIn(conn) \ {c}
  BY <1>3 DEF OpenIn
<1>5. ASSUME NEW d \in Conns PROVE Addressed(d, conn'[d], io', loop')
  <2>1. d \in Engaged(loop') => d \in Engaged(loop)
    BY ConnsNumbers
  <2>2. conn'[d].state # "PENALTY_BOX" => conn[d].state # "PENALTY_BOX"
    BY <1>3
  <2>3. /\ io'.reads[d] # <<>> => io.reads[d] # <<>>
        /\ io'.writes[d] # <<>> => io.writes[d] # <<>>
    BY <1>1, <1>2
  <2> QED
    BY <1>1, <2>1, <2>2, <2>3 DEF Addressed, TypeInv, Engaged
<1>6. ASSUME NEW x \in Fds, io'.file[x] # Free
      PROVE  io'.file[x].of \in OpenIn(conn') /\ x = Home(io'.fds, io'.file[x])
  <2>1. x \notin {io.fds[c].in, io.fds[c].out} /\ io'.file[x] = io.file[x]
    BY <1>1, <1>6 DEF Emptied
  <2>2. io.file[x].of \in OpenIn(conn) /\ x = Home(io.fds, io.file[x])
    BY <1>6, <2>1 DEF TypeInv, Owned
  <2>3. io.file[x].of # c
    BY <2>1, <2>2 DEF Home
  <2> QED
    BY <1>1, <1>4, <2>1, <2>2, <2>3
<1> QED
  BY <1>1, <1>5, <1>6 DEF TableInv, Owned

LEMMA HandledTable ==
  ASSUME TypeInv, NEW c \in Conns, c \in Engaged(loop), NEW r \in ConnRecords, Handled(c, r),
         conn[c].state # "PENALTY_BOX" => r.state # "PENALTY_BOX",
         Engaged(loop') \subseteq Engaged(loop) \cup {Nobody}
  PROVE  TableInv(conn', io', loop')
<1> DEFINE types == [d \in Conns |-> IF d = c THEN r.watch ELSE {}]
<1>1. io' = gtk_add_fd(io, types) /\ conn' = [conn EXCEPT ![c] = Muted(r)]
  BY DEF Handled, Muted
<1>2. /\ types \in [Conns -> SUBSET {"read", "write"}]
      /\ \A d \in Conns \ {c} : types[d] = {}
  BY DEF ConnRecords
<1> HIDE DEF types
<1>3. io.fds[c] \in Numbers
  BY DEF TypeInv, Addressed, Engaged
<1>4. /\ io' \in IOs /\ io'.file = io.file /\ io'.fds = io.fds
      /\ \A d \in Conns \ {c} : io'.reads[d] = io.reads[d] /\ io'.writes[d] = io.writes[d]
  <2>1. io \in IOs
    BY Fields
  <2> QED
    BY <1>1, <1>2, <1>3, <2>1, AddFd
<1>5. /\ \A d \in Conns \ {c} : conn'[d] = conn[d]
      /\ conn'[c].state = r.state
  BY <1>1, Fields, MutedFields
<1>6. OpenIn(conn) \subseteq OpenIn(conn')
  BY <1>5 DEF OpenIn
<1>7. ASSUME NEW d \in Conns PROVE Addressed(d, conn'[d], io', loop')
  <2>1. d \in Engaged(loop') => d \in Engaged(loop)
    BY ConnsNumbers
  <2>2. CASE d = c
    BY <1>3, <1>4, <2>2 DEF Addressed
  <2>3. CASE d # c
    BY <1>4, <1>5, <2>1, <2>3 DEF Addressed, TypeInv, Engaged
  <2> QED
    BY <2>2, <2>3
<1> QED
  BY <1>4, <1>6, <1>7 DEF TableInv, TypeInv, Owned

LEMMA SameTable ==
  ASSUME TypeInv, io'.file = io.file, io'.fds = io.fds, io' \in IOs,
         \A d \in Conns : /\ conn'[d].state = conn[d].state
                          /\ io.reads[d] = <<>> => io'.reads[d] = <<>>
                          /\ io.writes[d] = <<>> => io'.writes[d] = <<>>
                          /\ d \in Engaged(loop') => io.fds[d] \in Numbers
  PROVE  TableInv(conn', io', loop')
<1>1. OpenIn(conn') = OpenIn(conn)
  BY DEF OpenIn
<1> QED
  BY <1>1 DEF TableInv, TypeInv, Addressed, Engaged

(* The line that is processed, and what it makes of the record.            *)
Rest(c) == [conn[c] EXCEPT !.bin = Tail(@)]
Processed(c) == proto_process_line(c, Rest(c), Head(conn[c].bin), c \notin Prompting)

LEMMA ServedLine ==
  ASSUME TypeInv, NEW c \in Conns, conn[c].bin # <<>>
  PROVE  /\ Head(conn[c].bin) \in Lines /\ Tail(conn[c].bin) \in Seq(Lines)
         /\ Shape(c, Rest(c)) /\ Rest(c) \in ConnRecords
         /\ Rest(c).state = conn[c].state /\ Rest(c).bin = Tail(conn[c].bin)
         /\ Rest(c).bout = conn[c].bout /\ Rest(c).watch = {}
         /\ Rest(c).biffed = conn[c].biffed /\ Rest(c).flag = conn[c].flag
<1>1. conn[c] \in ConnRecords /\ Shape(c, conn[c]) /\ conn[c].watch = {}
  BY DEF TypeInv, RecordInv, Shape
<1>2. Head(conn[c].bin) \in Lines /\ Tail(conn[c].bin) \in Seq(Lines)
  BY <1>1, HeadTailProperties DEF ConnRecords
<1>3. Shape(c, Rest(c))
  BY <1>1, <1>2, ShapeBin DEF Rest
<1>4. /\ Rest(c).state = conn[c].state /\ Rest(c).bin = Tail(conn[c].bin)
      /\ Rest(c).bout = conn[c].bout /\ Rest(c).watch = {}
      /\ Rest(c).biffed = conn[c].biffed /\ Rest(c).flag = conn[c].flag
  BY <1>1 DEF Rest, ConnRecords
<1> QED
  BY <1>2, <1>3, <1>4 DEF Shape

LEMMA ProcessedFields ==
  ASSUME TypeInv, NEW c \in Conns, conn[c].bin # <<>>,
         ~Closes(Rest(c), Head(conn[c].bin))
  PROVE  /\ Processed(c) \in ConnRecords /\ Processed(c).bin = Tail(conn[c].bin)
         /\ SameSide(conn[c], Processed(c))
         /\ Queues(c, conn[c], Processed(c)) \/ Leaves(conn[c], Processed(c))
<1> DEFINE s == Rest(c)
           line == Head(conn[c].bin)
           have == c \notin Prompting
           r == proto_process_line(c, s, line, have)
<1>1. /\ line \in Lines /\ Shape(c, s) /\ have \in BOOLEAN
      /\ s.state = conn[c].state /\ s.bin = Tail(conn[c].bin)
      /\ s.bout = conn[c].bout /\ s.watch = conn[c].watch
  BY ServedLine, Fields
<1>2. ~Closes(s, line)
  OBVIOUS
<1>3. Processed(c) = r
  BY DEF Processed
<1> HIDE DEF s, line, have
<1>4. Shape(c, r) /\ r.bin = s.bin
  BY <1>1, <1>2, LineEffect
<1>5. SameSide(s, r) /\ (Queues(c, s, r) \/ Leaves(s, r))
  BY <1>1, <1>2, LineQueues
<1> HIDE DEF r
<1>6. SameSide(conn[c], r) /\ (Queues(c, conn[c], r) \/ Leaves(conn[c], r))
  BY <1>1, <1>5 DEF SameSide, Queues, Leaves
<1> QED
  BY <1>1, <1>3, <1>4, <1>6 DEF Shape

LEMMA LineStep ==
  ASSUME TypeInv, ProcessLine
  PROVE  LET c == loop.serving
         IN  /\ c \in Conns /\ conn[c].bin # <<>> /\ loop.pc = "line" /\ Continue(c)
             /\ IF Closes(Rest(c), Head(conn[c].bin))
                  THEN Close(c, CloseFds(io, c))
                  ELSE /\ Handled(c, Processed(c))
                       /\ main' = ImageAfter(ActionsOf(c, Rest(c), Head(conn[c].bin)), main, conn')
                       /\ UNCHANGED <<timers, toBack, fromBack, be>>
BY DEF ProcessLine, TypeInv, LoopInv, Rest, Processed

LEMMA AnswerStep ==
  ASSUME TypeInv, ProcessAnswer
  PROVE  LET c == loop.serving
             r == Respond(Rest(c))
         IN  /\ c \in Conns /\ conn[c].bin # <<>> /\ loop.pc = "answer" /\ Continue(c)
             /\ Handled(c, r) /\ Answers(conn[c], r)
             /\ r \in ConnRecords /\ r.state = conn[c].state
             /\ UNCHANGED <<timers, main, toBack, fromBack, be>>
<1> DEFINE c == loop.serving
           r == Respond(Rest(c))
<1>1. c \in Conns /\ conn[c].bin # <<>>
  BY DEF ProcessAnswer, TypeInv, LoopInv
<1>2. Answers(conn[c], r)
  BY <1>1 DEF Answers, Rest
<1>3. conn[c] \in ConnRecords
  BY <1>1, Fields
<1>4. /\ loop.pc = "answer" /\ Continue(c) /\ Handled(c, r)
      /\ UNCHANGED <<timers, main, toBack, fromBack, be>>
  BY DEF ProcessAnswer, Rest
<1> HIDE DEF r
<1>5. r \in ConnRecords /\ r.state = conn[c].state
  BY <1>2, <1>3, AnswersFields
<1> QED
  BY <1>1, <1>2, <1>4, <1>5 DEF r

LEMMA TableStep ==
  ASSUME TypeInv, [Next]_vars
  PROVE  TableInv(conn', io', loop')
<1>0. /\ \A c \in Conns : c \in Engaged(loop) => io.fds[c] \in Numbers
      /\ io \in IOs
  BY Fields DEF TypeInv, Addressed, Engaged
<1>1. CASE Start
  <2>1. loop'.serving = loop.serving /\ loop'.asking = loop.asking
    BY <1>1, Fields DEF Start, Loops
  <2> QED
    BY <1>1, <2>1, RetryTable DEF Start, Engaged
<1>2. CASE gtk_retry_shim
  BY <1>2, RetryTable DEF gtk_retry_shim
<1>3. CASE gtk_poll_shim
  BY <1>3, PollTable
<1>4. ASSUME NEW c \in Conns, Input(c) PROVE TableInv(conn', io', loop')
  <2>1. CASE Close(c, CloseFds(io, c)) /\ loop' = Left(c)
    BY <1>0, <2>1, CloseFdsStrips, LeftLoop, CloseTable DEF Engaged
  <2>2. ASSUME NEW q, conn' = [conn EXCEPT ![c].bin = q], io' = io,
               loop' = [loop EXCEPT !.pc = "next", !.serving = c]
        PROVE  TableInv(conn', io', loop')
    <3>1. \A d \in Conns : conn'[d].state = conn[d].state
      BY <2>2, Fields DEF ConnRecords
    <3>2. Engaged(loop') \subseteq Engaged(loop) \cup {c}
      BY <2>2, Fields DEF Loops, Engaged
    <3>3. io.fds[c] \in Numbers
      BY <1>4, SourcesNumbered DEF Input
    <3> QED
      BY <1>0, <2>2, <3>1, <3>2, <3>3, SameTable
  <2> QED
    BY <1>4, <2>1, <2>2 DEF Input
<1>5. CASE TakeLine
  <2>1. loop.serving \in Conns /\ io' = io
    BY <1>5 DEF TakeLine, TypeInv, LoopInv
  <2>2. \A d \in Conns : conn'[d].state = conn[d].state
    <3> DEFINE q == Tail(conn[loop.serving].bin)
    <3>1. conn' = [conn EXCEPT ![loop.serving].bin = q] \/ conn' = conn
      BY <1>5 DEF TakeLine
    <3> HIDE DEF q
    <3>2. CASE conn' = [conn EXCEPT ![loop.serving].bin = q]
      BY <3>2, Fields DEF ConnRecords
    <3>3. CASE conn' = conn
      BY <3>3
    <3> QED
      BY <3>1, <3>2, <3>3
  <2>3. Engaged(loop') \subseteq Engaged(loop) \cup {Nobody}
    BY <1>5, Fields DEF TakeLine, Loops, Engaged
  <2> QED
    BY <1>0, <2>1, <2>2, <2>3, SameTable, ConnsNumbers
<1>6. CASE ProcessLine
  <2> DEFINE c == loop.serving
  <2>1. c \in Conns /\ conn[c].bin # <<>> /\ Continue(c) /\ c \in Engaged(loop)
    BY <1>6, LineStep DEF Engaged
  <2>2. Engaged(loop') \subseteq Engaged(loop) \cup {Nobody}
    BY <2>1, ContinueLoop DEF Engaged
  <2>3. CASE Closes(Rest(c), Head(conn[c].bin))
    <3>1. Close(c, CloseFds(io, c))
      BY <1>6, <2>3, LineStep
    <3> QED
      BY <1>0, <2>1, <2>2, <3>1, CloseFdsStrips, CloseTable
  <2>4. CASE ~Closes(Rest(c), Head(conn[c].bin))
    <3>1. Handled(c, Processed(c))
      BY <1>6, <2>4, LineStep
    <3>2. /\ Processed(c) \in ConnRecords
          /\ conn[c].state # "PENALTY_BOX" => Processed(c).state # "PENALTY_BOX"
      BY <2>1, <2>4, ProcessedFields DEF SameSide
    <3> QED
      BY <2>1, <2>2, <3>1, <3>2, HandledTable
  <2> QED
    BY <2>3, <2>4
<1>7. CASE ProcessAnswer
  <2> DEFINE c == loop.serving
             r == Respond(Rest(c))
  <2>1. /\ c \in Conns /\ Continue(c) /\ Handled(c, r) /\ r \in ConnRecords
        /\ r.state = conn[c].state
    BY <1>7, AnswerStep
  <2> HIDE DEF r
  <2>2. Engaged(loop') \subseteq Engaged(loop) \cup {Nobody} /\ c \in Engaged(loop)
    BY <2>1, ContinueLoop DEF Engaged
  <2> QED
    BY <2>1, <2>2, HandledTable
<1>8. ASSUME NEW c \in Conns, Output(c) PROVE TableInv(conn', io', loop')
  <2>1. ASSUME UNCHANGED loop, io' = io \/ io' = gtk_delete_fd(io, c, {"write"}),
               \A d \in Conns : conn'[d].state = conn[d].state
        PROVE  TableInv(conn', io', loop')
    <3> DEFINE u == gtk_delete_fd(io, c, {"write"})
    <3>1. /\ u \in IOs /\ u.file = io.file /\ u.fds = io.fds
          /\ \A d \in Conns : /\ u.reads[d] = io.reads[d]
                              /\ u.writes[d] = IF d = c THEN taglist_delete(io.writes[d])
                                               ELSE io.writes[d]
      BY <1>0, DeleteFd
    <3> HIDE DEF u
    <3>2. \A d \in Conns : io.writes[d] = <<>> => u.writes[d] = <<>>
      BY <3>1, Fields, TagsDeleted
    <3>3. io' = io \/ io' = u
      BY <2>1 DEF u
    <3> QED
      BY <1>0, <2>1, <3>1, <3>2, <3>3, SameTable
  <2>2. ASSUME NEW n, conn' = [conn EXCEPT ![c] = Written(conn[c], n)]
        PROVE  \A d \in Conns : conn'[d].state = conn[d].state
    BY <2>2, Fields DEF Written, ConnRecords
  <2>3. CASE BrokenPipe(c)
    <3>1. Engaged(loop') = Engaged(loop) /\ UNCHANGED <<conn, io>>
      BY <2>3, KilledLoop DEF Engaged
    <3> QED
      BY <1>0, <3>1, SameTable
  <2> QED
    BY <1>8, <2>1, <2>2, <2>3 DEF Output
<1>9. CASE Answered
  <2>1. /\ io' = io /\ conn' = [conn EXCEPT ![loop.asking].bin = <<DataRequest>> \o @]
        /\ loop' = [pc |-> "answer", serving |-> loop.asking, asking |-> Nobody, entered |-> FALSE]
    BY <1>9 DEF Answered
  <2>2. \A d \in Conns : conn'[d].state = conn[d].state
    <3> DEFINE q == <<DataRequest>> \o conn[loop.asking].bin
    <3>1. conn' = [conn EXCEPT ![loop.asking].bin = q]
      BY <2>1
    <3> HIDE DEF q
    <3> QED
      BY <3>1, Fields DEF ConnRecords
  <2>3. Engaged(loop') \subseteq Engaged(loop) \cup {Nobody}
    BY <2>1 DEF Engaged
  <2> QED
    BY <1>0, <2>1, <2>2, <2>3, SameTable, ConnsNumbers
<1>10. CASE Tick
  <2>1. io' = io /\ loop' = loop
    BY <1>10 DEF Tick
  <2>2. \A d \in Conns : conn'[d].state = conn[d].state
    BY <1>10, Fields DEF Tick, ConnRecords
  <2> QED
    BY <1>0, <2>1, <2>2, SameTable
<1>11. CASE UNCHANGED <<conn, io, loop>>
  BY <1>0, <1>11, SameTable
<1> QED
  BY <1>1, <1>2, <1>3, <1>4, <1>5, <1>6, <1>7, <1>8, <1>9, <1>10, <1>11
     DEF Next, LoopStep, UserStep, Callback, BackStep, image_clicked, vars

LEMMA LoopsStep ==
  ASSUME TypeInv, [Next]_vars
  PROVE  loop' \in Loops /\ LoopInv'
<1>0. loop \in Loops /\ LoopInv
  BY Fields DEF TypeInv
<1>1. CASE Start
  BY <1>0, <1>1 DEF Start, Loops, LoopInv
<1>2. ASSUME loop.pc = "idle", UNCHANGED loop PROVE loop' \in Loops /\ LoopInv'
  BY <1>0, <1>2 DEF LoopInv
<1>3. ASSUME NEW c \in Conns, Input(c) PROVE loop' \in Loops /\ LoopInv'
  <2>1. loop.pc = "idle"
    BY <1>3 DEF Input
  <2>2. CASE loop' = Left(c)
    BY <2>1, <2>2, LeftLoop DEF LoopInv
  <2>3. ASSUME NEW d, NEW n \in 1 .. Len(fromBack[d]), io.file[io.fds[c].in].end = "in",
               d = io.file[io.fds[c].in].of,
               conn' = [conn EXCEPT ![c].bin = SubSeq(fromBack[d], 1, n)],
               loop' = [loop EXCEPT !.pc = "next", !.serving = c]
        PROVE  loop' \in Loops /\ LoopInv'
    <3>1. io.fds[c].in \in Fds
      BY <1>3, SourcesNumbered DEF Input, Numbers
    <3>2. fromBack[d] \in Seq(Lines)
      BY <2>3, <3>1, InUse, Fields
    <3>3. SubSeq(fromBack[d], 1, n) # <<>>
      BY <2>3, <3>2, SubSeqProperties, EmptySeq
    <3>4. conn'[c].bin # <<>>
      BY <2>3, <3>3, Fields DEF ConnRecords
    <3>5. loop' \in Loops /\ loop'.serving = c
      BY <1>0, <2>3 DEF Loops
    <3> QED
      BY <3>4, <3>5 DEF LoopInv
  <2> QED
    BY <1>3, <2>2, <2>3 DEF Input
<1>4. CASE TakeLine
  <2>1. loop.serving \in Conns /\ conn[loop.serving].bin # <<>>
    BY <1>0, <1>4 DEF TakeLine, LoopInv
  <2>2. CASE loop' = [pc |-> "idle", serving |-> Nobody, asking |-> loop.serving, entered |-> TRUE]
    BY <2>1, <2>2 DEF Loops, LoopInv
  <2>3. CASE loop' = [loop EXCEPT !.pc = "line"] /\ UNCHANGED conn
    BY <1>0, <2>1, <2>3 DEF Loops, LoopInv
  <2> QED
    BY <1>4, <2>2, <2>3 DEF TakeLine
<1>5. ASSUME Continue(loop.serving), loop.serving \in Conns PROVE loop' \in Loops /\ LoopInv'
  BY <1>5, ContinueLoop DEF LoopInv
<1>6. ASSUME NEW c \in Conns, Output(c) PROVE loop' \in Loops /\ LoopInv'
  <2>1. loop.pc = "idle" /\ (UNCHANGED loop \/ BrokenPipe(c))
    BY <1>6 DEF Output
  <2> QED
    BY <1>2, <2>1, KilledLoop DEF LoopInv
<1>7. CASE Answered
  <2>1. loop.asking \in Conns
    BY <1>0, <1>7 DEF Answered, Loops
  <2>2. loop' = [pc |-> "answer", serving |-> loop.asking, asking |-> Nobody, entered |-> FALSE]
    BY <1>7 DEF Answered
  <2>3. conn' = [conn EXCEPT ![loop.asking].bin = <<DataRequest>> \o @]
    BY <1>7 DEF Answered
  <2>4. conn'[loop.asking].bin # <<>>
    <3> DEFINE q == <<DataRequest>> \o conn[loop.asking].bin
    <3>1. conn[loop.asking].bin \in Seq(Lines) /\ DataRequest \in Lines
      BY <2>1, Fields DEF ConnRecords, DataRequest, Line, Lines, LineTags, NoArg
    <3>2. q # <<>>
      BY <3>1, ConsProperties
    <3>3. conn' = [conn EXCEPT ![loop.asking].bin = q]
      BY <2>3
    <3> HIDE DEF q
    <3> QED
      BY <2>1, <3>2, <3>3, Fields DEF ConnRecords
  <2> QED
    BY <2>1, <2>2, <2>4 DEF Loops, LoopInv
<1>8. CASE ProcessLine
  BY <1>5, <1>8, LineStep
<1>9. CASE ProcessAnswer
  BY <1>5, <1>9, AnswerStep
<1>10. CASE UNCHANGED <<conn, loop>>
  BY <1>0, <1>10 DEF LoopInv
<1> QED
  BY <1>1, <1>2, <1>3, <1>4, <1>6, <1>7, <1>8, <1>9, <1>10
     DEF Next, LoopStep, UserStep, Callback, BackStep, gtk_retry_shim, gtk_poll_shim,
         image_clicked, Tick, vars

(* Timers, and the main image *)
LEMMA Scheduled ==
  ASSUME TypeInv, NEW k \in Delays
  PROVE  /\ gtk_schedule_retry(timers, k) \in Timers
         /\ gtk_schedule_retry(timers, k).poll = timers.poll
         /\ \A j \in Delays : gtk_schedule_retry(timers, k).retry[j]
                                = IF j = k THEN timers.retry[j] + 1 ELSE timers.retry[j]
<1> DEFINE rt == [timers.retry EXCEPT ![k] = @ + 1]
<1>1. timers \in Timers /\ timers.retry \in [Delays -> Nat]
  BY Fields DEF Timers
<1>2. gtk_schedule_retry(timers, k) = [timers EXCEPT !.retry = rt]
  BY <1>1 DEF gtk_schedule_retry, Timers
<1>3. /\ rt \in [Delays -> Nat]
      /\ \A j \in Delays : rt[j] = IF j = k THEN timers.retry[j] + 1 ELSE timers.retry[j]
  BY <1>1
<1> HIDE DEF rt
<1>4. /\ gtk_schedule_retry(timers, k) \in Timers
      /\ gtk_schedule_retry(timers, k).poll = timers.poll
      /\ gtk_schedule_retry(timers, k).retry = rt
  BY <1>1, <1>2, <1>3 DEF Timers
<1> QED
  BY <1>3, <1>4

LEMMA CloseTimers ==
  ASSUME TypeInv, NEW c \in Conns, NEW t, Close(c, t)
  PROVE  /\ conn'[c].wait \in Delays
         /\ timers' = gtk_schedule_retry(timers, conn'[c].wait)
         /\ timers' \in Timers /\ timers'.retry[conn'[c].wait] > 0
<1>1. conn[c] \in ConnRecords /\ conn'[c] = connection_close(conn[c])
  BY Fields DEF Close
<1>2. conn'[c].wait = 2 * conn[c].penalty /\ conn[c].penalty \in 1 .. MaxPenalty
  BY <1>1 DEF connection_close, ConnRecords
<1>3. conn'[c].wait \in Delays
  BY <1>2, PenaltyAssumption DEF Delays
<1>4. timers' = gtk_schedule_retry(timers, conn'[c].wait)
  BY DEF Close
<1> DEFINE k == conn'[c].wait
<1>5. k \in Delays /\ timers' = gtk_schedule_retry(timers, k)
  BY <1>3, <1>4
<1> HIDE DEF k
<1>6. timers' \in Timers /\ timers'.retry[k] = timers.retry[k] + 1 /\ timers.retry[k] \in Nat
  BY <1>5, Scheduled, Fields DEF Timers
<1> QED
  BY <1>4, <1>5, <1>6 DEF k

LEMMA TickTimers ==
  ASSUME TypeInv, Tick
  PROVE  /\ timers' \in Timers
         /\ \A k \in Delays : /\ k > 0 => timers'.retry[k - 1] >= timers.retry[k]
                              /\ k = 0 => timers'.retry[0] >= timers.retry[0]
<1> DEFINE pt == IF timers.poll > 0 THEN timers.poll - 1 ELSE 0
           rt == [k \in Delays |-> (IF k < 2 * MaxPenalty THEN timers.retry[k + 1] ELSE 0)
                                     + (IF k = 0 THEN timers.retry[0] ELSE 0)]
<1>1. timers.poll \in 0 .. PollFreq /\ timers.retry \in [Delays -> Nat]
  BY Fields DEF Timers
<1>2. timers' = [poll |-> pt, retry |-> rt]
  BY DEF Tick
<1>3. pt \in 0 .. PollFreq
  BY <1>1, FreqAssumption
<1>4. \A k \in Delays : k < 2 * MaxPenalty => k + 1 \in Delays
  BY PenaltyAssumption DEF Delays
<1>5. 0 \in Delays
  BY PenaltyAssumption DEF Delays
<1>6. rt \in [Delays -> Nat]
  BY <1>1, <1>4, <1>5
<1>7. ASSUME NEW k \in Delays, k > 0 PROVE rt[k - 1] >= timers.retry[k]
  <2>1. k - 1 \in Delays /\ k - 1 < 2 * MaxPenalty /\ (k - 1) + 1 = k
    BY <1>7, PenaltyAssumption DEF Delays
  <2>2. rt[k - 1] = timers.retry[k] + (IF k - 1 = 0 THEN timers.retry[0] ELSE 0)
    BY <2>1
  <2> HIDE DEF rt
  <2> QED
    BY <1>1, <1>5, <2>2
<1>8. rt[0] >= timers.retry[0]
  <2>1. 0 < 2 * MaxPenalty /\ 1 \in Delays /\ 0 + 1 = 1
    BY PenaltyAssumption DEF Delays
  <2>2. rt[0] = timers.retry[1] + timers.retry[0]
    BY <1>5, <2>1
  <2> HIDE DEF rt
  <2> QED
    BY <1>1, <1>5, <2>1, <2>2
<1> HIDE DEF rt, pt
<1> QED
  BY <1>2, <1>3, <1>6, <1>7, <1>8 DEF Timers

LEMMA TimersStep ==
  ASSUME TypeInv, [Next]_vars
  PROVE  timers' \in Timers /\ main' \in {"up", "down"}
<1>0. timers \in Timers /\ main \in {"up", "down"}
  BY DEF TypeInv, TypeOK
<1>1. ASSUME NEW c \in Conns, NEW t, Close(c, t) PROVE timers' \in Timers /\ main' \in {"up", "down"}
  <2>1. main' = gtk_flagdown(main, conn')
    BY <1>1 DEF Close
  <2> QED
    BY <1>0, <1>1, <2>1, CloseTimers DEF gtk_flagdown
<1>2. CASE gtk_retry_shim
  <2>1. 0 \in Delays /\ timers.retry[0] > 0 /\ timers' = [timers EXCEPT !.retry[0] = @ - 1]
    BY <1>2, PenaltyAssumption DEF gtk_retry_shim, Delays
  <2>2. main' = main
    BY <1>2 DEF gtk_retry_shim, proto_do_retries
  <2> QED
    BY <1>0, <2>1, <2>2 DEF Timers
<1>3. CASE gtk_poll_shim
  <2>1. timers' = [timers EXCEPT !.poll = PollFreq] /\ main' = main
    BY <1>3 DEF gtk_poll_shim
  <2> QED
    BY <1>0, <2>1, FreqAssumption DEF Timers
<1>4. CASE ProcessLine
  <2> DEFINE c == loop.serving
  <2>1. c \in Conns
    BY <1>4, LineStep
  <2>2. CASE Closes(Rest(c), Head(conn[c].bin))
    BY <1>1, <1>4, <2>1, <2>2, LineStep
  <2>3. CASE ~Closes(Rest(c), Head(conn[c].bin))
    <3>1. /\ timers' = timers
          /\ main' = ImageAfter(ActionsOf(c, Rest(c), Head(conn[c].bin)), main, conn')
      BY <1>4, <2>3, LineStep
    <3> QED
      BY <1>0, <3>1 DEF ImageAfter, gtk_flagdown
  <2> QED
    BY <2>2, <2>3
<1>5. CASE Tick
  BY <1>0, <1>5, TickTimers DEF Tick
<1>6. ASSUME NEW c \in Conns, Input(c) PROVE timers' \in Timers /\ main' \in {"up", "down"}
  BY <1>0, <1>1, <1>6 DEF Input
<1>7. ASSUME NEW c \in Conns, Output(c) PROVE timers' \in Timers /\ main' \in {"up", "down"}
  BY <1>0, <1>7 DEF Output, BrokenPipe
<1>8. CASE image_clicked
  BY <1>0, <1>8 DEF image_clicked
<1>9. CASE UNCHANGED <<timers, main>>
  BY <1>0, <1>9
<1> QED
  BY <1>2, <1>3, <1>4, <1>5, <1>6, <1>7, <1>8, <1>9
     DEF Next, LoopStep, UserStep, Callback, BackStep, Start, proto_do_retries, TakeLine,
         Answered, ProcessAnswer, vars

LEMMA ConnFunction ==
  ASSUME TypeInv, [Next]_vars
  PROVE  conn' = [c \in Conns |-> conn'[c]]
BY Fields DEF Next, LoopStep, UserStep, Callback, BackStep, Start, gtk_retry_shim,
              proto_do_retries, gtk_poll_shim, Input, TakeLine, ProcessLine, ProcessAnswer,
              Output, BrokenPipe, Close, Handled, Answered, Tick, image_clicked, vars

LEMMA TypeStep == TypeInv /\ [Next]_vars => TypeInv'
<1> SUFFICES ASSUME TypeInv, [Next]_vars PROVE TypeInv'
  OBVIOUS
<1>1. \A c \in Conns : RecordInv(c, conn'[c])
  <2>1. SUFFICES ASSUME NEW c \in Conns PROVE RecordInv(c, conn'[c])
    OBVIOUS
  <2>2. conn[c].bin \in Seq(Lines)
    BY Fields DEF ConnRecords
  <2>3. DataRequest \in Lines
    BY DEF DataRequest, Line, Lines, LineTags, NoArg
  <2>4. Readable(c, Lines)
    BY InUse, Fields DEF Readable
  <2>5. LoopStepOf(c, conn[c], conn'[c], Lines)
    BY <2>2, <2>3, <2>4, LoopRecords
  <2> QED
    BY <2>5, RecordInvStep DEF TypeInv
<1>2. conn' \in [Conns -> ConnRecords]
  <2>1. \A c \in Conns : conn'[c] \in ConnRecords
    BY <1>1 DEF RecordInv, Shape
  <2>2. conn' = [c \in Conns |-> conn'[c]]
    BY ConnFunction
  <2> QED
    BY <2>1, <2>2
<1>3. TableInv(conn', io', loop')
  BY TableStep
<1>4. BackTypeOK' /\ loop' \in Loops /\ LoopInv' /\ timers' \in Timers /\ main' \in {"up", "down"}
  BY BackTypesStep, LoopsStep, TimersStep
<1>5. TypeOK'
  BY <1>2, <1>3, <1>4 DEF TypeOK, TableInv
<1> QED
  BY <1>1, <1>3, <1>4, <1>5 DEF TypeInv, TableInv

LEMMA TypeInvariant == Spec => []TypeInv
BY TypeInit, TypeStep, PTL DEF Spec

(* Every variable keeps its type, whatever back ends and users do: the     *)
(* callbacks never look up a descriptor that was not assigned, the penalty *)
(* and every delay stay within their bounds, and there is always a pair of *)
(* descriptors for a connection that is started (xlib.c:66-92).            *)
THEOREM GtkTypeOK == Spec => []TypeOK
<1>1. TypeInv => TypeOK
  BY DEF TypeInv
<1> QED
  BY <1>1, TypeInvariant, PTL

-------------------------------------------------------------------------------
(* Retries *)

(* Apart from retries, ticks and closing, no step moves a connection in or *)
(* out of the penalty box, or touches a timer or the time it has to wait.  *)
Unmoved == /\ timers'.retry = timers.retry /\ (loop'.pc = "start" <=> loop.pc = "start")
           /\ \A d \in Conns : /\ SameSide(conn[d], conn'[d])
                               /\ conn'[d].wait = conn[d].wait

LEMMA HandledUnmoved ==
  ASSUME TypeInv, NEW c \in Conns, NEW r \in ConnRecords, Handled(c, r),
         SameSide(conn[c], r), r.wait = conn[c].wait, NEW d \in Conns
  PROVE  SameSide(conn[d], conn'[d]) /\ conn'[d].wait = conn[d].wait
<1>1. conn' = [conn EXCEPT ![c] = Muted(r)]
  BY DEF Handled, Muted
<1> QED
  BY <1>1, Fields, MutedFields DEF SameSide

LEMMA ProcessedTimed ==
  ASSUME TypeInv, NEW c \in Conns, conn[c].bin # <<>>,
         ~Closes(Rest(c), Head(conn[c].bin))
  PROVE  Timed(conn[c], Processed(c))
<1> DEFINE s == Rest(c)
           line == Head(conn[c].bin)
           have == c \notin Prompting
           r == proto_process_line(c, s, line, have)
<1>1. line \in Lines /\ Shape(c, s) /\ have \in BOOLEAN /\ ~Closes(s, line)
  BY ServedLine
<1>2. s.wait = conn[c].wait /\ s.penalty = conn[c].penalty
  BY Fields DEF Rest, ConnRecords
<1>3. Processed(c) = r
  BY DEF Processed
<1> HIDE DEF s, line, have
<1>4. Timed(s, r)
  BY <1>1, LineQueues
<1> QED
  BY <1>2, <1>3, <1>4 DEF Timed

LEMMA TimerCases ==
  ASSUME TypeInv, [Next]_vars
  PROVE  \/ Start \/ gtk_retry_shim \/ Tick
         \/ /\ \E c \in Conns : \E t : Close(c, t)
            /\ loop.pc # "start" /\ loop'.pc # "start"
         \/ Unmoved
<1> USE DEF Unmoved
<1>1. CASE gtk_poll_shim
  <2>1. timers'.retry = timers.retry /\ loop' = loop
    BY <1>1, Fields DEF gtk_poll_shim, Timers
  <2>2. ASSUME NEW d \in Conns PROVE SameSide(conn[d], conn'[d]) /\ conn'[d].wait = conn[d].wait
    <3>1. conn'[d] = Muted(Polled(d))
      BY <1>1 DEF gtk_poll_shim, Muted
    <3>2. Polled(d) \in ConnRecords /\ Polled(d).state = conn[d].state
      BY PolledFields
    <3>3. Polled(d).wait = conn[d].wait
      <4>1. Timed(conn[d], proto_poll_conn(conn[d]))
        BY Fields, PollQueues
      <4> QED
        BY <4>1 DEF Polled, Timed
    <3> QED
      BY <3>1, <3>2, <3>3, MutedFields DEF SameSide
  <2> QED
    BY <2>1, <2>2
<1>2. ASSUME NEW c \in Conns, Input(c) PROVE ((\E t : Close(c, t)) /\ loop'.pc # "start") \/ Unmoved
  <2>1. ASSUME NEW q, conn' = [conn EXCEPT ![c].bin = q]
        PROVE  \A d \in Conns : SameSide(conn[d], conn'[d]) /\ conn'[d].wait = conn[d].wait
    <3> SUFFICES ASSUME NEW d \in Conns
                 PROVE  SameSide(conn[d], conn'[d]) /\ conn'[d].wait = conn[d].wait
      OBVIOUS
    <3>1. conn[d] \in ConnRecords /\ conn \in [Conns -> ConnRecords]
      BY Fields
    <3>2. conn'[d] = conn[d] \/ conn'[d] = [conn[d] EXCEPT !.bin = q]
      BY <2>1, <3>1
    <3> QED
      BY <3>1, <3>2 DEF SameSide, ConnRecords
  <2>2. CASE loop' = [loop EXCEPT !.pc = "next", !.serving = c]
    BY <1>2, <2>1, <2>2, Fields DEF Input, Loops
  <2>3. CASE loop' = Left(c)
    BY <1>2, <2>1, <2>3, LeftLoop DEF Input
  <2> QED
    BY <1>2, <2>2, <2>3 DEF Input
<1>3. CASE TakeLine
  <2> DEFINE q == Tail(conn[loop.serving].bin)
  <2>1. conn' = [conn EXCEPT ![loop.serving].bin = q] \/ conn' = conn
    BY <1>3 DEF TakeLine
  <2> HIDE DEF q
  <2>2. CASE conn' = [conn EXCEPT ![loop.serving].bin = q]
    <3>1. \A d \in Conns : SameSide(conn[d], conn'[d]) /\ conn'[d].wait = conn[d].wait
      BY <2>2, Fields DEF SameSide, ConnRecords
    <3> QED
      BY <1>3, <3>1, Fields DEF TakeLine, Loops
  <2>3. CASE conn' = conn
    BY <1>3, <2>3, Fields DEF TakeLine, Loops, SameSide
  <2> QED
    BY <2>1, <2>2, <2>3
<1>4. CASE ProcessLine
  <2> DEFINE c == loop.serving
  <2>1. c \in Conns /\ conn[c].bin # <<>> /\ Continue(c) /\ loop.pc = "line"
    BY <1>4, LineStep
  <2>2. loop'.pc # "start"
    BY <2>1, ContinueLoop
  <2>3. CASE Closes(Rest(c), Head(conn[c].bin))
    BY <1>4, <2>1, <2>2, <2>3, LineStep
  <2>4. CASE ~Closes(Rest(c), Head(conn[c].bin))
    <3>1. Handled(c, Processed(c)) /\ timers' = timers
      BY <1>4, <2>4, LineStep
    <3>2. /\ Processed(c) \in ConnRecords /\ SameSide(conn[c], Processed(c))
          /\ Processed(c).wait = conn[c].wait
      BY <2>1, <2>4, ProcessedFields, ProcessedTimed DEF Timed
    <3>3. \A d \in Conns : SameSide(conn[d], conn'[d]) /\ conn'[d].wait = conn[d].wait
      BY <2>1, <3>1, <3>2, HandledUnmoved
    <3> QED
      BY <2>1, <2>2, <3>1, <3>3
  <2> QED
    BY <2>3, <2>4
<1>5. CASE ProcessAnswer
  <2> DEFINE c == loop.serving
             r == Respond(Rest(c))
  <2>1. /\ c \in Conns /\ Continue(c) /\ Handled(c, r) /\ Answers(conn[c], r)
        /\ r \in ConnRecords /\ r.state = conn[c].state
        /\ loop.pc = "answer" /\ timers' = timers
    BY <1>5, AnswerStep
  <2> HIDE DEF r
  <2>2. r.wait = conn[c].wait /\ SameSide(conn[c], r)
    BY <2>1, Fields, AnswersFields DEF SameSide, Timed
  <2>3. \A d \in Conns : SameSide(conn[d], conn'[d]) /\ conn'[d].wait = conn[d].wait
    BY <2>1, <2>2, HandledUnmoved
  <2>4. loop'.pc # "start"
    BY <2>1, ContinueLoop
  <2> QED
    BY <2>1, <2>3, <2>4
<1>6. ASSUME NEW c \in Conns, Output(c) PROVE Unmoved
  <2>1. ASSUME NEW n, conn' = [conn EXCEPT ![c] = Written(conn[c], n)]
        PROVE  \A d \in Conns : SameSide(conn[d], conn'[d]) /\ conn'[d].wait = conn[d].wait
    <3> DEFINE w == Written(conn[c], n)
    <3>1. w.state = conn[c].state /\ w.wait = conn[c].wait
      BY Fields DEF Written, ConnRecords
    <3>2. conn' = [conn EXCEPT ![c] = w]
      BY <2>1
    <3> HIDE DEF w
    <3> QED
      BY <3>1, <3>2, Fields DEF SameSide
  <2>2. CASE BrokenPipe(c)
    <3>1. loop.pc = "idle"
      BY <1>6 DEF Output
    <3>2. conn' = conn /\ timers' = timers /\ loop'.pc = "killed"
      BY <2>2, KilledLoop
    <3> QED
      BY <3>1, <3>2 DEF SameSide
  <2>3. CASE UNCHANGED <<conn, timers, loop>>
    BY <2>3 DEF SameSide
  <2>4. CASE /\ UNCHANGED <<timers, loop>>
             /\ \E n \in 1 .. Len(conn[c].bout) : conn' = [conn EXCEPT ![c] = Written(conn[c], n)]
    BY <2>1, <2>4
  <2> QED
    BY <1>6, <2>2, <2>3, <2>4 DEF Output
<1>7. CASE Answered
  <2> DEFINE q == <<DataRequest>> \o conn[loop.asking].bin
  <2>1. conn' = [conn EXCEPT ![loop.asking].bin = q]
    BY <1>7 DEF Answered
  <2> HIDE DEF q
  <2>2. \A d \in Conns : SameSide(conn[d], conn'[d]) /\ conn'[d].wait = conn[d].wait
    BY <2>1, Fields DEF SameSide, ConnRecords
  <2> QED
    BY <1>7, <2>2, Fields DEF Answered, Loops
<1>8. CASE UNCHANGED <<conn, timers, loop>>
  BY <1>8 DEF SameSide
<1>9. ASSUME NEW c \in Conns, Input(c) \/ Output(c) PROVE loop.pc = "idle"
  BY <1>9 DEF Input, Output
<1>10. ASSUME NEW c \in Conns, Input(c) \/ Output(c)
       PROVE  \/ /\ \E d \in Conns : \E t : Close(d, t)
                 /\ loop.pc # "start" /\ loop'.pc # "start"
              \/ Unmoved
  BY <1>2, <1>6, <1>9, <1>10
<1> QED
  BY <1>1, <1>3, <1>4, <1>5, <1>7, <1>8, <1>10
     DEF Next, LoopStep, UserStep, Callback, BackStep, image_clicked, vars

(* Nobody waits before the first attempt.                                  *)
StartInv == loop.pc = "start" =>
              \A c \in Conns : conn[c].state = "PENALTY_BOX" /\ conn[c].wait = 0

(* A timer is running that will try c, or has gone off.                    *)
Timer(c) == \E k \in Delays : k >= conn[c].wait /\ timers.retry[k] > 0

(* A connection in the penalty box is never forgotten: whatever closes it, *)
(* and in whatever order timers go off, time passes and others are closed  *)
(* and opened, a retry timer is running that does not go off before the    *)
(* connection is due (gtk_schedule_retry, proto_do_retries), for any       *)
(* number of connections and any penalty. Only those whose pipe or fork    *)
(* may fail are left out.                                                  *)
THEOREM GtkRetryScheduled == Spec => []RetryScheduled
<1>1. Init => StartInv /\ RetryScheduled
  <2> SUFFICES ASSUME Init PROVE StartInv /\ RetryScheduled
    OBVIOUS
  <2>1. /\ conn = [c \in Conns |-> connection_init]
        /\ loop = [pc |-> "start", serving |-> Nobody, asking |-> Nobody, entered |-> FALSE]
    BY DEF Init
  <2> QED
    BY <2>1 DEF StartInv, RetryScheduled, connection_init
<1>2. TypeInv /\ StartInv /\ RetryScheduled /\ [Next]_vars => StartInv' /\ RetryScheduled'
  <2> SUFFICES ASSUME TypeInv, StartInv, RetryScheduled, [Next]_vars
               PROVE  StartInv' /\ RetryScheduled'
    OBVIOUS
  <2>1. \A c \in Conns :
          conn[c].state = "PENALTY_BOX" /\ loop.pc # "start" /\ "refuse" \notin Faults[c] => Timer(c)
    BY DEF RetryScheduled, Open, Timer
  <2>2. timers.retry \in [Delays -> Nat] /\ timers'.retry \in [Delays -> Nat]
    BY Fields, TimersStep DEF Timers
  <2>3. (\A c \in Conns : conn'[c].state = "PENALTY_BOX" /\ loop'.pc # "start" /\ "refuse" \notin Faults[c]
                          => Timer(c)') => RetryScheduled'
    BY DEF RetryScheduled, Open, Timer
  <2>4. CASE Unmoved
    <3>1. StartInv'
      BY <2>4 DEF StartInv, Unmoved, SameSide
    <3>2. \A c \in Conns : Timer(c) => Timer(c)'
      BY <2>4 DEF Timer, Unmoved
    <3> QED
      BY <2>1, <2>3, <2>4, <3>1, <3>2 DEF Unmoved, SameSide
  <2>5. ASSUME NEW c \in Conns, NEW t, Close(c, t), loop.pc # "start", loop'.pc # "start"
        PROVE  StartInv' /\ RetryScheduled'
    <3>1. /\ conn'[c].wait \in Delays /\ timers'.retry[conn'[c].wait] > 0
          /\ timers' = gtk_schedule_retry(timers, conn'[c].wait)
      BY <2>5, CloseTimers
    <3>2. Timer(c)'
      <4>1. conn'[c].wait >= conn'[c].wait
        BY <3>1 DEF Delays
      <4> QED
        BY <3>1, <4>1 DEF Timer
    <3>3. ASSUME NEW d \in Conns, d # c, Timer(d) PROVE Timer(d)'
      <4>1. conn'[d] = conn[d]
        BY <2>5, <3>3, Fields DEF Close
      <4>2. PICK k \in Delays : k >= conn[d].wait /\ timers.retry[k] > 0
        BY <3>3 DEF Timer
      <4>3. timers'.retry[k] >= timers.retry[k]
        BY <2>2, <3>1, Scheduled
      <4>4. timers'.retry[k] > 0
        BY <2>2, <4>2, <4>3
      <4> QED
        BY <4>1, <4>2, <4>4 DEF Timer
    <3>4. \A d \in Conns : d # c => conn'[d] = conn[d]
      BY <2>5, Fields DEF Close
    <3>5. StartInv'
      BY <2>5 DEF StartInv
    <3> QED
      BY <2>1, <2>3, <2>5, <3>2, <3>3, <3>4, <3>5
  <2>6. ASSUME proto_do_retries, loop'.pc # "start",
               \A k \in Delays : k > 0 => timers'.retry[k] = timers.retry[k],
               \A c \in Conns : conn[c].state = "PENALTY_BOX" /\ "refuse" \notin Faults[c] =>
                 conn[c].wait = 0 \/ Timer(c)
        PROVE  StartInv' /\ RetryScheduled'
    <3>1. PICK started \in SUBSET {c \in Conns : WantsRetry(conn[c])} :
            /\ \A c \in {e \in Conns : WantsRetry(conn[e])} \ started : "refuse" \in Faults[c]
            /\ conn' = [c \in Conns |-> IF c \in started
                                          THEN [proto_init_conn(conn[c]) EXCEPT !.watch = {}]
                                          ELSE conn[c]]
      BY <2>6 DEF proto_do_retries
    <3>2. ASSUME NEW c \in Conns, conn'[c].state = "PENALTY_BOX", "refuse" \notin Faults[c]
          PROVE  Timer(c)'
      <4>1. c \notin started
        <5>1. \A s \in ConnRecords : [proto_init_conn(s) EXCEPT !.watch = {}].state = "WAIT_HELLO"
          BY DEF proto_init_conn, ConnRecords
        <5> QED
          BY <3>1, <3>2, <5>1, Fields
      <4>2. conn'[c] = conn[c]
        BY <3>1, <4>1
      <4>3. conn[c].wait # 0
        BY <3>1, <3>2, <4>1, <4>2 DEF WantsRetry
      <4>4. PICK k \in Delays : k >= conn[c].wait /\ timers.retry[k] > 0
        BY <2>6, <3>2, <4>2, <4>3 DEF Timer
      <4>5. k > 0
        BY <4>3, <4>4, Fields DEF ConnRecords, Delays
      <4> QED
        BY <2>6, <4>2, <4>4, <4>5 DEF Timer
    <3> QED
      BY <2>3, <2>6, <3>2 DEF StartInv
  <2>7. CASE Start
    <3>1. proto_do_retries /\ timers' = timers /\ loop.pc = "start" /\ loop'.pc # "start"
      BY <2>7, Fields DEF Start, Loops
    <3> QED
      BY <2>6, <3>1 DEF StartInv
  <2>8. CASE gtk_retry_shim
    <3>1. /\ proto_do_retries /\ loop.pc = "idle" /\ loop' = loop
          /\ timers' = [timers EXCEPT !.retry[0] = @ - 1]
      BY <2>8 DEF gtk_retry_shim
    <3>2. \A k \in Delays : k > 0 => timers'.retry[k] = timers.retry[k]
      BY <2>2, <3>1, Fields DEF Timers
    <3> QED
      BY <2>1, <2>6, <3>1, <3>2
  <2>9. CASE Tick
    <3>1. loop.pc = "idle" /\ loop' = loop
      BY <2>9 DEF Tick
    <3>2. ASSUME NEW c \in Conns, Timer(c) PROVE Timer(c)'
      <4> DEFINE w == IF conn[c].wait > 0 THEN conn[c].wait - 1 ELSE 0
      <4>1. conn'[c] = [conn[c] EXCEPT !.wait = w]
        BY <2>9 DEF Tick
      <4>2. conn[c].wait \in Nat /\ w \in Nat
        BY Fields DEF ConnRecords
      <4>3. PICK k \in Delays : k >= conn[c].wait /\ timers.retry[k] > 0
        BY <3>2 DEF Timer
      <4>4. CASE k > 0
        <5>1. k - 1 \in Delays /\ k - 1 >= w
          BY <4>2, <4>3, <4>4, PenaltyAssumption DEF Delays
        <5>2. timers'.retry[k - 1] > 0
          <6>1. timers'.retry[k - 1] >= timers.retry[k]
            BY <2>9, <4>4, TickTimers
          <6> QED
            BY <2>2, <4>3, <5>1, <6>1
        <5> HIDE DEF w
        <5>3. conn'[c].wait = w
          BY <4>1, Fields DEF ConnRecords
        <5> QED
          BY <5>1, <5>2, <5>3 DEF Timer
      <4>5. CASE k = 0
        <5>1. 0 \in Delays /\ w = 0 /\ 0 >= w
          BY <4>2, <4>3, <4>5
        <5>2. timers'.retry[0] > 0
          <6>1. timers'.retry[0] >= timers.retry[0]
            BY <2>9, <5>1, TickTimers
          <6> QED
            BY <2>2, <4>3, <4>5, <5>1, <6>1
        <5> HIDE DEF w
        <5>3. conn'[c].wait = w
          BY <4>1, Fields DEF ConnRecords
        <5> QED
          BY <5>1, <5>2, <5>3 DEF Timer
      <4> QED
        BY <4>3, <4>4, <4>5 DEF Delays
    <3>3. \A c \in Conns : conn'[c].state = conn[c].state
      BY <2>9, Fields DEF Tick, ConnRecords
    <3> QED
      BY <2>1, <2>3, <3>1, <3>2, <3>3 DEF StartInv
  <2> QED
    BY <2>4, <2>5, <2>7, <2>8, <2>9, TimerCases
<1> QED
  BY <1>1, <1>2, TypeInvariant, PTL DEF Spec

-------------------------------------------------------------------------------
(* The main image *)

(* NEWS:40-41, for any configuration of actions: a main image that is up   *)
(* goes down only because the user clicked on it, or by a reset or a       *)
(* closing (gtk_flagdown) after which no connection has a biffed folder.   *)
THEOREM GtkMainKept == Spec => MainKept
<1> DEFINE Kept == main = "up" /\ main' = "down" =>
                     image_clicked \/ \A c \in Conns : conn'[c].biffed = {}
<1>1. [Next]_vars => Kept
  <2> SUFFICES ASSUME [Next]_vars, main = "up", main' = "down"
               PROVE  image_clicked \/ \A c \in Conns : conn'[c].biffed = {}
    OBVIOUS
  <2>1. ASSUME NEW c, NEW t, Close(c, t) PROVE \A d \in Conns : conn'[d].biffed = {}
    BY <2>1 DEF Close, gtk_flagdown
  <2>2. CASE ProcessLine
    <3> DEFINE c == loop.serving
               line == Head(conn[c].bin)
               acts == ActionsOf(c, [conn[c] EXCEPT !.bin = Tail(@)], line)
    <3>1. main' = ImageAfter(acts, main, conn') \/ \E t : Close(c, t)
      BY <2>2 DEF ProcessLine
    <3> HIDE DEF acts
    <3>2. main' = ImageAfter(acts, main, conn') => \A d \in Conns : conn'[d].biffed = {}
      BY DEF ImageAfter, gtk_flagdown
    <3> QED
      BY <2>1, <3>1, <3>2
  <2>3. ASSUME NEW c \in Conns, Callback(c) PROVE \A d \in Conns : conn'[d].biffed = {}
    <3>1. main' = main \/ \E t : Close(c, t)
      BY <2>3 DEF Callback, Input, Output, BrokenPipe
    <3> QED
      BY <2>1, <3>1
  <2>4. CASE Start \/ gtk_retry_shim \/ gtk_poll_shim \/ TakeLine \/ ProcessAnswer \/ Tick
             \/ Answered \/ UNCHANGED vars
    BY <2>4 DEF Start, gtk_retry_shim, gtk_poll_shim, TakeLine, ProcessAnswer, Tick,
                Answered, proto_do_retries, vars
  <2>5. ASSUME NEW c \in Conns, BackStep(c) PROVE FALSE
    BY <2>5 DEF BackStep
  <2> QED
    BY <2>2, <2>3, <2>4, <2>5 DEF Next, LoopStep, UserStep
<1> QED
  BY <1>1, PTL DEF Spec, MainKept

-------------------------------------------------------------------------------
(* What the sources lead to *)

(* A closed connection has no source for reading and nothing in its        *)
(* buffers; stale tags for writing may be left. An open one is served.     *)
Serves(c, s, t) ==
    IF s.state = "PENALTY_BOX"
    THEN t.reads[c] = <<>> /\ s.bin = <<>> /\ s.bout = <<>>
    ELSE /\ PipesOf(c, t.file, t.fds[c])
         /\ t.reads[c] = <<t.fds[c].in>>
         /\ s.bout # <<>> => \E i \in DOMAIN t.writes[c] : t.writes[c][i] = t.fds[c].out

(* Lines wait only where the thread is in the middle of them.  The         *)
(* connection the user is asked for stays open, since its end of file      *)
(* cannot be read in the meantime, and is left alone.                      *)
Dialogs(records, l) ==
    /\ \A c \in Conns : records[c].bin # <<>> => c \in Engaged(l)
    /\ l.pc \in {"start", "idle"} => l.serving = Nobody
    /\ l.asking # Nobody => /\ l.entered /\ l.asking \in Prompting /\ l.serving # l.asking
                            /\ records[l.asking].state = "NORMAL"

ServeInv == /\ \A c \in Conns : Serves(c, conn[c], io)
            /\ Dialogs(conn, loop)

LEMMA ServeInit == Init => ServeInv
<1> SUFFICES ASSUME Init PROVE ServeInv
  OBVIOUS
<1>1. \A c \in Conns : /\ conn[c] = connection_init
                       /\ io.reads[c] = <<>>
  BY DEF Init
<1>2. loop = [pc |-> "start", serving |-> Nobody, asking |-> Nobody, entered |-> FALSE]
  BY DEF Init
<1> QED
  BY <1>1, <1>2, PromptingAssumption
     DEF ServeInv, Serves, Dialogs, connection_init

(* Closing one connection leaves the others what they have.                *)
LEMMA CloseServes ==
  ASSUME TypeInv, ServeInv, NEW c \in Conns, conn[c].state # "PENALTY_BOX",
         NEW t, Close(c, t), Stripped(io, c, t)
  PROVE  /\ \A d \in Conns : Serves(d, conn'[d], io')
         /\ \A d \in Conns \ {c} : /\ conn'[d] = conn[d]
                                   /\ conn[d].state # "PENALTY_BOX" =>
                                        Held(io', d) /\ be'[d] = be[d]
         /\ conn'[c].state = "PENALTY_BOX" /\ conn'[c].bin = <<>>
<1>1. /\ io' = t /\ io'.fds = io.fds /\ io'.file = Emptied(io, c)
      /\ io'.reads[c] = taglist_delete(io.reads[c])
      /\ \A d \in Conns \ {c} : io'.reads[d] = io.reads[d] /\ io'.writes[d] = io.writes[d]
      /\ LeaveUnheld(io')
  BY DEF Close, Stripped
<1>2. /\ conn'[c].state = "PENALTY_BOX" /\ conn'[c].bin = <<>> /\ conn'[c].bout = <<>>
      /\ \A d \in Conns \ {c} : conn'[d] = conn[d]
  BY Fields DEF Close, connection_close, ConnRecords
<1>3. PipesOf(c, io.file, io.fds[c]) /\ io.reads[c] = <<io.fds[c].in>>
  BY DEF ServeInv, Serves
<1>4. Serves(c, conn'[c], io')
  <2>1. taglist_delete(<<io.fds[c].in>>) = <<>>
    BY DEF taglist_delete
  <2> QED
    BY <1>1, <1>2, <1>3, <2>1 DEF Serves
<1>5. ASSUME NEW d \in Conns \ {c}, conn[d].state # "PENALTY_BOX"
      PROVE  PipesOf(d, io'.file, io'.fds[d]) /\ Held(io', d) /\ be'[d] = be[d]
  <2>1. PipesOf(d, io.file, io.fds[d])
    BY <1>5 DEF ServeInv, Serves
  <2>2. /\ io.fds[d].in \notin {io.fds[c].in, io.fds[c].out}
        /\ io.fds[d].out \notin {io.fds[c].in, io.fds[c].out}
    BY <1>3, <2>1 DEF PipesOf
  <2>3. io.fds[d].in \in Fds /\ io.fds[d].out \in Fds
    BY <2>1 DEF PipesOf, Numbers
  <2>4. /\ io'.file[io.fds[d].in] = io.file[io.fds[d].in]
        /\ io'.file[io.fds[d].out] = io.file[io.fds[d].out]
    BY <1>1, <2>2, <2>3 DEF Emptied
  <2>5. PipesOf(d, io'.file, io'.fds[d])
    BY <1>1, <2>1, <2>4 DEF PipesOf
  <2>6. Held(io', d)
    BY <2>3, <1>1, <2>5 DEF Held, PipesOf
  <2> QED
    BY <1>1, <2>5, <2>6 DEF LeaveUnheld
<1>6. ASSUME NEW d \in Conns \ {c} PROVE Serves(d, conn'[d], io')
  <2>1. Serves(d, conn[d], io)
    BY DEF ServeInv
  <2> QED
    BY <1>1, <1>2, <1>5, <2>1 DEF Serves
<1> QED
  BY <1>2, <1>4, <1>5, <1>6

(* A handler that asks for output gets a source for it.                    *)
Asked(s, r) == r.watch = {"write"} \/ (r.watch = {} /\ r.bout = s.bout)

LEMMA TagFound ==
  ASSUME NEW tags \in Seq(Fds), NEW x \in Fds, NEW y
  PROVE  /\ \E i \in DOMAIN Append(tags, x) : Append(tags, x)[i] = x
         /\ (\E i \in DOMAIN tags : tags[i] = y)
              => \E i \in DOMAIN Append(tags, x) : Append(tags, x)[i] = y
<1> DEFINE more == Append(tags, x)
<1>1. /\ DOMAIN tags = 1 .. Len(tags) /\ DOMAIN more = 1 .. (Len(tags) + 1) /\ Len(tags) \in Nat
      /\ more[Len(tags) + 1] = x /\ \A i \in 1 .. Len(tags) : more[i] = tags[i]
  BY LenProperties, AppendProperties
<1> HIDE DEF more
<1>2. \E i \in DOMAIN more : more[i] = x
  BY <1>1
<1>3. ASSUME NEW i \in DOMAIN tags, tags[i] = y PROVE \E j \in DOMAIN more : more[j] = y
  BY <1>1, <1>3
<1> QED
  BY <1>2, <1>3 DEF more

LEMMA WatchServes ==
  ASSUME TypeInv, ServeInv, NEW types \in [Conns -> SUBSET {"read", "write"}],
         io' = gtk_add_fd(io, types),
         \A d \in Conns : /\ "read" \notin types[d]
                          /\ types[d] # {} => conn[d].state # "PENALTY_BOX"
                          /\ SameSide(conn[d], conn'[d])
                          /\ conn[d].state = "PENALTY_BOX" =>
                               conn'[d].bin = conn[d].bin /\ conn'[d].bout = conn[d].bout
                          /\ "write" \in types[d] \/ conn'[d].bout = conn[d].bout,
         NEW d \in Conns
  PROVE  Serves(d, conn'[d], io')
<1>1. Serves(d, conn[d], io)
  BY DEF ServeInv
<1>2. \A e \in Conns : types[e] # {} => io.fds[e] \in Numbers
  BY DEF ServeInv, Serves, PipesOf
<1>3. /\ io'.file = io.file /\ io'.fds = io.fds
      /\ io'.reads[d] = io.reads[d]
      /\ io'.writes[d] = IF "write" \in types[d] THEN Append(io.writes[d], io.fds[d].out)
                         ELSE io.writes[d]
  <2>1. io \in IOs
    BY Fields
  <2> QED
    BY <1>2, <2>1, AddFd
<1>4. CASE conn[d].state = "PENALTY_BOX"
  BY <1>1, <1>3, <1>4 DEF Serves, SameSide
<1>5. CASE conn[d].state # "PENALTY_BOX"
  <2>1. PipesOf(d, io.file, io.fds[d]) /\ io.reads[d] = <<io.fds[d].in>>
    BY <1>1, <1>5 DEF Serves
  <2>2. conn'[d].bout # <<>> => \E i \in DOMAIN io'.writes[d] : io'.writes[d][i] = io.fds[d].out
    <3>1. CASE "write" \in types[d]
      <4>1. io.fds[d].out \in Fds /\ io.writes[d] \in Seq(Fds)
        BY <2>1, Fields DEF PipesOf, Numbers
      <4> DEFINE x == io.fds[d].out
                 more == Append(io.writes[d], x)
      <4>2. \E i \in DOMAIN more : more[i] = x
        BY <4>1, TagFound, ZenonT(60)
      <4>3. io'.writes[d] = more
        BY <1>3, <3>1
      <4> HIDE DEF more
      <4> QED
        BY <4>2, <4>3
    <3>2. CASE "write" \notin types[d]
      BY <1>1, <1>3, <1>5, <3>2 DEF Serves
    <3> QED
      BY <3>1, <3>2
  <2> QED
    BY <1>3, <1>5, <2>1, <2>2 DEF Serves, SameSide
<1> QED
  BY <1>4, <1>5

LEMMA HandledServes ==
  ASSUME TypeInv, ServeInv, NEW c \in Conns, conn[c].state # "PENALTY_BOX",
         NEW r \in ConnRecords, r.state # "PENALTY_BOX", Asked(conn[c], r), Handled(c, r)
  PROVE  /\ \A d \in Conns : Serves(d, conn'[d], io')
         /\ \A d \in Conns \ {c} : conn'[d] = conn[d]
         /\ conn'[c].state = r.state /\ conn'[c].bin = r.bin
<1> DEFINE types == [d \in Conns |-> IF d = c THEN r.watch ELSE {}]
<1>1. io' = gtk_add_fd(io, types) /\ conn' = [conn EXCEPT ![c] = Muted(r)]
  BY DEF Handled, Muted
<1>2. /\ types \in [Conns -> SUBSET {"read", "write"}] /\ types[c] = r.watch
      /\ \A d \in Conns \ {c} : types[d] = {}
  BY DEF ConnRecords
<1> HIDE DEF types
<1>3. /\ \A d \in Conns \ {c} : conn'[d] = conn[d]
      /\ conn'[c].state = r.state /\ conn'[c].bin = r.bin /\ conn'[c].bout = r.bout
  BY <1>1, Fields, MutedFields
<1>4. \A d \in Conns : /\ "read" \notin types[d]
                       /\ types[d] # {} => conn[d].state # "PENALTY_BOX"
                       /\ SameSide(conn[d], conn'[d])
                       /\ conn[d].state = "PENALTY_BOX" =>
                            conn'[d].bin = conn[d].bin /\ conn'[d].bout = conn[d].bout
                       /\ "write" \in types[d] \/ conn'[d].bout = conn[d].bout
  BY <1>2, <1>3 DEF Asked, SameSide
<1>5. \A d \in Conns : Serves(d, conn'[d], io')
  BY <1>1, <1>2, <1>4, WatchServes
<1> QED
  BY <1>3, <1>5

LEMMA RetryServes ==
  ASSUME TypeInv, ServeInv, proto_do_retries, loop'.serving = loop.serving,
         loop'.asking = loop.asking, loop'.entered = loop.entered, loop'.pc = "idle",
         loop.pc \in {"start", "idle"}
  PROVE  ServeInv'
<1>1. PICK started \in SUBSET (Conns \ OpenIn(conn)) :
        /\ \A c \in started :
             /\ PipesOf(c, io'.file, io'.fds[c])
             /\ io'.reads[c] = Append(io.reads[c], io'.fds[c].in)
             /\ conn'[c] = Muted(proto_init_conn(conn[c])) /\ be'[c] = Fresh
        /\ \A c \in Conns \ started :
             /\ io'.fds[c] = io.fds[c]
             /\ io'.reads[c] = io.reads[c] /\ io'.writes[c] = io.writes[c]
             /\ conn'[c] = conn[c] /\ be'[c] = be[c]
        /\ \A x \in Fds : io.file[x] # Free => io'.file[x] = io.file[x]
  BY RetryOpens
<1>2. \A c \in Conns : /\ conn'[c].state = IF c \in started THEN "WAIT_HELLO" ELSE conn[c].state
                       /\ conn'[c].bin = conn[c].bin /\ conn'[c].bout = conn[c].bout
  BY <1>1, Fields, InitFields
<1>3. ASSUME NEW c \in Conns PROVE Serves(c, conn'[c], io')
  <2>1. Serves(c, conn[c], io)
    BY DEF ServeInv
  <2>2. CASE c \in started
    <3>1. io.reads[c] = <<>> /\ conn[c].bin = <<>> /\ conn[c].bout = <<>>
      BY <2>1, <2>2 DEF Serves, OpenIn
    <3>2. Append(<<>>, io'.fds[c].in) = <<io'.fds[c].in>>
      OBVIOUS
    <3>3. conn'[c].state # "PENALTY_BOX" /\ conn'[c].bout = <<>> /\ io'.reads[c] = <<io'.fds[c].in>>
      BY <1>1, <1>2, <2>2, <3>1, <3>2
    <3> QED
      BY <1>1, <2>2, <3>3 DEF Serves
  <2>3. CASE c \notin started /\ conn[c].state # "PENALTY_BOX"
    <3>1. PipesOf(c, io.file, io.fds[c])
      BY <2>1, <2>3 DEF Serves
    <3>2. PipesOf(c, io'.file, io'.fds[c])
      BY <1>1, <2>3, <3>1 DEF PipesOf, Numbers, Free
    <3> QED
      BY <1>1, <2>1, <2>3, <3>2 DEF Serves
  <2>4. CASE c \notin started /\ conn[c].state = "PENALTY_BOX"
    BY <1>1, <2>1, <2>4 DEF Serves
  <2> QED
    BY <2>2, <2>3, <2>4
<1>4. Dialogs(conn', loop')
  <2>1. loop.asking # Nobody => loop.asking \in Conns /\ loop.asking \notin started
    BY PromptingAssumption DEF ServeInv, Dialogs, OpenIn
  <2> QED
    BY <1>2, <2>1 DEF ServeInv, Dialogs, Engaged
<1> QED
  BY <1>3, <1>4 DEF ServeInv

LEMMA PollServes ==
  ASSUME TypeInv, ServeInv, gtk_poll_shim
  PROVE  ServeInv'
<1> DEFINE types == [c \in Conns |-> Polled(c).watch]
<1>1. /\ io' = gtk_add_fd(io, types) /\ loop' = loop /\ be' = be
      /\ conn' = [c \in Conns |-> Muted(Polled(c))]
  BY DEF gtk_poll_shim, Muted
<1>2. \A c \in Conns : /\ Polled(c) \in ConnRecords /\ Polled(c).state = conn[c].state
                       /\ Polled(c).watch # {} => conn[c].state = "NORMAL"
                       /\ Polled(c).bin = conn[c].bin
                       /\ Asked(conn[c], Polled(c))
  <2>1. ASSUME NEW c \in Conns PROVE Polled(c).bin = conn[c].bin /\ Asked(conn[c], Polled(c))
    <3>1. CASE WantsPoll(conn[c])
      <4>1. /\ Queues(c, conn[c], proto_poll_conn(conn[c])) /\ conn[c].watch = {}
            /\ proto_poll_conn(conn[c]).bin = conn[c].bin
        BY Fields, PollQueues, PollFields
      <4> QED
        BY <3>1, <4>1 DEF Polled, Queues, Asked
    <3>2. CASE ~WantsPoll(conn[c])
      BY <3>2, Fields DEF Polled, Asked
    <3> QED
      BY <3>1, <3>2
  <2> QED
    BY <2>1, PolledFields
<1>3. /\ types \in [Conns -> SUBSET {"read", "write"}]
      /\ \A c \in Conns : types[c] = Polled(c).watch
  BY <1>2 DEF ConnRecords
<1> HIDE DEF types
<1>4. \A c \in Conns : /\ conn'[c].state = conn[c].state
                       /\ conn'[c].bin = conn[c].bin /\ conn'[c].bout = Polled(c).bout
  BY <1>1, <1>2, MutedFields
<1>5. \A d \in Conns : /\ "read" \notin types[d]
                       /\ types[d] # {} => conn[d].state # "PENALTY_BOX"
                       /\ SameSide(conn[d], conn'[d])
                       /\ conn[d].state = "PENALTY_BOX" =>
                            conn'[d].bin = conn[d].bin /\ conn'[d].bout = conn[d].bout
                       /\ "write" \in types[d] \/ conn'[d].bout = conn[d].bout
  <2> SUFFICES ASSUME NEW d \in Conns
               PROVE  /\ "read" \notin types[d]
                      /\ types[d] # {} => conn[d].state = "NORMAL"
                      /\ types[d] = {"write"} \/ conn'[d].bout = conn[d].bout
    BY <1>2, <1>3, <1>4 DEF SameSide
  <2>1. Asked(conn[d], Polled(d)) /\ types[d] = Polled(d).watch /\ conn'[d].bout = Polled(d).bout
    BY <1>2, <1>3, <1>4
  <2> QED
    BY <1>2, <2>1 DEF Asked
<1>6. \A d \in Conns : Serves(d, conn'[d], io')
  BY <1>1, <1>3, <1>5, WatchServes
<1>7. Dialogs(conn', loop')
  BY <1>1, <1>4, PromptingAssumption DEF ServeInv, Dialogs
<1> QED
  BY <1>6, <1>7 DEF ServeInv

(* Where tables stay, so does what is served.                              *)
LEMMA SameServes ==
  ASSUME ServeInv, io' = io, NEW d \in Conns, SameSide(conn[d], conn'[d]),
         conn'[d].bout = conn[d].bout,
         conn[d].state = "PENALTY_BOX" => conn'[d].bin = conn[d].bin
  PROVE  Serves(d, conn'[d], io')
<1>1. Serves(d, conn[d], io)
  BY DEF ServeInv
<1> QED
  BY <1>1 DEF Serves, SameSide

LEMMA InputServes ==
  ASSUME TypeInv, ServeInv, NEW c \in Conns, Input(c)
  PROVE  ServeInv'
<1> DEFINE x == io.fds[c].in
<1>1. conn[c].state # "PENALTY_BOX"
  <2>0. InputReady(c)
    BY DEF Input
  <2>1. io.reads[c] # <<>>
    BY <2>0, Fields, EmptySeq DEF InputReady
  <2> QED
    BY <2>1 DEF ServeInv, Serves
<1>2. io.file[x] = [of |-> c, end |-> "in"] /\ io.fds[c] \in Numbers
  BY <1>1 DEF ServeInv, Serves, PipesOf
<1>3. loop.pc = "idle" /\ loop.serving = Nobody /\ loop.asking # c
  BY ConnsNumbers DEF Input, ServeInv, Dialogs
<1>4. CASE /\ \E n \in 1 .. Len(fromBack[c]) : conn' = [conn EXCEPT ![c].bin = SubSeq(fromBack[c], 1, n)]
           /\ loop' = [loop EXCEPT !.pc = "next", !.serving = c]
           /\ UNCHANGED <<io, be>>
  <2>1. PICK q : conn' = [conn EXCEPT ![c].bin = q]
    BY <1>4
  <2>2. \A d \in Conns : /\ conn'[d].state = conn[d].state /\ conn'[d].bout = conn[d].bout
                         /\ conn'[d].bin = IF d = c THEN q ELSE conn[d].bin
    BY <2>1, Fields, ZenonT(60) DEF ConnRecords
  <2>3. \A d \in Conns : Serves(d, conn'[d], io')
    BY <1>1, <1>4, <2>2, SameServes DEF SameSide
  <2>4. /\ loop'.pc = "next" /\ loop'.serving = c /\ loop'.asking = loop.asking
        /\ loop'.entered = loop.entered
    BY <1>4, Fields DEF Loops
  <2>5. Dialogs(conn', loop')
    BY <1>3, <2>2, <2>4, PromptingAssumption, ConnsNumbers, ZenonT(60) DEF ServeInv, Dialogs, Engaged
  <2> QED
    BY <2>3, <2>5 DEF ServeInv
<1>5. CASE ~be[c].up /\ Close(c, CloseFds(io, c)) /\ loop' = Left(c)
  <2>1. Stripped(io, c, CloseFds(io, c))
    BY Fields, CloseFdsStrips
  <2>2. /\ \A d \in Conns : Serves(d, conn'[d], io')
        /\ \A d \in Conns \ {c} : /\ conn'[d] = conn[d]
                                  /\ conn[d].state # "PENALTY_BOX" => be'[d] = be[d]
        /\ conn'[c].state = "PENALTY_BOX" /\ conn'[c].bin = <<>>
    BY <1>1, <1>5, <2>1, CloseServes
  <2>3. /\ loop'.pc = loop.pc /\ loop'.serving = loop.serving /\ loop'.asking = loop.asking
        /\ loop'.entered <=> loop.entered
    BY <1>3, <1>5, LeftLoop
  <2>4. Dialogs(conn', loop')
    BY <1>3, <2>2, <2>3, PromptingAssumption DEF ServeInv, Dialogs, Engaged
  <2> QED
    BY <2>2, <2>4 DEF ServeInv
<1> QED
  BY <1>2, <1>4, <1>5 DEF Input

LEMMA OutputServes ==
  ASSUME TypeInv, ServeInv, NEW c \in Conns, Output(c)
  PROVE  ServeInv'
<1> DEFINE x == io.fds[c].out
<1>1. conn[c].bout # <<>> =>
        conn[c].state # "PENALTY_BOX" /\ io.file[x] = [of |-> c, end |-> "out"]
  BY DEF ServeInv, Serves, PipesOf
<1>2. ASSUME NEW rest, \A d \in Conns : /\ conn'[d].state = conn[d].state
                                        /\ conn'[d].bin = conn[d].bin
                                        /\ conn'[d].bout = IF d = c THEN rest ELSE conn[d].bout,
             conn[c].state = "PENALTY_BOX" => rest = <<>>,
             rest # <<>> => conn[c].bout # <<>>,
             io' = io \/ io' = gtk_delete_fd(io, c, {"write"}),
             rest # <<>> => io' = io,
             UNCHANGED <<loop, be>>
      PROVE  ServeInv'
  <2>1. /\ io'.file = io.file /\ io'.fds = io.fds
        /\ \A d \in Conns : /\ io'.reads[d] = io.reads[d]
                            /\ d # c \/ rest # <<>> => io'.writes[d] = io.writes[d]
    <3>1. io \in IOs
      BY Fields
    <3> QED
      BY <1>2, <3>1, DeleteFd
  <2>2. ASSUME NEW d \in Conns PROVE Serves(d, conn'[d], io')
    <3>1. Serves(d, conn[d], io)
      BY DEF ServeInv
    <3> QED
      BY <1>2, <2>1, <3>1 DEF Serves
  <2>3. Dialogs(conn', loop')
    BY <1>2, PromptingAssumption DEF ServeInv, Dialogs
  <2> QED
    BY <2>2, <2>3 DEF ServeInv
<1>3. CASE /\ conn[c].bout = <<>> /\ io' = gtk_delete_fd(io, c, {"write"})
           /\ UNCHANGED <<conn, loop, be>>
  <2>1. \A d \in Conns : /\ conn'[d].state = conn[d].state /\ conn'[d].bin = conn[d].bin
                         /\ conn'[d].bout = IF d = c THEN <<>> ELSE conn[d].bout
    BY <1>3
  <2> QED
    BY <1>2, <1>3, <2>1
<1>4. ASSUME NEW n \in 1 .. Len(conn[c].bout),
             LET s == Written(conn[c], n)
             IN  /\ conn' = [conn EXCEPT ![c] = s]
                 /\ io' = IF s.bout = <<>> THEN gtk_delete_fd(io, c, {"write"}) ELSE io,
             UNCHANGED <<loop, be>>
      PROVE  ServeInv'
  <2> DEFINE s == Written(conn[c], n)
             rest == SubSeq(conn[c].bout, n + 1, Len(conn[c].bout))
  <2>1. s.state = conn[c].state /\ s.bin = conn[c].bin /\ s.bout = rest
    BY Fields, ZenonT(60) DEF Written, ConnRecords
  <2>2. conn[c].bout # <<>>
    BY <1>4, Fields, EmptySeq DEF ConnRecords
  <2>3. /\ conn' = [conn EXCEPT ![c] = s]
        /\ io' = IF s.bout = <<>> THEN gtk_delete_fd(io, c, {"write"}) ELSE io
    BY <1>4
  <2> HIDE DEF s, rest
  <2>4. \A d \in Conns : /\ conn'[d].state = conn[d].state /\ conn'[d].bin = conn[d].bin
                         /\ conn'[d].bout = IF d = c THEN rest ELSE conn[d].bout
    BY <2>1, <2>3, Fields
  <2>5. conn[c].state # "PENALTY_BOX"
    BY <1>1, <2>2
  <2>6. /\ io' = io \/ io' = gtk_delete_fd(io, c, {"write"})
        /\ rest # <<>> => io' = io
    BY <2>1, <2>3
  <2> QED
    BY <1>2, <1>4, <2>2, <2>4, <2>5, <2>6
<1>5. CASE BrokenPipe(c)
  <2>1. \A d \in Conns : Serves(d, conn'[d], io')
    BY <1>5, KilledLoop DEF ServeInv
  <2>2. Dialogs(conn', loop')
    BY <1>5, KilledLoop DEF ServeInv, Dialogs, Engaged
  <2> QED
    BY <2>1, <2>2 DEF ServeInv
<1> QED
  BY <1>3, <1>4, <1>5 DEF Output

(* The connection that is served is open, and the loop goes on or comes    *)
(* back to rest.                                                           *)
LEMMA ServedOpen ==
  ASSUME TypeInv, ServeInv, NEW c \in Conns, conn[c].bin # <<>>
  PROVE  conn[c].state # "PENALTY_BOX"
BY DEF ServeInv, Serves

LEMMA LineServes ==
  ASSUME TypeInv, ServeInv, ProcessLine
  PROVE  ServeInv'
<1> DEFINE c == loop.serving
<1>1. /\ c \in Conns /\ conn[c].bin # <<>> /\ loop.pc = "line" /\ Continue(c)
      /\ conn[c].state # "PENALTY_BOX" /\ loop.asking # c
  BY LineStep, ServedOpen, ConnsNumbers DEF ServeInv, Dialogs
<1>2. /\ loop'.asking = loop.asking /\ loop'.entered = loop.entered
      /\ \/ loop'.pc = "next" /\ loop'.serving = c /\ conn'[c].bin # <<>>
         \/ loop'.pc = "idle" /\ loop'.serving = Nobody /\ conn'[c].bin = <<>>
  BY <1>1, ContinueLoop
<1>3. CASE Closes(Rest(c), Head(conn[c].bin))
  <2>1. Close(c, CloseFds(io, c)) /\ Stripped(io, c, CloseFds(io, c))
    BY <1>1, <1>3, LineStep, Fields, CloseFdsStrips
  <2>2. /\ \A d \in Conns : Serves(d, conn'[d], io')
        /\ \A d \in Conns \ {c} : /\ conn'[d] = conn[d]
                                  /\ conn[d].state # "PENALTY_BOX" => be'[d] = be[d]
        /\ conn'[c].state = "PENALTY_BOX" /\ conn'[c].bin = <<>>
    BY <1>1, <2>1, CloseServes
  <2>3. Dialogs(conn', loop')
    BY <1>1, <1>2, <2>2, PromptingAssumption DEF ServeInv, Dialogs, Engaged
  <2> QED
    BY <2>2, <2>3 DEF ServeInv
<1>4. CASE ~Closes(Rest(c), Head(conn[c].bin))
  <2>1. Handled(c, Processed(c)) /\ be' = be
    BY <1>4, LineStep
  <2>2. /\ Processed(c) \in ConnRecords /\ SameSide(conn[c], Processed(c))
        /\ Queues(c, conn[c], Processed(c)) \/ Leaves(conn[c], Processed(c))
    BY <1>1, <1>4, ProcessedFields
  <2>3. Processed(c).state # "PENALTY_BOX" /\ Asked(conn[c], Processed(c))
    <3>1. conn[c].watch = {}
      BY <1>1, Fields
    <3> QED
      BY <1>1, <2>2, <3>1 DEF SameSide, Queues, Leaves, Asked
  <2>4. /\ \A d \in Conns : Serves(d, conn'[d], io')
        /\ \A d \in Conns \ {c} : conn'[d] = conn[d]
    BY <1>1, <2>1, <2>2, <2>3, HandledServes
  <2>5. Dialogs(conn', loop')
    BY <1>1, <1>2, <2>4, PromptingAssumption DEF ServeInv, Dialogs, Engaged
  <2> QED
    BY <2>4, <2>5 DEF ServeInv
<1> QED
  BY <1>3, <1>4

LEMMA AnswerServes ==
  ASSUME TypeInv, ServeInv, ProcessAnswer
  PROVE  ServeInv'
<1> DEFINE c == loop.serving
           r == Respond(Rest(c))
<1>1. /\ c \in Conns /\ conn[c].bin # <<>> /\ loop.pc = "answer" /\ Continue(c)
      /\ Handled(c, r) /\ Answers(conn[c], r)
      /\ r \in ConnRecords /\ r.state = conn[c].state /\ be' = be
  BY AnswerStep
<1>2. /\ loop'.asking = loop.asking /\ loop'.entered = loop.entered
      /\ \/ loop'.pc = "next" /\ loop'.serving = c /\ conn'[c].bin # <<>>
         \/ loop'.pc = "idle" /\ loop'.serving = Nobody /\ conn'[c].bin = <<>>
  BY <1>1, ContinueLoop
<1> HIDE DEF r
<1>3. conn[c].state # "PENALTY_BOX" /\ loop.asking # c
  BY <1>1, ServedOpen, ConnsNumbers DEF ServeInv, Dialogs
<1>4. Asked(conn[c], r)
  <2>1. r.watch = conn[c].watch \cup {"write"} /\ conn[c].watch = {}
    BY <1>1, Fields, AnswersFields
  <2> QED
    BY <2>1 DEF Asked
<1>5. /\ \A d \in Conns : Serves(d, conn'[d], io')
      /\ \A d \in Conns \ {c} : conn'[d] = conn[d]
  BY <1>1, <1>3, <1>4, HandledServes
<1>6. Dialogs(conn', loop')
  BY <1>1, <1>2, <1>3, <1>5, PromptingAssumption DEF ServeInv, Dialogs, Engaged
<1> QED
  BY <1>5, <1>6 DEF ServeInv

(* Lines are put aside for the user's answer and taken up again.           *)
LEMMA DialogServes ==
  ASSUME TypeInv, ServeInv, TakeLine \/ Answered
  PROVE  ServeInv'
<1>1. io' = io
  BY DEF TakeLine, Answered
<1>2. ASSUME NEW c \in Conns, NEW q, conn' = [conn EXCEPT ![c].bin = q],
             conn[c].state # "PENALTY_BOX", Dialogs(conn', loop')
      PROVE  ServeInv'
  <2>1. \A d \in Conns : /\ conn'[d].state = conn[d].state /\ conn'[d].bout = conn[d].bout
                         /\ conn'[d].bin = IF d = c THEN q ELSE conn[d].bin
    BY <1>2, Fields, ZenonT(60) DEF ConnRecords
  <2>2. \A d \in Conns : Serves(d, conn'[d], io')
    BY <1>1, <1>2, <2>1, SameServes DEF SameSide
  <2> QED
    BY <1>2, <2>2 DEF ServeInv
<1>3. CASE TakeLine
  <2> DEFINE c == loop.serving
  <2>1. c \in Conns /\ conn[c].bin # <<>> /\ conn[c].state # "PENALTY_BOX" /\ loop.pc = "next"
    BY <1>3, ServedOpen DEF TakeLine, TypeInv, LoopInv
  <2>2. CASE /\ conn[c].state = "NORMAL" /\ c \in Prompting /\ loop.asking = Nobody
             /\ conn' = [conn EXCEPT ![c].bin = Tail(@)]
             /\ loop' = [pc |-> "idle", serving |-> Nobody, asking |-> c, entered |-> TRUE]
    <3>1. PICK q : conn' = [conn EXCEPT ![c].bin = q]
      BY <2>2
    <3>2. \A d \in Conns : /\ conn'[d].state = conn[d].state
                           /\ conn'[d].bin = IF d = c THEN q ELSE conn[d].bin
      BY <3>1, Fields DEF ConnRecords
    <3>3. /\ loop'.pc = "idle" /\ loop'.serving = Nobody /\ loop'.asking = c /\ loop'.entered
      BY <2>2
    <3>4. Dialogs(conn', loop')
      BY <2>1, <2>2, <3>2, <3>3, ConnsNumbers DEF ServeInv, Dialogs, Engaged
    <3> QED
      BY <1>2, <2>1, <3>1, <3>4
  <2>3. CASE loop' = [loop EXCEPT !.pc = "line"] /\ conn' = conn
    <3>1. /\ loop'.pc = "line" /\ loop'.serving = loop.serving /\ loop'.asking = loop.asking
          /\ loop'.entered = loop.entered
      BY <2>3, Fields DEF Loops
    <3>2. Dialogs(conn', loop')
      BY <2>3, <3>1 DEF ServeInv, Dialogs, Engaged
    <3>3. \A d \in Conns : Serves(d, conn'[d], io')
      BY <1>1, <2>3 DEF ServeInv
    <3> QED
      BY <3>2, <3>3 DEF ServeInv
  <2> QED
    BY <1>3, <2>2, <2>3 DEF TakeLine
<1>4. CASE Answered
  <2> DEFINE c == loop.asking
  <2>1. c \in Conns /\ conn[c].state = "NORMAL" /\ loop.serving = Nobody
    BY <1>4, PromptingAssumption DEF Answered, ServeInv, Dialogs
  <2>2. loop' = [pc |-> "answer", serving |-> c, asking |-> Nobody, entered |-> FALSE]
    BY <1>4 DEF Answered
  <2>3. PICK q : conn' = [conn EXCEPT ![c].bin = q]
    BY <1>4 DEF Answered
  <2>4. \A d \in Conns : /\ conn'[d].state = conn[d].state
                         /\ conn'[d].bin = IF d = c THEN q ELSE conn[d].bin
    BY <2>1, <2>3, Fields DEF ConnRecords
  <2>5. Dialogs(conn', loop')
    BY <2>1, <2>2, <2>4, ConnsNumbers DEF ServeInv, Dialogs, Engaged
  <2> QED
    BY <1>2, <2>1, <2>3, <2>5
<1> QED
  BY <1>3, <1>4

LEMMA TickFields ==
  ASSUME TypeInv, Tick, NEW d \in Conns
  PROVE  /\ conn'[d].state = conn[d].state /\ conn'[d].bout = conn[d].bout
         /\ conn'[d].bin = conn[d].bin
<1> DEFINE w == IF conn[d].wait > 0 THEN conn[d].wait - 1 ELSE 0
<1>1. conn'[d] = [conn[d] EXCEPT !.wait = w]
  BY DEF Tick
<1> HIDE DEF w
<1> QED
  BY <1>1, Fields DEF ConnRecords

LEMMA ServeStep ==
  ASSUME TypeInv, ServeInv, [Next]_vars
  PROVE  ServeInv'
<1>1. CASE Start
  <2>1. /\ proto_do_retries /\ loop.pc = "start" /\ loop'.pc = "idle"
        /\ loop'.serving = loop.serving /\ loop'.asking = loop.asking
        /\ loop'.entered = loop.entered
    BY <1>1, Fields DEF Start, Loops
  <2> QED
    BY <2>1, RetryServes
<1>2. CASE gtk_retry_shim
  BY <1>2, RetryServes DEF gtk_retry_shim
<1>3. CASE Tick
  <2>1. \A d \in Conns : Serves(d, conn'[d], io')
    BY <1>3, TickFields, SameServes DEF Tick, SameSide
  <2>2. Dialogs(conn', loop')
    BY <1>3, TickFields, PromptingAssumption, ZenonT(60) DEF Tick, ServeInv, Dialogs
  <2> QED
    BY <2>1, <2>2 DEF ServeInv
<1>4. CASE UNCHANGED <<conn, io, loop>>
  <2>1. \A d \in Conns : Serves(d, conn'[d], io')
    BY <1>4 DEF ServeInv
  <2> QED
    BY <1>4, <2>1 DEF ServeInv
<1>5. UNCHANGED vars \/ image_clicked \/ (\E c \in Conns : BackStep(c)) =>
        UNCHANGED <<conn, io, loop>>
  BY DEF vars, image_clicked, BackStep
<1> QED
  BY <1>1, <1>2, <1>3, <1>4, <1>5, PollServes, DialogServes, LineServes, AnswerServes,
     InputServes, OutputServes
     DEF Next, LoopStep, UserStep, Callback

LEMMA ServeInvariant == Spec => []ServeInv
<1>1. ServeInv /\ TypeInv /\ [Next]_vars => ServeInv'
  BY ServeStep
<1> QED
  BY <1>1, ServeInit, TypeInvariant, PTL DEF Spec

(* Tags are added and deleted by several functions that do not know of     *)
(* each other (gui_gtk.c:304-323), and a closed connection may leave some  *)
(* behind; still an open connection is always read at its own pipe, by one *)
(* source, and watched for writing while it has something to write, for    *)
(* any number of connections, any configuration and any failures.          *)
THEOREM GtkTagsServe == Spec => []TagsServe
<1>1. ServeInv => TagsServe
  BY DEF ServeInv, Serves, PipesOf, TagsServe, Open
<1> QED
  BY <1>1, ServeInvariant, PTL

-------------------------------------------------------------------------------
(* The main image and the flags *)

(* What is only ours stays so, and flags stay right, by any step of the    *)
(* loop.                                                                   *)
LEMMA LoopFlag ==
  ASSUME ImagesConfigured, NEW c \in Conns, "unknown" \notin Faults[c],
         NEW s, RecordInv(c, s), Clean(c, s), FlagRight(s),
         NEW r, LoopStepOf(c, s, r, OurLines(c))
  PROVE  Clean(c, r) /\ FlagRight(r)
<1>0. Shape(c, s) /\ s \in ConnRecords
  BY DEF RecordInv, Shape
<1>1. ASSUME NEW q, HandlerStep(c, s, q, OurLines(c))
      PROVE  Clean(c, q) /\ FlagRight(q) /\ q \in ConnRecords
  <2>1. RecordStep(c, s, q, OurLines(c))
    BY <1>1 DEF RecordStep
  <2>2. Clean(c, q) /\ FlagRight(q)
    BY <1>0, <2>1, CleanStep, FlagStep
  <2>3. s.bin \in Seq(Lines) /\ OurLines(c) \subseteq Lines
    BY <1>0 DEF ConnRecords, OurLines
  <2>4. RecordStep(c, s, q, Lines)
    <3>1. Reads(s, q, OurLines(c)) => Reads(s, q, Lines)
      <4>1. Seq(OurLines(c)) \subseteq Seq(Lines)
        BY <2>3
      <4> QED
        BY <4>1 DEF Reads
    <3> QED
      BY <1>1, <3>1 DEF RecordStep, HandlerStep
  <2>5. Shape(c, q)
    BY <1>0, <2>4, ShapeStep
  <2> QED
    BY <2>2, <2>5 DEF Shape
<1>2. ASSUME NEW q \in ConnRecords, Clean(c, q), FlagRight(q)
      PROVE  Clean(c, Muted(q)) /\ FlagRight(Muted(q))
  BY <1>2, MutedFields DEF Clean, FlagRight
<1>3. CASE HandlerStep(c, s, r, OurLines(c))
  BY <1>1, <1>3
<1>4. ASSUME NEW q, HandlerStep(c, s, q, OurLines(c)), r = Muted(q)
      PROVE  Clean(c, r) /\ FlagRight(r)
  BY <1>1, <1>2, <1>4
<1>5. ASSUME NEW q, Answers(s, q), r = Muted(q) PROVE Clean(c, r) /\ FlagRight(r)
  <2>1. /\ q \in ConnRecords /\ q.bin = Tail(s.bin) /\ Shows(s, q)
        /\ q.bout = Append(s.bout, Command("DATARESPONSE", NoArg))
        /\ s.bin # <<>>
    BY <1>0, <1>5, AnswersFields DEF Answers
  <2>2. Command("DATARESPONSE", NoArg) \in OurCommands(c)
    BY DEF Command, Commands, OurCommands
  <2>3. Tail(s.bin) \in Seq(OurLines(c))
    BY <2>1, HeadTailProperties DEF Clean
  <2>4. Append(s.bout, Command("DATARESPONSE", NoArg)) \in Seq(OurCommands(c))
    BY <2>2, AppendProperties DEF Clean
  <2>5. Clean(c, q) /\ FlagRight(q)
    BY <2>1, <2>3, <2>4 DEF Clean, Shows, FlagRight
  <2> QED
    BY <1>2, <1>5, <2>1, <2>5
<1>6. CASE Ages(s, r)
  <2> DEFINE w == IF s.wait > 0 THEN s.wait - 1 ELSE 0
  <2>1. r = [s EXCEPT !.wait = w]
    BY <1>6 DEF Ages
  <2> HIDE DEF w
  <2>2. r.bin = s.bin /\ r.bout = s.bout /\ r.flag = s.flag /\ r.biffed = s.biffed
    BY <1>0, <2>1 DEF ConnRecords
  <2> QED
    BY <2>2 DEF Clean, FlagRight
<1> QED
  BY <1>3, <1>4, <1>5, <1>6 DEF LoopStepOf

OursInv == \A c \in Conns : Clean(c, conn[c]) /\ PipesClean(c)

LEMMA OursInit == Init => OursInv
<1> SUFFICES ASSUME Init, NEW c \in Conns PROVE Clean(c, conn[c]) /\ PipesClean(c)
  BY DEF OursInv
<1>1. conn[c] = connection_init /\ be[c] = Gone /\ toBack[c] = <<>> /\ fromBack[c] = <<>>
  BY DEF Init, BackInit
<1>2. connection_init.bin = <<>> /\ connection_init.bout = <<>> /\ Gone.known = {}
  BY DEF connection_init, Gone
<1>3. <<>> \in Seq(OurLines(c)) /\ <<>> \in Seq(OurCommands(c))
  BY EmptySeq
<1> HIDE DEF connection_init, Gone
<1>4. Clean(c, conn[c])
  BY <1>1, <1>2, <1>3 DEF Clean
<1> QED
  BY <1>1, <1>2, <1>3, <1>4 DEF PipesClean

(* Nobody reads or writes the pipes of another.                            *)
LEMMA OwnPipes ==
  ASSUME TypeInv, ServeInv, NEW c \in Conns
  PROVE  /\ InputReady(c) => io.file[io.fds[c].in].of = c
         /\ conn[c].bout # <<>> => io.file[io.fds[c].out].of = c
<1>1. InputReady(c) => conn[c].state # "PENALTY_BOX"
  <2>1. InputReady(c) => io.reads[c] # <<>>
    BY Fields, EmptySeq DEF InputReady
  <2> QED
    BY <2>1 DEF ServeInv, Serves
<1>2. conn[c].bout # <<>> => conn[c].state # "PENALTY_BOX"
  BY DEF ServeInv, Serves
<1>3. conn[c].state # "PENALTY_BOX" => PipesOf(c, io.file, io.fds[c])
  BY DEF ServeInv, Serves
<1> QED
  BY <1>1, <1>2, <1>3 DEF PipesOf

LEMMA PipesStep ==
  ASSUME TypeInv, ServeInv, OursInv, [Next]_vars, NEW d \in Conns
  PROVE  PipesClean(d)'
<1>0. /\ PipesClean(d) /\ Clean(d, conn[d])
      /\ toBack \in [Conns -> Seq(Commands)] /\ fromBack \in [Conns -> Seq(Lines)]
      /\ be \in [Conns -> BackEnds]
  BY Fields DEF OursInv
<1>1. ASSUME UNCHANGED <<toBack, fromBack, be>> PROVE PipesClean(d)'
  BY <1>0, <1>1 DEF PipesClean
<1>2. ASSUME NEW c, NEW t, Close(c, t) PROVE PipesClean(d)'
  <2>1. /\ toBack'[d] \in {toBack[d], <<>>} /\ fromBack'[d] \in {fromBack[d], <<>>}
        /\ be'[d] \in {be[d], Gone}
    BY <1>2 DEF Close, LeaveUnheld
  <2>2. Gone.known = {}
    BY DEF Gone
  <2> QED
    BY <1>0, <2>1, <2>2, EmptySeq DEF PipesClean
<1>3. CASE proto_do_retries
  <2>1. be'[d] \in {be[d], Fresh}
    BY <1>3 DEF proto_do_retries
  <2>2. Fresh.known = {}
    BY DEF Fresh, Gone
  <2> QED
    BY <1>0, <1>3, <2>1, <2>2 DEF proto_do_retries, PipesClean
<1>4. ASSUME NEW c \in Conns, Input(c) PROVE PipesClean(d)'
  <2>1. io.file[io.fds[c].in].of = c
    BY <1>4, OwnPipes DEF Input
  <2>2. ASSUME NEW n \in 1 .. Len(fromBack[c]), UNCHANGED <<toBack, be>>,
               fromBack' = [fromBack EXCEPT ![c] = SubSeq(@, n + 1, Len(@))]
        PROVE  PipesClean(d)'
    <3> DEFINE rest == SubSeq(fromBack[d], n + 1, Len(fromBack[d]))
    <3>1. CASE d = c
      <4>1. n \in 0 .. Len(fromBack[d]) /\ fromBack[d] \in Seq(OurLines(d))
        BY <1>0, <2>2, <3>1 DEF PipesClean
      <4>2. rest \in Seq(OurLines(d))
        BY <4>1, CutSeq
      <4>3. fromBack'[d] = rest
        BY <1>0, <2>2, <3>1
      <4> QED
        BY <1>0, <2>2, <4>2, <4>3 DEF PipesClean
    <3>2. CASE d # c
      BY <1>0, <2>2, <3>2 DEF PipesClean
    <3> QED
      BY <3>1, <3>2
  <2> QED
    BY <1>2, <1>4, <2>1, <2>2 DEF Input
<1>5. ASSUME NEW c \in Conns, Output(c) PROVE PipesClean(d)'
  <2>1. ASSUME NEW n \in 1 .. Len(conn[c].bout), UNCHANGED <<fromBack, be>>,
               toBack' = [toBack EXCEPT ![io.file[io.fds[c].out].of] =
                            @ \o SubSeq(conn[c].bout, 1, n)]
        PROVE  PipesClean(d)'
    <3> DEFINE gone == SubSeq(conn[c].bout, 1, n)
    <3>1. io.file[io.fds[c].out].of = c
      <4>1. conn[c].bout \in Seq(Commands)
        BY Fields DEF ConnRecords
      <4>2. conn[c].bout # <<>>
        <5> DEFINE out == conn[c].bout
        <5>1. n \in 1 .. Len(out)
          BY <2>1
        <5> HIDE DEF out
        <5>2. out # <<>>
          BY <5>1, EmptySeq
        <5> QED
          BY <5>2 DEF out
      <4> QED
        BY <4>2, OwnPipes
    <3>2. toBack' = [toBack EXCEPT ![c] = toBack[c] \o gone]
      BY <2>1, <3>1
    <3>3. CASE d = c
      <4>1. n \in 0 .. Len(conn[d].bout) /\ conn[d].bout \in Seq(OurCommands(d))
        <5> DEFINE out == conn[d].bout
        <5>1. out \in Seq(OurCommands(d)) /\ n \in 1 .. Len(out)
          BY <1>0, <2>1, <3>3 DEF Clean
        <5> HIDE DEF out
        <5>2. out \in Seq(OurCommands(d)) /\ n \in 0 .. Len(out)
          BY <5>1
        <5> QED
          BY <5>2 DEF out
      <4>2. gone \in Seq(OurCommands(d))
        BY <3>3, <4>1, CutSeq
      <4> HIDE DEF gone
      <4>3. toBack'[d] \in Seq(OurCommands(d))
        BY <1>0, <3>2, <3>3, <4>2, ConcatProperties DEF PipesClean
      <4> QED
        BY <1>0, <2>1, <4>3 DEF PipesClean
    <3>4. CASE d # c
      BY <1>0, <2>1, <3>2, <3>4 DEF PipesClean
    <3> QED
      BY <3>3, <3>4
  <2> QED
    BY <1>1, <1>5, <2>1 DEF Output, BrokenPipe
<1>6. CASE ProcessLine
  <2>1. UNCHANGED <<toBack, fromBack, be>> \/ \E c, t : Close(c, t)
    BY <1>6 DEF ProcessLine
  <2> QED
    BY <1>1, <1>2, <2>1
<1>7. ASSUME NEW c \in Conns, BackStep(c) PROVE PipesClean(d)'
  <2>1. BackTypeOK /\ BackEndStep(c)
    BY <1>7 DEF BackStep, TypeInv, TypeOK
  <2>2. CASE d = c
    BY <1>0, <2>1, <2>2, BackEndClean
  <2>3. CASE d # c
    BY <1>0, <2>1, <2>3, BackEndOthers DEF PipesClean
  <2> QED
    BY <2>2, <2>3
<1> QED
  BY <1>1, <1>3, <1>4, <1>5, <1>6, <1>7
     DEF Next, LoopStep, UserStep, Callback, Start, gtk_retry_shim, gtk_poll_shim, TakeLine,
         Answered, ProcessAnswer, image_clicked, Tick, vars

LEMMA ProcessedShows ==
  ASSUME TypeInv, NEW c \in Conns, conn[c].bin # <<>>,
         ~Closes(Rest(c), Head(conn[c].bin)),
         Head(conn[c].bin).tag \notin {"UPDATE", "RESET"}
  PROVE  Shows(conn[c], Processed(c))
<1> DEFINE s == Rest(c)
           line == Head(conn[c].bin)
           have == c \notin Prompting
<1>1. line \in Lines /\ Shape(c, s) /\ have \in BOOLEAN /\ ~Closes(s, line)
  BY ServedLine
<1>2. s.flag = conn[c].flag /\ s.biffed = conn[c].biffed
  BY ServedLine
<1>3. line.tag \notin {"UPDATE", "RESET"}
  OBVIOUS
<1>4. Processed(c) = proto_process_line(c, s, line, have)
  BY DEF Processed
<1> HIDE DEF s, line, have
<1>5. Shows(s, proto_process_line(c, s, line, have))
  BY <1>1, <1>3, LineQueues
<1> QED
  BY <1>2, <1>4, <1>5 DEF Shows

(* The main image and the flags may change only in two ways.               *)
Shown == /\ main' \in {main, "down"}
         /\ \A d \in Conns : conn'[d].biffed = conn[d].biffed

LEMMA HandledShows ==
  ASSUME TypeInv, NEW c \in Conns, NEW r \in ConnRecords, Shows(conn[c], r), Handled(c, r),
         NEW d \in Conns
  PROVE  conn'[d].biffed = conn[d].biffed
<1>1. conn' = [conn EXCEPT ![c] = Muted(r)]
  BY DEF Handled, Muted
<1> QED
  BY <1>1, Fields, MutedFields DEF Shows

LEMMA MainCases ==
  ASSUME TypeInv, [Next]_vars
  PROVE  \/ \E c \in Conns : \E t : Close(c, t)
         \/ /\ ProcessLine
            /\ ~Closes(Rest(loop.serving), Head(conn[loop.serving].bin))
         \/ Shown
<1> USE DEF Shown
<1>1. CASE proto_do_retries
  <2>1. PICK started \in SUBSET {c \in Conns : WantsRetry(conn[c])} :
          conn' = [c \in Conns |-> IF c \in started THEN Muted(proto_init_conn(conn[c]))
                                   ELSE conn[c]]
    BY <1>1 DEF proto_do_retries, Muted
  <2>2. \A s \in ConnRecords : Muted(proto_init_conn(s)).biffed = s.biffed
    BY DEF Muted, proto_init_conn, ConnRecords
  <2> QED
    BY <1>1, <2>1, <2>2, Fields DEF proto_do_retries
<1>2. CASE gtk_poll_shim
  <2>1. \A d \in Conns : conn'[d] = Muted(Polled(d))
    BY <1>2 DEF gtk_poll_shim, Muted
  <2>2. \A d \in Conns : Polled(d) \in ConnRecords /\ Polled(d).biffed = conn[d].biffed
    <3>1. \A d \in Conns : Shows(conn[d], proto_poll_conn(conn[d]))
      BY Fields, PollQueues
    <3> QED
      BY <3>1, PolledFields DEF Polled, Shows
  <2>3. \A d \in Conns : conn'[d].biffed = conn[d].biffed
    BY <2>1, <2>2, MutedFields
  <2> QED
    BY <1>2, <2>3 DEF gtk_poll_shim
<1>3. ASSUME NEW c, NEW q, conn' = [conn EXCEPT ![c].bin = q]
      PROVE  \A d \in Conns : conn'[d].biffed = conn[d].biffed
  BY <1>3, Fields DEF ConnRecords
<1>4. CASE TakeLine
  BY <1>3, <1>4 DEF TakeLine
<1>5. CASE Answered
  BY <1>3, <1>5 DEF Answered
<1>6. CASE ProcessAnswer
  <2> DEFINE c == loop.serving
             r == Respond(Rest(c))
  <2>1. /\ c \in Conns /\ Handled(c, r) /\ Answers(conn[c], r) /\ r \in ConnRecords
        /\ main' = main
    BY <1>6, AnswerStep
  <2> HIDE DEF r
  <2>2. Shows(conn[c], r)
    BY <2>1, Fields, AnswersFields
  <2> QED
    BY <2>1, <2>2, HandledShows
<1>7. CASE ProcessLine
  <2>1. loop.serving \in Conns
    BY <1>7, LineStep
  <2> QED
    BY <1>7, <2>1, LineStep
<1>8. ASSUME NEW c \in Conns, Callback(c) PROVE (\E t : Close(c, t)) \/ Shown
  <2>1. ASSUME NEW n, conn' = [conn EXCEPT ![c] = Written(conn[c], n)]
        PROVE  \A d \in Conns : conn'[d].biffed = conn[d].biffed
    <3> DEFINE w == Written(conn[c], n)
    <3>1. w.biffed = conn[c].biffed
      BY Fields DEF Written, ConnRecords
    <3>2. conn' = [conn EXCEPT ![c] = w]
      BY <2>1
    <3> HIDE DEF w
    <3> QED
      BY <3>1, <3>2, Fields
  <2>2. CASE Input(c)
    BY <1>3, <2>2 DEF Input
  <2>3. CASE Output(c)
    BY <2>1, <2>3 DEF Output, BrokenPipe
  <2> QED
    BY <1>8, <2>2, <2>3 DEF Callback
<1>9. CASE Tick
  <2>1. ASSUME NEW d \in Conns PROVE conn'[d].biffed = conn[d].biffed
    <3> DEFINE w == IF conn[d].wait > 0 THEN conn[d].wait - 1 ELSE 0
    <3>1. conn'[d] = [conn[d] EXCEPT !.wait = w]
      BY <1>9 DEF Tick
    <3> HIDE DEF w
    <3> QED
      BY <3>1, Fields DEF ConnRecords
  <2> QED
    BY <1>9, <2>1 DEF Tick
<1>10. CASE conn' = conn /\ main' \in {main, "down"}
  BY <1>10
<1>11. Start \/ gtk_retry_shim => proto_do_retries
  BY DEF Start, gtk_retry_shim
<1>12. image_clicked \/ (\E c \in Conns : BackStep(c)) \/ UNCHANGED vars
         => conn' = conn /\ main' \in {main, "down"}
  BY DEF image_clicked, BackStep, vars
<1> QED
  BY <1>1, <1>2, <1>4, <1>5, <1>6, <1>7, <1>8, <1>9, <1>10, <1>11, <1>12
     DEF Next, LoopStep, UserStep

LEMMA ImageKept ==
  ASSUME NEW image, NEW records
  PROVE  ImageAfter(<<>>, image, records) = image
<1>1. FlagSteps(<<>>) = {}
  BY DEF FlagSteps
<1>2. Performed("up", <<>>) = "up"
  BY <1>1 DEF Performed
<1>3. ~ \E i \in DOMAIN <<>> : <<>>[i] = "image"
  OBVIOUS
<1> QED
  BY <1>2, <1>3 DEF ImageAfter

(* Some connection has a biffed folder.                                    *)
Biffed(records) == \E c \in Conns : records[c].biffed # {}

LEMMA LineMain ==
  ASSUME ImagesConfigured, OnlyToldFolders, TypeInv, OursInv, \A c \in Conns : FlagRight(conn[c]),
         \A c \in Conns : FlagRight(conn'[c]),
         main = "up" => Biffed(conn),
         ProcessLine, ~Closes(Rest(loop.serving), Head(conn[loop.serving].bin)),
         main' = "up"
  PROVE  Biffed(conn')
<1> DEFINE c == loop.serving
           s == Rest(c)
           line == Head(conn[c].bin)
           r == Processed(c)
<1>1. /\ c \in Conns /\ conn[c].bin # <<>> /\ Handled(c, r)
      /\ main' = ImageAfter(ActionsOf(c, s, line), main, conn')
  BY LineStep
<1>2. /\ s \in ConnRecords /\ s.biffed = conn[c].biffed /\ s.flag = conn[c].flag
      /\ line \in Lines /\ line \in OurLines(c)
  <2>1. line \in OurLines(c)
    BY <1>1, HeadTailProperties DEF OursInv, Clean
  <2> QED
    BY <1>1, <2>1, ServedLine
<1>3. r = proto_process_line(c, s, line, c \notin Prompting) /\ r \in ConnRecords
  BY <1>1, ProcessedFields DEF Processed
<1>4. /\ conn'[c].biffed = r.biffed /\ conn'[c].flag = r.flag
      /\ \A d \in Conns \ {c} : conn'[d] = conn[d]
  <2>1. conn' = [conn EXCEPT ![c] = Muted(r)]
    BY <1>1 DEF Handled, Muted
  <2> HIDE DEF r
  <2> QED
    BY <1>1, <1>3, <2>1, Fields, MutedFields
<1>5. \A d \in Conns : (conn[d].flag = "up" <=> conn[d].biffed # {})
                       /\ (conn'[d].flag = "up" <=> conn'[d].biffed # {})
  BY DEF FlagRight
<1> HIDE DEF s, line, r
<1>6. CASE line.tag = "UPDATE"
  <2>1. r = connection_do_update(c, s, line.arg) /\ line.arg \in Ours(c)
    BY <1>1, <1>2, <1>3, <1>6 DEF proto_process_line, OurLines, OnlyToldFolders
  <2>2. r.flag = Performed(s.flag, Updates[c])
    BY <1>2, <2>1 DEF connection_do_update, ConnRecords
  <2>3. Performed(s.flag, Updates[c]) = "up"
    BY <1>1, <1>2 DEF ImagesConfigured, ConnRecords
  <2> QED
    BY <1>1, <1>4, <1>5, <2>2, <2>3 DEF Biffed
<1>7. ASSUME conn'[c].flag = conn[c].flag, main' = main PROVE Biffed(conn')
  BY <1>4, <1>5, <1>7 DEF Biffed
<1>8. CASE line.tag = "RESET" /\ ResetFires(c, s, line.arg)
  <2>1. ActionsOf(c, s, line) = Resets[c]
    BY <1>8 DEF ActionsOf
  <2>2. Performed("up", Resets[c]) = "down"
    BY <1>1 DEF ImagesConfigured
  <2>3. PICK shown : main' = gtk_flagdown(shown, conn')
    BY <1>1, <2>1, <2>2 DEF ImageAfter
  <2> QED
    BY <2>3 DEF gtk_flagdown, Biffed
<1>9. CASE line.tag = "RESET" /\ ~ResetFires(c, s, line.arg)
  <2>1. ActionsOf(c, s, line) = <<>>
    BY <1>9 DEF ActionsOf
  <2>2. main' = main
    BY <1>1, <2>1, ImageKept
  <2>3. r = connection_do_reset(c, s, line.arg)
    BY <1>3, <1>9 DEF proto_process_line
  <2>4. r.flag = s.flag
    BY <1>2, <1>9, <2>3 DEF connection_do_reset, ConnRecords
  <2> QED
    BY <1>2, <1>4, <1>7, <2>2, <2>4
<1>10. CASE line.tag \notin {"UPDATE", "RESET"}
  <2>1. ActionsOf(c, s, line) = <<>>
    BY <1>10 DEF ActionsOf
  <2>2. main' = main
    BY <1>1, <2>1, ImageKept
  <2>3. Shows(conn[c], r)
    BY <1>1, <1>10, ProcessedShows DEF s, line, r
  <2> QED
    BY <1>4, <1>7, <2>2, <2>3 DEF Shows
<1> QED
  BY <1>6, <1>8, <1>9, <1>10

(* NEWS:40-41: with an image for updates and its removal for resets, the   *)
(* flag of a connection is up exactly while it has a biffed folder, and    *)
(* the main image, which they share, is never left up when the last folder *)
(* of the last connection is unbiffed, by a reset or because the back end  *)
(* went away (gtk_flagdown, connection_close): for any number of           *)
(* connections and folders, as long as back ends speak only of folders     *)
(* they were told of.                                                      *)
THEOREM GtkMainReset ==
  ASSUME ImagesConfigured, OnlyToldFolders
  PROVE  Spec => []MainReset
<1> DEFINE Right == \A c \in Conns : FlagRight(conn[c])
           Image == main = "up" => Biffed(conn)
<1>1. Init => Right /\ Image
  <2>1. connection_init.flag = "down" /\ connection_init.biffed = {}
    BY DEF connection_init
  <2>2. Init => main = "down" /\ \A c \in Conns : conn[c] = connection_init
    BY DEF Init
  <2> QED
    BY <2>1, <2>2, Zenon DEF FlagRight
<1>2. TypeInv /\ ServeInv /\ OursInv /\ Right /\ Image /\ [Next]_vars
        => OursInv' /\ Right' /\ Image'
  <2> SUFFICES ASSUME TypeInv, ServeInv, OursInv, Right, Image, [Next]_vars
               PROVE  OursInv' /\ Right' /\ Image'
    OBVIOUS
  <2>1. ASSUME NEW d \in Conns PROVE Clean(d, conn'[d]) /\ FlagRight(conn'[d])
    <3>1. RecordInv(d, conn[d]) /\ Clean(d, conn[d]) /\ FlagRight(conn[d]) /\ PipesClean(d)
      BY DEF TypeInv, OursInv
    <3>2. DataRequest \in OurLines(d)
      BY DEF DataRequest, Line, Lines, LineTags, OurLines
    <3>3. Readable(d, OurLines(d))
      BY <3>1, OwnPipes DEF Readable, PipesClean
    <3>4. LoopStepOf(d, conn[d], conn'[d], OurLines(d))
      BY <3>1, <3>2, <3>3, LoopRecords DEF Clean
    <3> QED
      BY <3>1, <3>4, LoopFlag DEF OnlyToldFolders
  <2>2. OursInv'
    BY <2>1, PipesStep DEF OursInv
  <2>3. ASSUME main' = "up" PROVE Biffed(conn')
    <3>1. ASSUME NEW c, NEW t, Close(c, t) PROVE Biffed(conn')
      BY <2>3, <3>1 DEF Close, gtk_flagdown, Biffed
    <3>2. ASSUME ProcessLine, ~Closes(Rest(loop.serving), Head(conn[loop.serving].bin))
          PROVE  Biffed(conn')
      BY <2>1, <2>3, <3>2, LineMain
    <3>3. ASSUME Shown PROVE Biffed(conn')
      BY <2>3, <3>3 DEF Shown, Biffed
    <3> QED
      BY <3>1, <3>2, <3>3, MainCases
  <2> QED
    BY <2>1, <2>2, <2>3
<1>3. Right /\ Image => MainReset
  BY DEF MainReset, FlagRight, Biffed
<1> QED
  BY <1>1, <1>2, <1>3, OursInit, TypeInvariant, ServeInvariant, PTL DEF Spec

-------------------------------------------------------------------------------
(* The loop implements Frontend *)

LEMMA CutLength ==
  ASSUME NEW S, NEW s \in Seq(S), NEW n \in 0 .. Len(s)
  PROVE  Len(SubSeq(s, 1, n)) = n /\ Len(SubSeq(s, n + 1, Len(s))) = Len(s) - n
<1> DEFINE m == Len(s)
<1>1. m \in Nat /\ \A i \in 1 .. m : s[i] \in S
  BY LenProperties, ElementOfSeq
<1>2. n \in 0 .. m
  OBVIOUS
<1> HIDE DEF m
<1>3. n \in Int /\ n + 1 \in Int /\ m \in Int /\ n >= 0 /\ n <= m
  BY <1>1, <1>2
<1>4. /\ \A i \in 1 .. n : s[i] \in S
      /\ \A i \in n + 1 .. m : s[i] \in S
  BY <1>1, <1>3
<1>5. /\ Len(SubSeq(s, 1, n)) = IF 1 <= n THEN n - 1 + 1 ELSE 0
      /\ Len(SubSeq(s, n + 1, m)) = IF n + 1 <= m THEN m - (n + 1) + 1 ELSE 0
  BY <1>3, <1>4, SubSeqProperties
<1> QED
  BY <1>3, <1>5 DEF m

LEMMA Joined ==
  ASSUME NEW S, NEW x \in S, NEW s \in Seq(S)
  PROVE  /\ <<x>> \in Seq(S) /\ <<x>> \o s \in Seq(S) /\ <<x>> \o s # <<>>
         /\ Head(<<x>> \o s) = x /\ Tail(<<x>> \o s) = s
         /\ Len(<<x>> \o s) = 1 + Len(s)
<1> DEFINE t == <<x>> \o s
           n == Len(s)
<1>1. n \in Nat /\ <<x>> \in Seq(S) /\ Len(<<x>>) = 1 /\ <<x>>[1] = x
  BY LenProperties
<1>2. /\ t \in Seq(S) /\ Len(t) = 1 + n
      /\ \A i \in 1 .. 1 + n : t[i] = IF i <= 1 THEN <<x>>[i] ELSE s[i - 1]
  BY <1>1, ConcatProperties
<1> HIDE DEF t
<1>3. t # <<>>
  BY <1>1, <1>2, EmptySeq
<1>4. Tail(t) \in Seq(S) /\ Len(Tail(t)) = 1 + n - 1
      /\ \A i \in 1 .. Len(Tail(t)) : Tail(t)[i] = t[i + 1]
  BY <1>2, <1>3, HeadTailProperties
<1> HIDE DEF n
<1>5. Len(Tail(t)) = n /\ \A i \in 1 .. n : Tail(t)[i] = s[i]
  BY <1>1, <1>2, <1>4
<1>6. Tail(t) = s
  BY <1>4, <1>5, SeqEqual DEF n
<1>7. Head(t) = x
  BY <1>1, <1>2, <1>3
<1> QED
  BY <1>1, <1>2, <1>3, <1>6, <1>7 DEF t, n

LEMMA Halves ==
  ASSUME NEW S, NEW q \in Seq(S)
  PROVE  /\ SubSeq(q, 1, 0) = <<>> /\ SubSeq(q, 1, Len(q)) = q
         /\ q # <<>> => /\ SubSeq(q, 1, 1) = <<Head(q)>> /\ SubSeq(q, 2, Len(q)) = Tail(q)
                        /\ <<Head(q)>> \o Tail(q) = q
<1>1. SubSeq(q, 1, 0) = <<>> /\ SubSeq(q, 1, Len(q)) = q
  BY SubSeqEmpty, SubSeqFull
<1>2. ASSUME q # <<>> PROVE /\ SubSeq(q, 1, 1) = <<Head(q)>> /\ SubSeq(q, 2, Len(q)) = Tail(q)
                            /\ <<Head(q)>> \o Tail(q) = q
  <2>1. Len(q) \in Nat \ {0}
    BY <1>2, EmptySeq
  <2>2. SubSeq(q, 2, Len(q)) = Tail(q) /\ q[1] = Head(q)
    BY <1>2, <2>1, TailIsSubSeq
  <2>3. 1 \in 1 .. Len(q) /\ Len(q) \in 1 .. Len(q)
    BY <2>1
  <2>4. /\ SubSeq(q, 1, 1) = <<q[1]>> \o SubSeq(q, 2, 1)
        /\ SubSeq(q, 1, Len(q)) = <<q[1]>> \o SubSeq(q, 2, Len(q))
    BY <2>3, SubSeqRecursiveFirst
  <2>5. SubSeq(q, 2, 1) = <<>>
    BY SubSeqEmpty
  <2>6. <<q[1]>> \o <<>> = <<q[1]>>
    BY <2>3, ElementOfSeq, ConcatEmptySeq
  <2> QED
    BY <1>1, <2>2, <2>4, <2>5, <2>6
<1> QED
  BY <1>1, <1>2

LEMMA Regroup ==
  ASSUME NEW S, NEW x \in S, NEW s \in Seq(S), NEW t \in Seq(S)
  PROVE  (<<x>> \o s) \o t = <<x>> \o (s \o t) /\ s \o t \in Seq(S)
<1> DEFINE r == <<x>>
<1>1. r \in Seq(S)
  OBVIOUS
<1> HIDE DEF r
<1>2. (r \o s) \o t = r \o (s \o t) /\ s \o t \in Seq(S)
  BY <1>1, ConcatAssociative, ConcatProperties
<1> QED
  BY <1>2 DEF r

LEMMA RequestType == DataRequest \in Lines
BY DEF DataRequest, Line, Lines, LineTags

(* A source is served for the connection it was made for.                  *)
LEMMA InputServed ==
  ASSUME TypeInv, ServeInv, NEW c \in Conns, Input(c)
  PROVE  /\ conn[c].state # "PENALTY_BOX" /\ conn[c].bin = <<>>
         /\ io.file[io.fds[c].in] = [of |-> c, end |-> "in"]
         /\ loop.pc = "idle" /\ loop.serving = Nobody /\ loop.asking # c
<1>1. InputReady(c) /\ loop.pc = "idle" /\ ~(loop.asking = c /\ loop.entered)
  BY DEF Input
<1>2. io.reads[c] # <<>>
  BY <1>1, Fields, EmptySeq DEF InputReady
<1>3. loop.serving = Nobody /\ loop.asking # c /\ c # Nobody
  BY <1>1, ConnsNumbers DEF ServeInv, Dialogs
<1>4. conn[c].bin = <<>>
  BY <1>3 DEF ServeInv, Dialogs, Engaged
<1> QED
  BY <1>1, <1>2, <1>3, <1>4 DEF ServeInv, Serves, PipesOf

(* Nobody is at the other end of a closed connection's pipes.              *)
Idle(c) == toBack[c] = <<>> /\ fromBack[c] = <<>> /\ be[c] = Gone
Vacant == \A c \in Conns : conn[c].state = "PENALTY_BOX" => Idle(c)

(* Neither the pipe nor what was read of it is longer than a pipe may be;  *)
(* the request whose dialog is open counts as read.                        *)
Asks(c) == IF loop.asking = c THEN 1 ELSE 0
Bounded == \A c \in Conns : /\ Len(fromBack[c]) <= MaxLines
                            /\ Len(conn[c].bin) + Asks(c) <= MaxLines

(* The user answers what was asked for.                                    *)
Answering == loop.pc = "answer" => /\ conn[loop.serving].state = "NORMAL"
                                   /\ Head(conn[loop.serving].bin) = DataRequest

PipeInv == Vacant /\ Bounded /\ Answering

LEMMA PipeInit == Init => PipeInv
<1> SUFFICES ASSUME Init PROVE PipeInv
  OBVIOUS
<1>1. \A c \in Conns : conn[c].bin = <<>> /\ Idle(c)
  BY InitRecord DEF Init, BackInit, Idle
<1>2. loop.asking = Nobody /\ loop.pc = "start"
  BY DEF Init
<1>3. Len(<<>>) = 0
  OBVIOUS
<1>4. Bounded
  <2> SUFFICES ASSUME NEW c \in Conns
               PROVE  Len(fromBack[c]) <= MaxLines /\ Len(conn[c].bin) + Asks(c) <= MaxLines
    BY DEF Bounded
  <2>1. Asks(c) = 0 /\ Len(fromBack[c]) = 0 /\ Len(conn[c].bin) = 0
    BY <1>1, <1>2, <1>3, ConnsNumbers DEF Asks, Idle
  <2> QED
    BY <2>1, LinesAssumption
<1> QED
  BY <1>1, <1>2, <1>4 DEF PipeInv, Vacant, Answering

(* Steps that leave the pipes alone.                                       *)
LEMMA PipeSame ==
  ASSUME PipeInv, UNCHANGED <<toBack, fromBack>>,
         \A c \in Conns : /\ conn'[c].state = "PENALTY_BOX" =>
                               conn[c].state = "PENALTY_BOX" /\ be'[c] = be[c]
                          /\ Len(conn'[c].bin) + Asks(c)' <= MaxLines,
         Answering'
  PROVE  PipeInv'
BY DEF PipeInv, Vacant, Bounded, Idle

(* Closing a connection leaves nobody at its pipes, and the others theirs. *)
LEMMA CloseVacates ==
  ASSUME TypeInv, TypeInv', ServeInv, PipeInv, NEW c \in Conns, conn[c].state # "PENALTY_BOX",
         NEW t, Close(c, t), Stripped(io, c, t)
  PROVE  /\ conn' = [conn EXCEPT ![c] = connection_close(conn[c])]
         /\ toBack' = [toBack EXCEPT ![c] = <<>>]
         /\ fromBack' = [fromBack EXCEPT ![c] = <<>>]
         /\ be' = [be EXCEPT ![c] = Gone]
<1>1. /\ conn' = [conn EXCEPT ![c] = connection_close(conn[c])]
      /\ toBack' = [d \in Conns |-> IF Held(io', d) THEN toBack[d] ELSE <<>>]
      /\ fromBack' = [d \in Conns |-> IF Held(io', d) THEN fromBack[d] ELSE <<>>]
      /\ be' = [d \in Conns |-> IF Held(io', d) THEN be[d] ELSE Gone]
  BY DEF Close, LeaveUnheld
<1>2. /\ conn'[c].state = "PENALTY_BOX"
      /\ \A d \in Conns \ {c} : conn[d].state # "PENALTY_BOX" => Held(io', d)
  BY CloseServes
<1>3. ~Held(io', c)
  <2>1. Owned(io'.file, io'.fds, OpenIn(conn'))
    BY DEF TypeInv
  <2>2. c # 0 /\ c \notin OpenIn(conn')
    BY <1>2, ConnsNumbers DEF OpenIn, Nobody
  <2> QED
    BY <2>1, <2>2 DEF Owned, Held, Free
<1>4. \A d \in Conns \ {c} : conn[d].state = "PENALTY_BOX" => Idle(d)
  BY DEF PipeInv, Vacant
<1>5. \A d \in Conns : /\ toBack'[d] = IF d = c THEN <<>> ELSE toBack[d]
                       /\ fromBack'[d] = IF d = c THEN <<>> ELSE fromBack[d]
                       /\ be'[d] = IF d = c THEN Gone ELSE be[d]
  BY <1>1, <1>2, <1>3, <1>4 DEF Idle
<1> QED
  BY <1>1, <1>5, Fields

LEMMA PipeClose ==
  ASSUME TypeInv, TypeInv', ServeInv, PipeInv, NEW c \in Conns, conn[c].state # "PENALTY_BOX",
         NEW t, Close(c, t), Stripped(io, c, t),
         loop'.asking = loop.asking, loop.asking # c, loop'.pc # "answer"
  PROVE  PipeInv'
<1>1. /\ conn' = [conn EXCEPT ![c] = connection_close(conn[c])]
      /\ toBack' = [toBack EXCEPT ![c] = <<>>]
      /\ fromBack' = [fromBack EXCEPT ![c] = <<>>]
      /\ be' = [be EXCEPT ![c] = Gone]
  BY CloseVacates
<1>2. /\ \A d \in Conns \ {c} : /\ conn'[d] = conn[d] /\ toBack'[d] = toBack[d]
                                /\ fromBack'[d] = fromBack[d] /\ be'[d] = be[d]
      /\ toBack'[c] = <<>> /\ fromBack'[c] = <<>> /\ be'[c] = Gone
      /\ conn'[c].bin = <<>>
  <2>1. conn'[c].bin = <<>>
    BY CloseServes
  <2> QED
    BY <1>1, <2>1, Fields
<1>3. Len(<<>>) = 0
  OBVIOUS
<1>4. ASSUME NEW d \in Conns
      PROVE  (Len(fromBack[d]) <= MaxLines /\ Len(conn[d].bin) + Asks(d) <= MaxLines)'
  <2>1. CASE d = c
    <3>1. Len(fromBack'[d]) = 0 /\ Len(conn'[d].bin) = 0 /\ Asks(d)' = 0
      BY <1>2, <1>3, <2>1 DEF Asks
    <3> QED
      BY <3>1, LinesAssumption
  <2>2. CASE d # c
    BY <1>2, <2>2 DEF PipeInv, Bounded, Asks
  <2> QED
    BY <2>1, <2>2
<1> QED
  BY <1>2, <1>4 DEF PipeInv, Vacant, Bounded, Answering, Idle

(* Only a process that runs does something, and it waits for room.         *)
LEMMA BackRuns ==
  ASSUME NEW c \in Conns, BackEndStep(c)
  PROVE  be[c].up /\ (UNCHANGED fromBack \/ \E line : Say(c, line))
BY DEF BackEndStep, Greet, Answer, Notify, Ask, Chatter, Exit, Say

LEMMA PipeBack ==
  ASSUME TypeInv, ServeInv, PipeInv, NEW c \in Conns, BackStep(c)
  PROVE  PipeInv'
<1>1. BackEndStep(c) /\ UNCHANGED <<conn, loop>>
  BY DEF BackStep
<1>2. BackTypeOK
  BY DEF TypeInv, TypeOK
<1>3. \A d \in Conns \ {c} : toBack'[d] = toBack[d] /\ fromBack'[d] = fromBack[d] /\ be'[d] = be[d]
  BY <1>1, <1>2, BackEndOthers
<1>4. conn[c].state # "PENALTY_BOX"
  BY <1>1, BackRuns DEF PipeInv, Vacant, Idle, Gone
<1>5. Len(fromBack'[c]) <= MaxLines
  <2>1. CASE UNCHANGED fromBack
    BY <2>1 DEF PipeInv, Bounded
  <2>2. ASSUME NEW line, Say(c, line) PROVE Len(fromBack'[c]) <= MaxLines
    <3> DEFINE S == Lines \cup {line}
    <3>1. fromBack[c] \in Seq(Lines) /\ fromBack'[c] = Append(fromBack[c], line)
          /\ Len(fromBack[c]) < MaxLines
      BY <2>2, Fields DEF Say
    <3>2. fromBack[c] \in Seq(S)
      BY <3>1, SeqMonotonic
    <3>3. Len(fromBack'[c]) = Len(fromBack[c]) + 1 /\ Len(fromBack[c]) \in Nat
      BY <3>1, <3>2, AppendProperties, LenProperties
    <3> QED
      BY <3>1, <3>3, LinesAssumption
  <2> QED
    BY <1>1, <2>1, <2>2, BackRuns
<1> QED
  BY <1>1, <1>3, <1>4, <1>5 DEF PipeInv, Vacant, Bounded, Answering, Idle, Asks

LEMMA PipeInput ==
  ASSUME TypeInv, TypeInv', ServeInv, PipeInv, NEW c \in Conns, Input(c)
  PROVE  PipeInv'
<1> DEFINE x == io.fds[c].in
<1>1. conn[c].state # "PENALTY_BOX" /\ io.file[x] = [of |-> c, end |-> "in"]
      /\ loop.pc = "idle" /\ loop.serving = Nobody /\ loop.asking # c
  BY InputServed
<1>2. ASSUME NEW n \in 1 .. Len(fromBack[c]),
             conn' = [conn EXCEPT ![c].bin = SubSeq(fromBack[c], 1, n)],
             fromBack' = [fromBack EXCEPT ![c] = SubSeq(@, n + 1, Len(@))],
             loop' = [loop EXCEPT !.pc = "next", !.serving = c],
             UNCHANGED <<toBack, be>>
      PROVE  PipeInv'
  <2> DEFINE q == SubSeq(fromBack[c], 1, n)
             rest == SubSeq(fromBack[c], n + 1, Len(fromBack[c]))
             m == Len(fromBack[c])
  <2>1. m \in Nat /\ n \in 1 .. m /\ m <= MaxLines
    BY <1>2, Fields, LenProperties DEF PipeInv, Bounded
  <2>2. Len(q) = n /\ Len(rest) = m - n
    BY CutLength, Fields
  <2>3. /\ conn' = [conn EXCEPT ![c].bin = q] /\ fromBack' = [fromBack EXCEPT ![c] = rest]
        /\ loop'.asking = loop.asking /\ loop'.pc = "next"
    BY <1>2, Fields DEF Loops
  <2> HIDE DEF q, rest, m
  <2>4. \A d \in Conns : /\ conn'[d].state = conn[d].state
                         /\ conn'[d].bin = IF d = c THEN q ELSE conn[d].bin
                         /\ fromBack'[d] = IF d = c THEN rest ELSE fromBack[d]
    BY <2>3, Fields DEF ConnRecords
  <2>5. Len(rest) <= MaxLines /\ Len(q) + 0 <= MaxLines
    BY <2>1, <2>2, LinesAssumption
  <2>6. Asks(c)' = 0
    BY <1>1, <2>3 DEF Asks
  <2>7. Bounded'
    BY <2>3, <2>4, <2>5, <2>6 DEF PipeInv, Bounded, Asks
  <2> QED
    BY <1>1, <1>2, <2>3, <2>4, <2>7 DEF PipeInv, Vacant, Answering, Idle
<1>3. CASE Close(c, CloseFds(io, c)) /\ loop' = Left(c)
  <2>1. Stripped(io, c, CloseFds(io, c))
    BY Fields, CloseFdsStrips
  <2>2. loop'.asking = loop.asking /\ loop'.pc # "answer"
    BY <1>1, <1>3, LeftLoop
  <2> QED
    BY <1>1, <1>3, <2>1, <2>2, PipeClose
<1> QED
  BY <1>1, <1>2, <1>3 DEF Input

LEMMA PipeOutput ==
  ASSUME TypeInv, TypeInv', ServeInv, PipeInv, NEW c \in Conns, Output(c)
  PROVE  PipeInv'
<1> DEFINE x == io.fds[c].out
<1>1. loop.pc = "idle"
  BY DEF Output
<1>2. conn[c].bout # <<>> =>
        conn[c].state # "PENALTY_BOX" /\ io.file[x] = [of |-> c, end |-> "out"]
  BY DEF ServeInv, Serves, PipesOf
<1>3. CASE UNCHANGED <<conn, loop, toBack, fromBack, be>>
  BY <1>3 DEF PipeInv, Vacant, Bounded, Answering, Idle, Asks
<1>4. ASSUME NEW n \in 1 .. Len(conn[c].bout),
             conn' = [conn EXCEPT ![c] = Written(conn[c], n)],
             toBack' = [toBack EXCEPT ![io.file[x].of] = @ \o SubSeq(conn[c].bout, 1, n)],
             UNCHANGED <<loop, fromBack, be>>
      PROVE  PipeInv'
  <2>1. conn[c].bout # <<>>
    BY Fields, CutMore DEF ConnRecords
  <2> DEFINE s == Written(conn[c], n)
             more == toBack[c] \o SubSeq(conn[c].bout, 1, n)
  <2>4. s.state = conn[c].state /\ s.bin = conn[c].bin
    BY Fields DEF Written, ConnRecords
  <2>5. conn' = [conn EXCEPT ![c] = s] /\ toBack' = [toBack EXCEPT ![c] = more]
    <3>1. io.file[x].of = c
      BY <1>2, <2>1
    <3> QED
      BY <1>4, <3>1
  <2> HIDE DEF s, more
  <2>2. \A d \in Conns : conn'[d].state = conn[d].state /\ conn'[d].bin = conn[d].bin
    BY <2>4, <2>5, Fields
  <2>3. \A d \in Conns \ {c} : toBack'[d] = toBack[d]
    BY <2>5, Fields
  <2> QED
    BY <1>1, <1>2, <1>4, <2>1, <2>2, <2>3
       DEF PipeInv, Vacant, Bounded, Answering, Idle, Asks
<1>5. CASE BrokenPipe(c)
  <2>1. /\ loop'.asking = loop.asking /\ loop'.pc = "killed"
        /\ UNCHANGED <<conn, toBack, fromBack, be>>
    BY <1>5, KilledLoop
  <2> QED
    BY <2>1 DEF PipeInv, Vacant, Bounded, Answering, Idle, Asks
<1> QED
  BY <1>3, <1>4, <1>5 DEF Output

(* Lines are processed, put aside for the user's answer, or taken up again.*)
LEMMA PipeLine ==
  ASSUME TypeInv, TypeInv', ServeInv, PipeInv, ProcessLine \/ ProcessAnswer
  PROVE  PipeInv'
<1>0. PICK c \in Conns : c = loop.serving
  BY LineStep, AnswerStep
<1>1. conn[c].bin # <<>> /\ conn[c].state # "PENALTY_BOX" /\ Continue(c)
  BY <1>0, LineStep, AnswerStep, ServedOpen
<1>2. /\ loop'.asking = loop.asking /\ loop'.pc # "answer" /\ loop.asking # c
      /\ Asks(c) = 0 /\ Asks(c)' = 0
      /\ \A d \in Conns : Asks(d)' = Asks(d)
  <2>1. loop.pc \in {"line", "answer"}
    BY DEF ProcessLine, ProcessAnswer
  <2>2. loop.asking # c
    BY <1>0, <2>1, ConnsNumbers DEF ServeInv, Dialogs
  <2>3. loop'.asking = loop.asking /\ loop'.pc # "answer"
    BY <1>0, <1>1, ContinueLoop
  <2> QED
    BY <2>2, <2>3 DEF Asks
<1>3. /\ \A d \in Conns : Len(conn[d].bin) + Asks(d) <= MaxLines
  BY DEF PipeInv, Bounded
<1>4. ASSUME NEW r \in ConnRecords, r.bin = Tail(conn[c].bin), SameSide(conn[c], r),
             Handled(c, r), UNCHANGED <<toBack, fromBack, be>>
      PROVE  PipeInv'
  <2>1. conn' = [conn EXCEPT ![c] = Muted(r)]
    BY <1>4 DEF Handled, Muted
  <2>2. /\ \A d \in Conns \ {c} : conn'[d] = conn[d]
        /\ conn'[c].bin = Tail(conn[c].bin) /\ conn'[c].state = r.state
    BY <1>1, <1>4, <2>1, MutedFields, Fields
  <2>3. Len(conn'[c].bin) + Asks(c)' <= MaxLines
    <3> DEFINE m == Len(conn[c].bin)
    <3>1. conn[c].bin \in Seq(Lines)
      BY <1>1, Fields DEF ConnRecords
    <3>2. Len(conn'[c].bin) = m - 1 /\ m \in Nat
      BY <1>1, <2>2, <3>1, HeadTailProperties, LenProperties
    <3>3. m + 0 <= MaxLines
      BY <1>1, <1>2, <1>3
    <3> HIDE DEF m
    <3> QED
      BY <1>2, <3>2, <3>3, LinesAssumption
  <2>4. \A d \in Conns : Len(conn'[d].bin) + Asks(d)' <= MaxLines
    BY <1>2, <1>3, <2>2, <2>3
  <2>5. \A d \in Conns : conn'[d].state = "PENALTY_BOX" =>
                            conn[d].state = "PENALTY_BOX" /\ be'[d] = be[d]
    BY <1>4, <2>2 DEF SameSide
  <2>6. Answering'
    BY <1>2 DEF Answering
  <2> QED
    BY <1>4, <2>4, <2>5, <2>6, PipeSame
<1>5. CASE ProcessAnswer
  <2> DEFINE r == Respond(Rest(c))
  <2>1. /\ Handled(c, r) /\ Answers(conn[c], r) /\ r \in ConnRecords /\ r.state = conn[c].state
        /\ UNCHANGED <<toBack, fromBack, be>>
    BY <1>0, <1>5, AnswerStep
  <2> HIDE DEF r
  <2>2. r.bin = Tail(conn[c].bin)
    BY <1>1, <2>1, Fields, AnswersFields
  <2> QED
    BY <1>4, <2>1, <2>2 DEF SameSide
<1>6. CASE ProcessLine /\ ~Closes(Rest(c), Head(conn[c].bin))
  <2>1. Handled(c, Processed(c)) /\ UNCHANGED <<toBack, fromBack, be>>
    BY <1>0, <1>6, LineStep
  <2> QED
    BY <1>1, <1>4, <1>6, <2>1, ProcessedFields
<1>7. CASE ProcessLine /\ Closes(Rest(c), Head(conn[c].bin))
  <2>1. Close(c, CloseFds(io, c)) /\ Stripped(io, c, CloseFds(io, c))
    BY <1>0, <1>7, LineStep, Fields, CloseFdsStrips
  <2> QED
    BY <1>1, <1>2, <2>1, PipeClose
<1> QED
  BY <1>5, <1>6, <1>7

LEMMA PipeDialog ==
  ASSUME TypeInv, ServeInv, PipeInv, TakeLine \/ Answered
  PROVE  PipeInv'
<1>1. \A d \in Conns : Len(conn[d].bin) + Asks(d) <= MaxLines
  BY DEF PipeInv, Bounded
<1>2. UNCHANGED <<toBack, fromBack, be>>
  BY DEF TakeLine, Answered
<1>3. ASSUME NEW c \in Conns, NEW q, conn' = [conn EXCEPT ![c].bin = q],
             Len(q) + Asks(c)' <= MaxLines, \A d \in Conns \ {c} : Asks(d)' = Asks(d), Answering'
      PROVE  PipeInv'
  <2>1. \A d \in Conns : /\ conn'[d].state = conn[d].state
                         /\ conn'[d].bin = IF d = c THEN q ELSE conn[d].bin
    BY <1>3, Fields DEF ConnRecords
  <2>2. \A d \in Conns : Len(conn'[d].bin) + Asks(d)' <= MaxLines
    BY <1>1, <1>3, <2>1
  <2> QED
    BY <1>2, <1>3, <2>1, <2>2, PipeSame
<1>4. CASE TakeLine
  <2>0. PICK c \in Conns : c = loop.serving
    BY <1>4 DEF TakeLine, TypeInv, LoopInv
  <2>1. conn[c].bin # <<>> /\ conn[c].bin \in Seq(Lines)
    BY <1>4, <2>0, Fields DEF TakeLine, TypeInv, LoopInv, ConnRecords
  <2>2. CASE /\ loop.asking = Nobody
             /\ conn' = [conn EXCEPT ![c].bin = Tail(@)]
             /\ loop' = [pc |-> "idle", serving |-> Nobody, asking |-> c, entered |-> TRUE]
    <3> DEFINE m == Len(conn[c].bin)
               q == Tail(conn[c].bin)
    <3>1. Len(q) = m - 1 /\ m \in Nat
      BY <2>1, HeadTailProperties, LenProperties
    <3>2. /\ Asks(c) = 0 /\ Asks(c)' = 1 /\ loop'.pc = "idle"
          /\ \A d \in Conns \ {c} : Asks(d)' = Asks(d)
      BY <2>1, <2>2, ConnsNumbers DEF Asks
    <3>3. m + 0 <= MaxLines
      BY <1>1, <2>1, <3>2
    <3>4. conn' = [conn EXCEPT ![c].bin = q]
      BY <2>2
    <3> HIDE DEF m, q
    <3>5. Len(q) + Asks(c)' <= MaxLines
      BY <3>1, <3>2, <3>3, LinesAssumption
    <3> QED
      BY <1>3, <2>1, <3>2, <3>4, <3>5 DEF Answering
  <2>3. CASE loop' = [loop EXCEPT !.pc = "line"] /\ conn' = conn
    <3>1. loop'.pc = "line" /\ loop'.asking = loop.asking
      BY <2>3, Fields DEF Loops
    <3>2. \A d \in Conns : Asks(d)' = Asks(d)
      BY <3>1 DEF Asks
    <3> QED
      BY <1>1, <1>2, <2>3, <3>1, <3>2, PipeSame DEF Answering
  <2> QED
    BY <1>4, <2>0, <2>2, <2>3 DEF TakeLine
<1>5. CASE Answered
  <2>0. PICK c \in Conns : c = loop.asking
    BY <1>5, PromptingAssumption DEF Answered, ServeInv, Dialogs
  <2> DEFINE q == <<DataRequest>> \o conn[c].bin
             m == Len(conn[c].bin)
  <2>1. conn[c].state = "NORMAL" /\ conn[c].bin \in Seq(Lines)
    BY <1>5, <2>0, Fields DEF Answered, ServeInv, Dialogs, ConnRecords
  <2>2. /\ loop' = [pc |-> "answer", serving |-> c, asking |-> Nobody, entered |-> FALSE]
        /\ conn' = [conn EXCEPT ![c].bin = q]
    BY <1>5, <2>0 DEF Answered
  <2>3. Len(q) = 1 + m /\ Head(q) = DataRequest /\ m \in Nat
    BY <2>1, Joined, RequestType, LenProperties
  <2>4. Asks(c) = 1
    BY <2>0 DEF Asks
  <2>5. \A d \in Conns : Asks(d)' = 0
    BY <2>2, ConnsNumbers DEF Asks
  <2>6. \A d \in Conns \ {c} : Asks(d) = 0
    BY <2>0 DEF Asks
  <2>7. m + 1 <= MaxLines
    BY <1>1, <2>1, <2>4
  <2>8. Answering'
    <3>1. conn'[c].bin = q /\ conn'[c].state = conn[c].state /\ loop'.serving = c
      BY <2>1, <2>2, Fields DEF ConnRecords
    <3> QED
      BY <2>1, <2>3, <3>1 DEF Answering
  <2> HIDE DEF q, m
  <2>9. Len(q) + Asks(c)' <= MaxLines
    BY <2>1, <2>3, <2>5, <2>7, LinesAssumption
  <2> QED
    BY <1>3, <2>1, <2>2, <2>5, <2>6, <2>8, <2>9
<1> QED
  BY <1>4, <1>5

LEMMA PipeStep ==
  ASSUME TypeInv, TypeInv', ServeInv, PipeInv, [Next]_vars
  PROVE  PipeInv'
<1>0. \A c \in Conns : Len(conn[c].bin) + Asks(c) <= MaxLines
  BY DEF PipeInv, Bounded
<1>1. CASE Start \/ gtk_retry_shim
  <2>1. /\ proto_do_retries /\ loop'.pc = "idle" /\ loop'.asking = loop.asking
        /\ UNCHANGED <<toBack, fromBack>>
    BY <1>1, Fields DEF Start, gtk_retry_shim, proto_do_retries, Loops
  <2>2. PICK started \in SUBSET Conns :
          /\ \A c \in started : conn'[c] = Muted(proto_init_conn(conn[c]))
          /\ \A c \in Conns \ started : conn'[c] = conn[c] /\ be'[c] = be[c]
    BY <2>1, RetryOpens
  <2>3. \A c \in Conns : /\ conn'[c].bin = conn[c].bin
                         /\ conn'[c].state = "PENALTY_BOX" =>
                              conn[c].state = "PENALTY_BOX" /\ be'[c] = be[c]
    BY <2>2, Fields, InitFields
  <2> QED
    BY <1>0, <2>1, <2>3, PipeSame DEF Answering, Asks
<1>2. CASE gtk_poll_shim
  <2>1. /\ conn' = [c \in Conns |-> Muted(Polled(c))] /\ loop.pc = "idle"
        /\ UNCHANGED <<loop, toBack, fromBack, be>>
    BY <1>2 DEF gtk_poll_shim, Muted
  <2>2. ASSUME NEW c \in Conns
        PROVE  conn'[c].bin = conn[c].bin /\ conn'[c].state = conn[c].state
    <3>1. Polled(c) \in ConnRecords /\ Polled(c).bin = conn[c].bin /\ Polled(c).state = conn[c].state
      BY Fields, PollFields DEF Polled
    <3> QED
      BY <2>1, <3>1, MutedFields
  <2> QED
    BY <1>0, <2>1, <2>2, PipeSame DEF Answering, Asks
<1>3. CASE Tick
  <2>1. loop.pc = "idle" /\ UNCHANGED <<loop, toBack, fromBack, be>>
    BY <1>3 DEF Tick
  <2> QED
    BY <1>0, <1>3, <2>1, TickFields, PipeSame DEF Answering, Asks
<1>4. CASE UNCHANGED <<conn, loop, toBack, fromBack, be>>
  BY <1>4 DEF PipeInv, Vacant, Bounded, Answering, Idle, Asks
<1>5. UNCHANGED vars \/ image_clicked => UNCHANGED <<conn, loop, toBack, fromBack, be>>
  BY DEF vars, image_clicked
<1> QED
  BY <1>1, <1>2, <1>3, <1>4, <1>5, PipeDialog, PipeLine, PipeInput, PipeOutput, PipeBack
     DEF Next, LoopStep, UserStep, Callback

LEMMA PipeInvariant == Spec => []PipeInv
<1>1. TypeInv /\ TypeInv' /\ ServeInv /\ PipeInv /\ [Next]_vars => PipeInv'
  BY PipeStep
<1> QED
  BY <1>1, PipeInit, TypeInvariant, ServeInvariant, PTL DEF Spec

(* What Frontend takes for read is the line that is being processed; the   *)
(* others of its chunk are still to be read, and so is the request whose   *)
(* dialog is open.                                                         *)
Served(c) == loop.pc \in {"line", "answer"} /\ loop.serving = c
Request(c) == IF loop.asking = c THEN <<DataRequest>> ELSE <<>>
Waiting(c) == IF Served(c) THEN Tail(conn[c].bin) ELSE Request(c) \o conn[c].bin

Front == [c \in Conns |-> View(conn[c], IF Served(c) THEN <<Head(conn[c].bin)>> ELSE <<>>)]
Pipes == [c \in Conns |-> Waiting(c) \o fromBack[c]]

LEMMA SeenIsFront == TypeInv /\ ServeInv =>
                       \A c \in Conns : Seen(c) = Front[c] /\ Unread(c) = Pipes[c]
<1> SUFFICES ASSUME TypeInv, ServeInv, NEW c \in Conns
             PROVE  Seen(c) = Front[c] /\ Unread(c) = Pipes[c]
  OBVIOUS
<1> DEFINE q == conn[c].bin
<1>1. conn[c] \in ConnRecords /\ q \in Seq(Lines) /\ fromBack[c] \in Seq(Lines)
  BY Fields DEF ConnRecords
<1>2. c # Nobody /\ Serves(c, conn[c], io)
  BY ConnsNumbers DEF ServeInv
<1>3. loop.asking = c => loop.entered /\ loop.serving # c
  BY <1>2 DEF ServeInv, Dialogs
<1>4. /\ SubSeq(q, 1, 0) = <<>> /\ SubSeq(q, 1, Len(q)) = q
      /\ q # <<>> => SubSeq(q, 1, 1) = <<Head(q)>> /\ SubSeq(q, 2, Len(q)) = Tail(q)
  BY <1>1, Halves
<1>5. Served(c) => q # <<>>
  BY DEF Served, TypeInv, LoopInv
<1>6. Taken(c) = IF Served(c) THEN 1 ELSE 0
  BY DEF Taken, Served
<1> DEFINE got == IF Served(c) THEN <<Head(q)>> ELSE <<>>
<1>7. SubSeq(q, 1, Taken(c)) = got
  BY <1>4, <1>5, <1>6
<1>8. Seen(c) = Front[c]
  <2> DEFINE w == (IF io.reads[c] # <<>> THEN {"read"} ELSE {})
                    \cup (IF conn[c].bout # <<>> THEN {"write"} ELSE {})
  <2>1. w = Needs(conn[c])
    BY <1>2 DEF Serves, Needs
  <2>2. Seen(c) = [conn[c] EXCEPT !.bin = SubSeq(@, 1, Taken(c)), !.watch = w]
    BY DEF Seen
  <2> HIDE DEF w
  <2>3. Seen(c) = [conn[c] EXCEPT !.bin = got, !.watch = w]
    BY <1>7, <2>2
  <2>4. Front[c] = View(conn[c], got)
    BY DEF Front
  <2> HIDE DEF got
  <2> QED
    BY <1>1, <2>1, <2>3, <2>4 DEF View, With
<1>9. Unread(c) = Pipes[c]
  <2>1. CASE Served(c)
    <3>1. loop.asking # c
      BY <1>2, <1>3, <2>1 DEF Served
    <3>2. Unread(c) = <<>> \o Tail(q) \o fromBack[c]
      <4>1. Taken(c) + 1 = 2 /\ SubSeq(q, 2, Len(q)) = Tail(q)
        BY <1>4, <1>5, <1>6, <2>1
      <4> QED
        BY <3>1, <4>1 DEF Unread
    <3>3. <<>> \o Tail(q) = Tail(q)
      BY <1>1, <1>5, <2>1, HeadTailProperties, ConcatEmptySeq
    <3> QED
      BY <2>1, <3>2, <3>3 DEF Pipes, Waiting
  <2>2. CASE ~Served(c)
    <3>1. Taken(c) + 1 = 1 /\ (IF loop.asking = c /\ loop.entered THEN <<DataRequest>> ELSE <<>>) = Request(c)
      BY <1>3, <1>6, <2>2 DEF Request
    <3> QED
      BY <1>4, <2>2, <3>1 DEF Pipes, Waiting, Unread
  <2> QED
    BY <2>1, <2>2
<1> QED
  BY <1>8, <1>9

LEMMA FrontIsSeen ==
  ASSUME TypeInv, ServeInv, TypeInv', ServeInv'
  PROVE  /\ [c \in Conns |-> Seen(c)] = Front /\ [c \in Conns |-> Seen(c)]' = Front'
         /\ [c \in Conns |-> Unread(c)] = Pipes /\ [c \in Conns |-> Unread(c)]' = Pipes'
<1>1. \A c \in Conns : Seen(c) = Front[c] /\ Unread(c) = Pipes[c]
  BY SeenIsFront
<1>2. (\A c \in Conns : Seen(c) = Front[c] /\ Unread(c) = Pipes[c])'
  BY SeenIsFront, PTL
<1> QED
  BY <1>1, <1>2 DEF Front, Pipes

(* The operators on records are the same seen from Frontend.               *)
LEMMA SameConnection ==
  /\ F!connection_init = connection_init
  /\ F!NoArg = NoArg
  /\ \A v, f : F!Command(v, f) = Command(v, f) /\ F!Line(v, f) = Line(v, f)
  /\ \A s : F!connection_close(s) = connection_close(s)
  /\ \A c, s, f : /\ F!connection_do_update(c, s, f) = connection_do_update(c, s, f)
                  /\ F!connection_do_reset(c, s, f) = connection_do_reset(c, s, f)
<1>1. \A n : F!Doubled(n) = Doubled(n)
  BY DEF F!Doubled, Doubled
<1>2. \A acts : F!FlagSteps(acts) = FlagSteps(acts)
  BY DEF F!FlagSteps, FlagSteps
<1>3. \A flag, acts : F!Performed(flag, acts) = Performed(flag, acts)
  BY <1>2 DEF F!Performed, Performed
<1>4. \A c, f : F!FirstMatch(c, f) = FirstMatch(c, f)
  BY DEF F!FirstMatch, FirstMatch, F!Matches, Matches
<1>5. \A c, s, f : F!ResetFires(c, s, f) <=> ResetFires(c, s, f)
  BY <1>4 DEF F!ResetFires, ResetFires
<1>6. \A c, s, f : F!connection_do_update(c, s, f) = connection_do_update(c, s, f)
  BY <1>3, <1>4 DEF F!connection_do_update, connection_do_update
<1>7. \A c, s, f : F!connection_do_reset(c, s, f) = connection_do_reset(c, s, f)
  BY <1>3, <1>4, <1>5 DEF F!connection_do_reset, connection_do_reset
<1>8. \A s : F!connection_close(s) = connection_close(s)
  BY <1>1 DEF F!connection_close, connection_close
<1>9. F!NoArg = NoArg
  BY DEF F!NoArg, NoArg
<1>10. \A v, f : F!Command(v, f) = Command(v, f) /\ F!Line(v, f) = Line(v, f)
  BY DEF F!Command, Command, F!Line, Line
<1>11. F!connection_init = connection_init
  BY DEF F!connection_init, connection_init
<1> QED
  BY <1>6, <1>7, <1>8, <1>9, <1>10, <1>11

LEMMA SameProto ==
  /\ \A s : /\ F!proto_init_conn(s) = proto_init_conn(s)
            /\ F!proto_poll_conn(s) = proto_poll_conn(s)
            /\ F!WantsPoll(s) <=> WantsPoll(s)
            /\ F!WantsRetry(s) <=> WantsRetry(s)
  /\ \A s, line : F!Closes(s, line) <=> Closes(s, line)
  /\ \A s, n : F!Written(s, n) = Written(s, n)
  /\ \A c, s, line, have :
       F!proto_process_line(c, s, line, have) = proto_process_line(c, s, line, have)
<1>1. \A s, cmd : F!Send(s, cmd) = Send(s, cmd)
  BY DEF F!Send, Send
<1>2. \A s : F!proto_poll_conn(s) = proto_poll_conn(s)
  BY <1>1, SameConnection DEF F!proto_poll_conn, proto_poll_conn
<1>3. \A c, s : F!proto_add_next_folder(c, s) = proto_add_next_folder(c, s)
  BY <1>1, <1>2, SameConnection DEF F!proto_add_next_folder, proto_add_next_folder
<1>4. \A s : F!ProcessStatus(s) = ProcessStatus(s)
  BY DEF F!ProcessStatus, ProcessStatus
<1>5. \A c, s : F!ProcessOk(c, s) = ProcessOk(c, s)
  BY <1>3, <1>4 DEF F!ProcessOk, ProcessOk, F!ProcessHello, ProcessHello,
                    F!ProcessFolderOk, ProcessFolderOk
<1>6. \A s : F!ProcessNo(s) = ProcessNo(s)
  BY <1>4, SameConnection DEF F!ProcessNo, ProcessNo
<1>7. \A s, have : F!ProcessDataRequest(s, have) = ProcessDataRequest(s, have)
  BY <1>1, SameConnection DEF F!ProcessDataRequest, ProcessDataRequest, F!Respond, Respond
<1>8. ASSUME NEW c, NEW s, NEW line, NEW have
      PROVE  F!proto_process_line(c, s, line, have) = proto_process_line(c, s, line, have)
  BY <1>5, <1>6, <1>7, SameConnection DEF F!proto_process_line, proto_process_line
<1>9. \A s, line : F!Closes(s, line) <=> Closes(s, line)
  BY DEF F!Closes, Closes
<1>10. \A s, n : F!Written(s, n) = Written(s, n)
  BY DEF F!Written, Written
<1>11. \A s : /\ F!proto_init_conn(s) = proto_init_conn(s)
              /\ F!WantsPoll(s) <=> WantsPoll(s)
              /\ F!WantsRetry(s) <=> WantsRetry(s)
  BY DEF F!proto_init_conn, proto_init_conn, F!WantsPoll, WantsPoll, F!WantsRetry, WantsRetry
<1> QED
  BY <1>2, <1>8, <1>9, <1>10, <1>11

LEMMA SameSay ==
  /\ F!Gone = Gone /\ F!Fresh = Fresh
  /\ \A c, line : F!Say(c, line) <=>
       /\ be[c].up
       /\ Len([d \in Conns |-> Unread(d)][c]) < 2 * MaxLines
       /\ [d \in Conns |-> Unread(d)]'
            = [[d \in Conns |-> Unread(d)] EXCEPT ![c] = Append(@, line)]
<1>1. F!Gone = Gone
  BY DEF F!Gone, Gone
<1>2. F!Fresh = Fresh
  BY <1>1 DEF F!Fresh, Fresh
<1> QED
  BY <1>1, <1>2 DEF F!Say

LEMMA FrontFields ==
  ASSUME TypeInv, NEW c \in Conns, ~Served(c)
  PROVE  /\ Front[c] = View(conn[c], <<>>) /\ Front[c] \in ConnRecords
         /\ Front[c].bin = <<>> /\ Front[c].watch = Needs(conn[c])
         /\ Front[c].state = conn[c].state /\ Front[c].pending = conn[c].pending
         /\ Front[c].wait = conn[c].wait /\ Front[c].bout = conn[c].bout
<1>1. conn[c] \in ConnRecords /\ <<>> \in Seq(Lines)
  BY Fields, EmptySeq
<1>2. Front[c] = View(conn[c], <<>>)
  BY DEF Front
<1>3. /\ View(conn[c], <<>>) \in ConnRecords
      /\ View(conn[c], <<>>).watch = Needs(conn[c]) /\ View(conn[c], <<>>).bin = <<>>
      /\ View(conn[c], <<>>).state = conn[c].state
      /\ View(conn[c], <<>>).pending = conn[c].pending
      /\ View(conn[c], <<>>).wait = conn[c].wait /\ View(conn[c], <<>>).bout = conn[c].bout
  BY <1>1, ViewFields
<1> QED
  BY <1>2, <1>3

(* Outside the loop over the lines of a chunk the thread is free.          *)
LEMMA NotBusy ==
  ASSUME TypeInv, loop.pc \notin {"line", "answer"}
  PROVE  \A c \in Conns : ~Served(c) /\ Front[c].bin = <<>>
<1>1. \A c \in Conns : ~Served(c)
  BY DEF Served
<1> QED
  BY <1>1, FrontFields

LEMMA FrontInit == ASSUME Init PROVE F!Init
<1>1. /\ \A c \in Conns : conn[c] = connection_init
      /\ BackInit /\ loop.pc = "start" /\ loop.asking = Nobody
  BY DEF Init
<1>2. View(connection_init, <<>>) = connection_init
  <2>1. Needs(connection_init) = {} /\ connection_init.watch = {}
    BY InitRecord DEF Needs, connection_init
  <2> QED
    BY <2>1, InitRecord DEF View, With, ConnRecords
<1>3. \A c \in Conns : Front[c] = connection_init
  BY <1>1, <1>2 DEF Front, Served
<1>4. \A c \in Conns : Pipes[c] = <<>>
  <2>1. <<>> \o <<>> = <<>>
    OBVIOUS
  <2> QED
    BY <1>1, <2>1, InitRecord, ConnsNumbers DEF Pipes, Waiting, Served, Request, BackInit
<1>5. \A c \in Conns : Seen(c) = Front[c] /\ Unread(c) = Pipes[c]
  BY TypeInit, ServeInit, SeenIsFront
<1> QED
  BY <1>1, <1>3, <1>4, <1>5, SameConnection, SameSay DEF F!Init, F!BackInit, BackInit

LEMMA FrontRetry ==
  ASSUME TypeInv, ServeInv, TypeInv', ServeInv', Start \/ gtk_retry_shim
  PROVE  F!Next \/ UNCHANGED <<Front, toBack, Pipes, be>>
<1>1. /\ proto_do_retries /\ loop.pc \notin {"line", "answer"} /\ loop'.pc \notin {"line", "answer"}
      /\ loop'.asking = loop.asking /\ UNCHANGED <<toBack, fromBack>>
  BY Fields DEF Start, gtk_retry_shim, proto_do_retries, Loops
<1>2. PICK started \in SUBSET (Conns \ OpenIn(conn)) :
        /\ \A c \in started :
             /\ conn'[c] = Muted(proto_init_conn(conn[c])) /\ be'[c] = Fresh
             /\ WantsRetry(conn[c])
        /\ \A c \in Conns \ started :
             /\ WantsRetry(conn[c]) => "refuse" \in Faults[c]
             /\ conn'[c] = conn[c] /\ be'[c] = be[c]
  BY <1>1, RetryOpens, ZenonT(60)
<1>3. /\ \A c \in Conns : ~Served(c) /\ Front[c].bin = <<>>
      /\ \A c \in Conns : ~Served(c)'
  <2>1. \A c \in Conns : ~Served(c)'
    BY <1>1 DEF Served
  <2> QED
    BY <1>1, <2>1, NotBusy
<1>4. \A c \in Conns : Front'[c] = IF c \in started THEN proto_init_conn(Front[c]) ELSE Front[c]
  <2> SUFFICES ASSUME NEW c \in Conns
               PROVE  View(conn'[c], <<>>) = IF c \in started THEN proto_init_conn(View(conn[c], <<>>))
                                             ELSE View(conn[c], <<>>)
    BY <1>3 DEF Front
  <2>1. CASE c \in started
    <3>1. conn[c] \in ConnRecords /\ conn[c].state = "PENALTY_BOX" /\ conn[c].bout = <<>>
      BY <1>2, <2>1, Fields DEF WantsRetry, ServeInv, Serves
    <3> QED
      BY <1>2, <2>1, <3>1, InitViews
  <2>2. CASE c \notin started
    BY <1>2, <2>2
  <2> QED
    BY <2>1, <2>2
<1>5. Pipes' = Pipes
  <2>1. \A c \in Conns : conn'[c].bin = conn[c].bin
    BY <1>2, Fields, InitFields
  <2>2. \A c \in Conns : Waiting(c)' = Waiting(c)
    BY <1>1, <1>3, <2>1 DEF Waiting, Request
  <2> QED
    BY <1>1, <2>2 DEF Pipes
<1>6. be' = [c \in Conns |-> IF c \in started THEN Fresh ELSE be[c]]
  <2>1. be' \in [Conns -> BackEnds]
    BY DEF TypeInv, TypeOK, BackTypeOK
  <2> QED
    BY <1>2, <2>1
<1>7. CASE started = {}
  <2>1. be' = be
    BY <1>6, <1>7, Fields
  <2>2. Front' = Front
    BY <1>4, <1>7 DEF Front
  <2> QED
    BY <1>1, <1>5, <2>1, <2>2
<1>8. CASE started # {}
  <2>1. \A c \in Conns : WantsRetry(Front[c]) <=> WantsRetry(conn[c])
    BY <1>3, FrontFields DEF WantsRetry
  <2>2. started \in SUBSET {c \in Conns : WantsRetry(Front[c])}
    BY <1>2, <2>1
  <2>3. \A c \in Conns : WantsRetry(Front[c]) /\ c \notin started => "refuse" \in Faults[c]
    BY <1>2, <2>1
  <2>4. Front' = [c \in Conns |-> IF c \in started THEN proto_init_conn(Front[c]) ELSE Front[c]]
    BY <1>4 DEF Front
  <2>5. \A c \in Conns : Front[c].bin = <<>>
    BY <1>3
  <2> HIDE DEF Front, Pipes
  <2>6. F!proto_do_retries
    BY <1>1, <1>5, <1>6, <1>8, <2>2, <2>3, <2>4, <2>5, FrontIsSeen, SameProto, SameSay
       DEF F!proto_do_retries, F!Busy
  <2> QED
    BY <2>6 DEF F!Next
<1> QED
  BY <1>7, <1>8

LEMMA FrontPoll ==
  ASSUME TypeInv, ServeInv, TypeInv', ServeInv', gtk_poll_shim
  PROVE  F!Next \/ UNCHANGED <<Front, toBack, Pipes, be>>
<1>1. /\ loop.pc = "idle" /\ UNCHANGED <<loop, toBack, fromBack, be>>
      /\ conn' = [c \in Conns |-> Muted(Polled(c))]
  BY DEF gtk_poll_shim, Muted
<1>2. /\ \A c \in Conns : ~Served(c) /\ Front[c].bin = <<>>
      /\ \A c \in Conns : ~Served(c)'
  <2>1. \A c \in Conns : ~Served(c)'
    BY <1>1 DEF Served
  <2> QED
    BY <1>1, <2>1, NotBusy
<1>3. Pipes' = Pipes
  <2>1. ASSUME NEW c \in Conns PROVE conn'[c].bin = conn[c].bin
    <3>1. Polled(c) \in ConnRecords /\ Polled(c).bin = conn[c].bin
      BY Fields, PollFields DEF Polled
    <3> QED
      BY <1>1, <3>1, MutedFields
  <2>2. \A c \in Conns : Waiting(c)' = Waiting(c)
    BY <1>1, <1>2, <2>1 DEF Waiting, Request
  <2> QED
    BY <1>1, <2>2 DEF Pipes
<1>4. ASSUME NEW c \in Conns
      PROVE  Front'[c] = IF WantsPoll(Front[c]) THEN proto_poll_conn(Front[c]) ELSE Front[c]
  <2>1. Polled(c) = PollOf(conn[c])
    BY DEF Polled, PollOf
  <2>2. View(Muted(PollOf(conn[c])), <<>>) = PollOf(View(conn[c], <<>>))
    BY Fields, EmptySeq, PolledViews
  <2>3. Front'[c] = View(conn'[c], <<>>) /\ Front[c] = View(conn[c], <<>>)
    BY <1>2 DEF Front
  <2> QED
    BY <1>1, <2>1, <2>2, <2>3 DEF PollOf
<1>5. Front' = [c \in Conns |-> IF WantsPoll(Front[c]) THEN proto_poll_conn(Front[c]) ELSE Front[c]]
  BY <1>4 DEF Front
<1>6. CASE \E c \in Conns : WantsPoll(Front[c])
  <2> HIDE DEF Front, Pipes
  <2>1. F!proto_do_poll
    BY <1>1, <1>2, <1>3, <1>5, <1>6, FrontIsSeen, SameProto DEF F!proto_do_poll, F!Busy
  <2> QED
    BY <2>1 DEF F!Next
<1>7. CASE ~\E c \in Conns : WantsPoll(Front[c])
  <2>1. Front' = Front
    BY <1>5, <1>7 DEF Front
  <2> QED
    BY <1>1, <1>3, <2>1
<1> QED
  BY <1>6, <1>7

LEMMA FrontTick ==
  ASSUME TypeInv, ServeInv, TypeInv', ServeInv', Tick
  PROVE  F!Next \/ UNCHANGED <<Front, toBack, Pipes, be>>
<1>1. /\ conn' = [c \in Conns |-> [conn[c] EXCEPT !.wait = IF @ > 0 THEN @ - 1 ELSE 0]]
      /\ loop.pc = "idle" /\ UNCHANGED <<loop, toBack, fromBack, be>>
  BY DEF Tick
<1>2. /\ \A c \in Conns : ~Served(c)
      /\ \A c \in Conns : ~Served(c)'
  BY <1>1 DEF Served
<1>3. Pipes' = Pipes
  <2>1. \A c \in Conns : Waiting(c)' = Waiting(c)
    BY <1>1, <1>2, TickFields DEF Waiting, Request
  <2> QED
    BY <1>1, <2>1 DEF Pipes
<1>4. ASSUME NEW c \in Conns
      PROVE  Front'[c] = [Front[c] EXCEPT !.wait = IF @ > 0 THEN @ - 1 ELSE 0]
  <2>1. View([conn[c] EXCEPT !.wait = IF @ > 0 THEN @ - 1 ELSE 0], <<>>)
          = [View(conn[c], <<>>) EXCEPT !.wait = IF @ > 0 THEN @ - 1 ELSE 0]
    BY Fields, EmptySeq, AgedViews
  <2>2. Front'[c] = View(conn'[c], <<>>) /\ Front[c] = View(conn[c], <<>>)
    BY <1>2 DEF Front
  <2> QED
    BY <1>1, <2>1, <2>2
<1>5. Front' = [c \in Conns |-> [Front[c] EXCEPT !.wait = IF @ > 0 THEN @ - 1 ELSE 0]]
  BY <1>4 DEF Front
<1>6. CASE \E c \in Conns : Front[c].wait > 0
  <2> HIDE DEF Front, Pipes
  <2>1. F!Tick
    BY <1>1, <1>3, <1>5, <1>6, FrontIsSeen DEF F!Tick
  <2> QED
    BY <2>1 DEF F!Next
<1>7. CASE ~\E c \in Conns : Front[c].wait > 0
  <2>1. ASSUME NEW c \in Conns PROVE Front'[c] = Front[c]
    <3> DEFINE s == Front[c]
    <3>1. s \in ConnRecords /\ s.wait \in Nat /\ ~(s.wait > 0)
      BY <1>2, <1>7, FrontFields DEF ConnRecords
    <3>2. Front'[c] = [s EXCEPT !.wait = IF @ > 0 THEN @ - 1 ELSE 0]
      BY <1>4
    <3> HIDE DEF s
    <3>3. Front'[c] = s
      BY <3>1, <3>2 DEF ConnRecords
    <3> QED
      BY <3>3 DEF s
  <2>2. Front' = Front
    BY <2>1 DEF Front
  <2> QED
    BY <1>1, <1>3, <2>2
<1> QED
  BY <1>6, <1>7

(* What is read and taken up line by line is read line by line.            *)
LEMMA TakenUp ==
  ASSUME TypeInv, ServeInv, TypeInv', ServeInv', NEW c \in Conns, conn[c].state # "PENALTY_BOX",
         loop.pc \notin {"line", "answer"}, NEW line \in Lines, NEW rest \in Seq(Lines),
         Pipes[c] = <<line>> \o rest,
         Front' = [Front EXCEPT ![c] = View(conn[c], <<line>>)],
         Pipes' = [Pipes EXCEPT ![c] = rest], UNCHANGED <<toBack, be>>
  PROVE  F!Next
<1>1. \A d \in Conns : ~Served(d) /\ Front[d].bin = <<>>
  BY NotBusy
<1>2. "read" \in Front[c].watch /\ Front[c] = View(conn[c], <<>>)
  BY <1>1, FrontFields DEF Needs
<1>3. /\ Pipes[c] \in Seq(Lines) /\ Pipes[c] # <<>> /\ Len(Pipes[c]) = 1 + Len(rest)
      /\ Head(Pipes[c]) = line /\ Tail(Pipes[c]) = rest
  BY Joined
<1>4. SubSeq(Pipes[c], 1, 1) = <<line>> /\ SubSeq(Pipes[c], 2, Len(Pipes[c])) = rest
  BY <1>3, Halves
<1>5. 1 \in 1 .. Len(Pipes[c]) /\ 1 + 1 = 2
  BY <1>3, LenProperties
<1>6. View(conn[c], <<line>>) = [Front[c] EXCEPT !.bin = <<line>>]
  <2>1. [View(conn[c], <<>>) EXCEPT !.bin = <<line>>] = View(conn[c], <<line>>)
    BY Fields, BinSet, Zenon
  <2> QED
    BY <1>2, <2>1
<1>7. Front' = [Front EXCEPT ![c].bin = SubSeq(Pipes[c], 1, 1)]
  BY <1>4, <1>6
<1>8. Pipes' = [Pipes EXCEPT ![c] = SubSeq(@, 1 + 1, Len(@))]
  BY <1>4, <1>5
<1>9. F!proto_do_conn_input(c)
  BY <1>1, <1>2, <1>5, <1>7, <1>8, FrontIsSeen DEF F!proto_do_conn_input, F!Busy
<1> QED
  BY <1>9 DEF F!Next, F!FrontEndStep

LEMMA FrontTake ==
  ASSUME TypeInv, ServeInv, TypeInv', ServeInv', TakeLine
  PROVE  F!Next \/ UNCHANGED <<Front, toBack, Pipes, be>>
<1>1. PICK c \in Conns : c = loop.serving
  BY DEF TakeLine, TypeInv, LoopInv
<1> DEFINE q == conn[c].bin
<1>2. /\ loop.pc = "next" /\ q # <<>> /\ UNCHANGED <<toBack, fromBack, be>>
  BY <1>1 DEF TakeLine, TypeInv, LoopInv
<1>3. conn[c].state # "PENALTY_BOX" /\ loop.asking # c
  BY <1>1, <1>2, ServedOpen, ConnsNumbers DEF ServeInv, Dialogs
<1>4. /\ q \in Seq(Lines) /\ fromBack[c] \in Seq(Lines)
      /\ Head(q) \in Lines /\ Tail(q) \in Seq(Lines) /\ <<Head(q)>> \o Tail(q) = q
      /\ <<>> \o q = q
  <2>1. q \in Seq(Lines) /\ fromBack[c] \in Seq(Lines)
    BY Fields DEF ConnRecords
  <2> QED
    BY <1>2, <2>1, HeadTailProperties, Halves, ConcatEmptySeq
<1>5. \A d \in Conns : ~Served(d)
  BY <1>2 DEF Served
<1>6. CASE /\ Head(q) = DataRequest /\ loop.asking = Nobody
           /\ conn' = [conn EXCEPT ![c].bin = Tail(@)]
           /\ loop' = [pc |-> "idle", serving |-> Nobody, asking |-> c, entered |-> TRUE]
  <2> DEFINE t == Tail(q)
  <2>1. /\ conn' = [conn EXCEPT ![c] = [conn[c] EXCEPT !.bin = t]]
        /\ conn[c] \in ConnRecords
    BY <1>6, Fields
  <2>2. \A d \in Conns : ~Served(d)'
    BY <1>6 DEF Served
  <2> HIDE DEF t
  <2>3. View([conn[c] EXCEPT !.bin = t], <<>>) = View(conn[c], <<>>)
    BY <2>1, BinViews, Zenon
  <2>4. Front' = Front
    BY <1>5, <2>1, <2>2, <2>3, Fields DEF Front
  <2>5. conn'[c].bin = t /\ \A d \in Conns \ {c} : conn'[d].bin = conn[d].bin
    BY <2>1, Fields DEF ConnRecords
  <2>6. \A d \in Conns : Waiting(d)' = Waiting(d)
    <3>1. Request(c) = <<>> /\ Request(c)' = <<DataRequest>>
          /\ \A d \in Conns \ {c} : Request(d)' = Request(d)
      BY <1>3, <1>6, ConnsNumbers DEF Request
    <3>2. Waiting(c)' = Waiting(c)
      BY <1>4, <1>5, <1>6, <2>2, <2>5, <3>1 DEF Waiting, t
    <3>3. \A d \in Conns \ {c} : Waiting(d)' = Waiting(d)
      BY <1>5, <2>2, <2>5, <3>1 DEF Waiting
    <3> QED
      BY <3>2, <3>3
  <2> QED
    BY <1>2, <2>4, <2>6 DEF Pipes
<1>7. CASE conn' = conn /\ loop' = [loop EXCEPT !.pc = "line"]
  <2>1. loop'.pc = "line" /\ loop'.serving = c /\ loop'.asking = loop.asking
    BY <1>1, <1>7, Fields DEF Loops
  <2>2. Served(c)' /\ \A d \in Conns \ {c} : ~Served(d)'
    BY <2>1 DEF Served
  <2>3. Front' = [Front EXCEPT ![c] = View(conn[c], <<Head(q)>>)]
    BY <1>5, <1>7, <2>2 DEF Front
  <2> DEFINE rest == Tail(q) \o fromBack[c]
  <2>4. rest \in Seq(Lines) /\ Pipes[c] = <<Head(q)>> \o rest
    <3>1. Pipes[c] = q \o fromBack[c]
      BY <1>3, <1>4, <1>5 DEF Pipes, Waiting, Request
    <3>2. <<Head(q)>> \o Tail(q) \o fromBack[c] = <<Head(q)>> \o rest /\ rest \in Seq(Lines)
      BY <1>4, Regroup
    <3> QED
      BY <1>4, <3>1, <3>2
  <2>5. Pipes' = [Pipes EXCEPT ![c] = rest]
    <3>1. Waiting(c)' = Tail(q)
      BY <1>7, <2>2 DEF Waiting
    <3>2. \A d \in Conns \ {c} : Waiting(d)' = Waiting(d)
      BY <1>5, <1>7, <2>1, <2>2 DEF Waiting, Request
    <3> QED
      BY <1>2, <3>1, <3>2 DEF Pipes
  <2> HIDE DEF rest
  <2> QED
    BY <1>2, <1>3, <1>4, <2>3, <2>4, <2>5, TakenUp
<1> QED
  BY <1>1, <1>6, <1>7 DEF TakeLine

LEMMA FrontAnswered ==
  ASSUME TypeInv, ServeInv, TypeInv', ServeInv', Answered
  PROVE  F!Next
<1>1. PICK c \in Conns : c = loop.asking
  BY PromptingAssumption DEF Answered, ServeInv, Dialogs
<1> DEFINE q == conn[c].bin
           new == <<DataRequest>> \o q
<1>2. /\ loop.pc = "idle" /\ conn[c].state = "NORMAL" /\ UNCHANGED <<toBack, fromBack, be>>
      /\ conn' = [conn EXCEPT ![c] = [conn[c] EXCEPT !.bin = new]]
      /\ loop' = [pc |-> "answer", serving |-> c, asking |-> Nobody, entered |-> FALSE]
  BY <1>1 DEF Answered, ServeInv, Dialogs
<1>3. conn[c] \in ConnRecords /\ q \in Seq(Lines) /\ fromBack[c] \in Seq(Lines)
  BY Fields DEF ConnRecords
<1>4. Head(new) = DataRequest /\ Tail(new) = q
  BY <1>3, Joined, RequestType
<1> HIDE DEF new
<1>5. /\ \A d \in Conns : ~Served(d)
      /\ Served(c)' /\ \A d \in Conns \ {c} : ~Served(d)'
  BY <1>2 DEF Served
<1>6. conn'[c].bin = new /\ \A d \in Conns \ {c} : conn'[d] = conn[d]
  BY <1>2, <1>3, Fields DEF ConnRecords
<1>7. Front' = [Front EXCEPT ![c] = View(conn[c], <<DataRequest>>)]
  <2>1. conn'[c] = [conn[c] EXCEPT !.bin = new]
    BY <1>2, Fields
  <2>2. View([conn[c] EXCEPT !.bin = new], <<DataRequest>>) = View(conn[c], <<DataRequest>>)
    BY <1>3, BinViews, Zenon
  <2> QED
    BY <1>4, <1>5, <1>6, <2>1, <2>2 DEF Front
<1> DEFINE rest == q \o fromBack[c]
<1>8. rest \in Seq(Lines) /\ Pipes[c] = <<DataRequest>> \o rest
  <2>1. Pipes[c] = (<<DataRequest>> \o q) \o fromBack[c]
    BY <1>1, <1>5 DEF Pipes, Waiting, Request
  <2>2. <<DataRequest>> \o q \o fromBack[c] = <<DataRequest>> \o rest /\ rest \in Seq(Lines)
    BY <1>3, RequestType, Regroup
  <2> QED
    BY <2>1, <2>2
<1>9. Pipes' = [Pipes EXCEPT ![c] = rest]
  <2>1. Waiting(c)' = q
    BY <1>4, <1>5, <1>6 DEF Waiting
  <2>2. \A d \in Conns \ {c} : Waiting(d)' = Waiting(d)
    BY <1>1, <1>2, <1>5, <1>6, ConnsNumbers DEF Waiting, Request
  <2> QED
    BY <1>2, <2>1, <2>2 DEF Pipes
<1> HIDE DEF rest
<1> QED
  BY <1>2, <1>7, <1>8, <1>9, RequestType, TakenUp

(* A connection is closed while the thread does nothing for another.       *)
LEMMA FrontCloses ==
  ASSUME TypeInv, TypeInv', ServeInv, ServeInv', PipeInv, NEW c \in Conns, conn[c].state # "PENALTY_BOX",
         NEW t, Close(c, t), Stripped(io, c, t),
         loop.asking # c, loop'.asking = loop.asking, loop'.pc \notin {"line", "answer"},
         \A d \in Conns \ {c} : ~Served(d)
  PROVE  /\ Front' = [Front EXCEPT ![c] = connection_close(conn[c])]
         /\ F!Disconnect(c)
<1>1. /\ conn' = [conn EXCEPT ![c] = connection_close(conn[c])]
      /\ toBack' = [toBack EXCEPT ![c] = <<>>]
      /\ fromBack' = [fromBack EXCEPT ![c] = <<>>]
      /\ be' = [be EXCEPT ![c] = Gone]
  BY CloseVacates
<1>2. \A d \in Conns : ~Served(d)'
  BY DEF Served
<1>3. View(connection_close(conn[c]), <<>>) = connection_close(conn[c])
  BY Fields, CloseViews
<1>4. Front' = [Front EXCEPT ![c] = connection_close(conn[c])]
  BY <1>1, <1>2, <1>3, Fields DEF Front
<1>5. conn'[c].bin = <<>>
  BY CloseServes
<1>6. Pipes' = [Pipes EXCEPT ![c] = <<>>]
  <2>1. Waiting(c)' = <<>> /\ fromBack'[c] = <<>>
    <3>1. Request(c)' = <<>>
      BY DEF Request
    <3>2. <<>> \o <<>> = <<>>
      OBVIOUS
    <3> QED
      BY <1>1, <1>2, <1>5, <3>1, <3>2, Fields DEF Waiting
  <2>2. \A d \in Conns \ {c} : Waiting(d)' = Waiting(d) /\ fromBack'[d] = fromBack[d]
    BY <1>1, <1>2, Fields DEF Waiting, Request
  <2>3. <<>> \o <<>> = <<>>
    OBVIOUS
  <2> QED
    BY <2>1, <2>2, <2>3 DEF Pipes
<1>7. F!Disconnect(c)
  BY <1>1, <1>6, FrontIsSeen, SameSay DEF F!Disconnect
<1> QED
  BY <1>4, <1>7

LEMMA FrontInput ==
  ASSUME TypeInv, TypeInv', ServeInv, ServeInv', PipeInv, NEW c \in Conns, Input(c)
  PROVE  F!Next \/ UNCHANGED <<Front, toBack, Pipes, be>>
<1> DEFINE x == io.fds[c].in
<1>1. /\ conn[c].state # "PENALTY_BOX" /\ conn[c].bin = <<>> /\ io.file[x] = [of |-> c, end |-> "in"]
      /\ loop.pc = "idle" /\ loop.serving = Nobody /\ loop.asking # c
  BY InputServed
<1>2. \A d \in Conns : ~Served(d) /\ Front[d].bin = <<>>
  BY <1>1, NotBusy
<1>3. ASSUME NEW n \in 1 .. Len(fromBack[c]),
             conn' = [conn EXCEPT ![c].bin = SubSeq(fromBack[c], 1, n)],
             fromBack' = [fromBack EXCEPT ![c] = SubSeq(@, n + 1, Len(@))],
             loop' = [loop EXCEPT !.pc = "next", !.serving = c],
             UNCHANGED <<toBack, be>>
      PROVE  UNCHANGED <<Front, toBack, Pipes, be>>
  <2> DEFINE p == fromBack[c]
             q == SubSeq(p, 1, n)
             rest == SubSeq(p, n + 1, Len(p))
  <2>1. p \in Seq(Lines) /\ Len(p) \in Nat /\ n \in 1 .. Len(p)
    BY <1>3, Fields, LenProperties
  <2>2. q \o rest = p
    <3> DEFINE m == Len(p)
    <3>1. m \in Nat /\ n \in 1 .. m /\ SubSeq(p, 1, m) = p
      BY <2>1, SubSeqFull
    <3> HIDE DEF p
    <3>2. SubSeq(p, 1, n) \o SubSeq(p, n + 1, m) = SubSeq(p, 1, m)
      <4>1. 1 \in 1 .. m + 1 /\ n \in 1 - 1 .. m /\ m \in n .. m
        BY <3>1
      <4> QED
        BY <2>1, <4>1, ConcatAdjacentSubSeq
    <3> QED
      BY <3>1, <3>2
  <2>3. /\ conn' = [conn EXCEPT ![c] = [conn[c] EXCEPT !.bin = q]]
        /\ fromBack' = [fromBack EXCEPT ![c] = rest]
        /\ loop'.asking = loop.asking /\ loop'.pc = "next"
    BY <1>3, Fields DEF Loops
  <2> HIDE DEF p, q, rest
  <2>4. conn[c] \in ConnRecords /\ conn'[c].bin = q /\ \A d \in Conns \ {c} : conn'[d] = conn[d]
    BY <2>3, Fields DEF ConnRecords
  <2>5. \A d \in Conns : ~Served(d)'
    BY <2>3 DEF Served
  <2>6. Front' = Front
    <3>1. View([conn[c] EXCEPT !.bin = q], <<>>) = View(conn[c], <<>>)
      BY <2>4, BinViews, Zenon
    <3> QED
      BY <1>2, <2>3, <2>5, <3>1, Fields DEF Front
  <2>7. Pipes' = Pipes
    <3>1. Waiting(c) = <<>> /\ Waiting(c)' = q
      <4>1. Request(c) = <<>> /\ Request(c)' = <<>>
        BY <1>1, <2>3 DEF Request
      <4>2. <<>> \o <<>> = <<>> /\ <<>> \o q = q
        <5>1. q \in Seq(Lines)
          BY <2>1, CutSeq DEF q
        <5> QED
          BY <5>1, ConcatEmptySeq
      <4> QED
        BY <1>1, <1>2, <2>4, <2>5, <4>1, <4>2 DEF Waiting
    <3>2. fromBack'[c] = rest /\ \A d \in Conns \ {c} : fromBack'[d] = fromBack[d]
      BY <2>3, Fields
    <3>3. \A d \in Conns \ {c} : Waiting(d)' = Waiting(d)
      BY <1>2, <2>3, <2>4, <2>5 DEF Waiting, Request
    <3>4. <<>> \o p = p
      BY <2>1, ConcatEmptySeq
    <3> QED
      BY <2>2, <3>1, <3>2, <3>3, <3>4 DEF Pipes, p
  <2> QED
    BY <1>3, <2>6, <2>7
<1>4. ASSUME fromBack[c] = <<>>, ~be[c].up, Close(c, CloseFds(io, c)), loop' = Left(c)
      PROVE  F!Next
  <2>1. Stripped(io, c, CloseFds(io, c))
    BY Fields, CloseFdsStrips
  <2>2. loop'.asking = loop.asking /\ loop'.pc = "idle"
    BY <1>1, <1>4, LeftLoop
  <2>3. Front' = [Front EXCEPT ![c] = connection_close(conn[c])] /\ F!Disconnect(c)
    BY <1>1, <1>2, <1>4, <2>1, <2>2, FrontCloses
  <2>4. connection_close(Front[c]) = connection_close(conn[c]) /\ "read" \in Front[c].watch
    <3>1. Front[c] = With(conn[c], Needs(conn[c]), <<>>)
      BY <1>2 DEF Front, View
    <3>2. Front[c].watch = Needs(conn[c])
      BY <1>2, FrontFields
    <3> QED
      BY <1>1, <3>1, <3>2, Fields, CloseViews DEF Needs
  <2>5. Pipes[c] = <<>>
    <3>1. Waiting(c) = <<>> \o <<>> /\ <<>> \o <<>> = <<>>
      BY <1>1, <1>2 DEF Waiting, Request
    <3> QED
      BY <1>4, <3>1 DEF Pipes
  <2>6. F!Hangup(c)
    BY <1>2, <1>4, <2>3, <2>4, <2>5, FrontIsSeen, SameConnection DEF F!Hangup, F!Busy, F!Close
  <2> QED
    BY <2>6 DEF F!Next, F!FrontEndStep
<1> QED
  BY <1>1, <1>3, <1>4 DEF Input

(* The line that is processed is all that Frontend takes for read.         *)
LEMMA LineSeen ==
  ASSUME TypeInv, ServeInv, NEW c \in Conns, loop.serving = c, loop.pc \in {"line", "answer"}
  PROVE  /\ conn[c].bin # <<>> /\ conn[c].state # "PENALTY_BOX" /\ loop.asking # c
         /\ Front[c].bin # <<>> /\ Head(Front[c].bin) = Head(conn[c].bin)
         /\ [Front[c] EXCEPT !.bin = Tail(@)] = View(conn[c], <<>>)
         /\ View(Rest(c), <<>>) = View(conn[c], <<>>)
         /\ \A line : Closes(View(conn[c], <<>>), line) <=> Closes(Rest(c), line)
<1>1. conn[c].bin # <<>>
  BY DEF TypeInv, LoopInv
<1>2. conn[c].state # "PENALTY_BOX" /\ loop.asking # c
  BY <1>1, ServedOpen, ConnsNumbers DEF ServeInv, Dialogs
<1> DEFINE line == Head(conn[c].bin)
           rest == Tail(conn[c].bin)
<1>3. conn[c] \in ConnRecords /\ line \in Lines /\ Rest(c).state = conn[c].state
  BY <1>1, Fields, ServedLine
<1>4. Front[c] = View(conn[c], <<line>>)
  BY DEF Front, Served
<1>5. Rest(c) = [conn[c] EXCEPT !.bin = rest]
  BY DEF Rest
<1> HIDE DEF line, rest
<1>6. <<line>> \in Seq(Lines) /\ <<line>> # <<>> /\ Head(<<line>>) = line /\ Tail(<<line>>) = <<>>
  <2>1. <<line>> \o <<>> = <<line>> /\ <<>> \in Seq(Lines)
    BY <1>3, ConcatEmptySeq, EmptySeq
  <2> QED
    BY <1>3, <2>1, Joined
<1>7. View(conn[c], <<line>>).bin = <<line>>
  BY <1>3, <1>6, ViewFields
<1>8. [View(conn[c], <<line>>) EXCEPT !.bin = <<>>] = View(conn[c], <<>>)
  BY <1>3, BinSet, Zenon
<1>9. View([conn[c] EXCEPT !.bin = rest], <<>>) = View(conn[c], <<>>)
  BY <1>3, BinViews, ZenonT(60)
<1>10. View(conn[c], <<>>).state = conn[c].state
  BY <1>3, ViewFields, EmptySeq
<1>11. [Front[c] EXCEPT !.bin = Tail(@)] = View(conn[c], <<>>)
  BY <1>4, <1>6, <1>7, <1>8
<1> QED
  BY <1>1, <1>2, <1>3, <1>4, <1>5, <1>6, <1>7, <1>9, <1>10, <1>11 DEF Closes, line

LEMMA FrontHandles ==
  ASSUME TypeInv, TypeInv', ServeInv, ServeInv', NEW c \in Conns, loop.serving = c,
         loop.pc \in {"line", "answer"}, NEW have \in BOOLEAN,
         ~Closes(Rest(c), Head(conn[c].bin)),
         Handled(c, proto_process_line(c, Rest(c), Head(conn[c].bin), have)),
         Continue(c), UNCHANGED <<toBack, fromBack, be>>
  PROVE  F!ProcessLine(c)
<1> DEFINE line == Head(conn[c].bin)
           s == Rest(c)
           v == View(conn[c], <<>>)
           r == proto_process_line(c, s, line, have)
<1>1. /\ conn[c].bin # <<>> /\ conn[c].state # "PENALTY_BOX" /\ loop.asking # c
      /\ Front[c].bin # <<>> /\ Head(Front[c].bin) = line
      /\ [Front[c] EXCEPT !.bin = Tail(@)] = v /\ View(s, <<>>) = v /\ ~Closes(v, line)
  BY LineSeen
<1>2. /\ line \in Lines /\ Shape(c, s) /\ s.watch = {} /\ s.state # "PENALTY_BOX"
      /\ s.bin = Tail(conn[c].bin) /\ Tail(conn[c].bin) \in Seq(Lines) /\ ~Closes(s, line)
  BY <1>1, ServedLine
<1>3. conn' = [conn EXCEPT ![c] = Muted(r)]
  BY DEF Handled, Muted
<1> HIDE DEF line, s, v
<1>4. Shape(c, r) /\ r.bin = s.bin
  BY <1>2, LineEffect
<1>5. View(Muted(r), <<>>) = proto_process_line(c, v, line, have)
  <2>1. View(Muted(r), <<>>) = proto_process_line(c, View(s, <<>>), line, have)
    <3>1. <<>> \in Seq(Lines)
      BY EmptySeq
    <3> QED
      BY <1>2, <3>1, LineViews, ZenonT(60)
  <2> QED
    BY <1>1, <2>1
<1> HIDE DEF r
<1>6. conn'[c] = Muted(r) /\ \A d \in Conns \ {c} : conn'[d] = conn[d]
  BY <1>3, Fields
<1>7. conn'[c].bin = Tail(conn[c].bin)
  BY <1>2, <1>4, <1>6, MutedFields DEF Shape
<1>8. loop'.asking = loop.asking /\ loop'.pc \in {"next", "idle"}
  BY ContinueLoop
<1>9. /\ \A d \in Conns : ~Served(d)'
      /\ Served(c) /\ \A d \in Conns \ {c} : ~Served(d)
  BY <1>8 DEF Served
<1>10. Front' = [Front EXCEPT ![c] = proto_process_line(c, v, line, have)]
  BY <1>5, <1>6, <1>9 DEF Front
<1>11. Pipes' = Pipes
  <2>1. Waiting(c)' = Waiting(c)
    <3>1. Request(c)' = <<>> /\ <<>> \o Tail(conn[c].bin) = Tail(conn[c].bin)
      BY <1>1, <1>2, <1>8, ConcatEmptySeq DEF Request
    <3> QED
      BY <1>7, <1>9, <3>1 DEF Waiting
  <2>2. \A d \in Conns \ {c} : Waiting(d)' = Waiting(d)
    BY <1>6, <1>8, <1>9 DEF Waiting, Request
  <2> QED
    BY <2>1, <2>2 DEF Pipes
<1>12. /\ [d \in Conns |-> Seen(d)] = Front /\ [d \in Conns |-> Seen(d)]' = Front'
       /\ [d \in Conns |-> Unread(d)] = Pipes /\ [d \in Conns |-> Unread(d)]' = Pipes'
  BY FrontIsSeen
<1>13. F!proto_process_line(c, v, line, have) = proto_process_line(c, v, line, have)
  BY SameProto
<1>14. ~F!Closes(v, line)
  BY <1>1, SameProto
<1>15. Front[c].bin # <<>> /\ Head(Front[c].bin) = line /\ [Front[c] EXCEPT !.bin = Tail(@)] = v
  BY <1>1
<1> QED
  BY <1>10, <1>11, <1>12, <1>13, <1>14, <1>15, ZenonT(60) DEF F!ProcessLine

LEMMA FrontLine ==
  ASSUME TypeInv, TypeInv', ServeInv, ServeInv', PipeInv, ProcessLine \/ ProcessAnswer
  PROVE  F!Next
<1>0. PICK c \in Conns : c = loop.serving
  BY DEF ProcessLine, ProcessAnswer, TypeInv, LoopInv
<1> DEFINE line == Head(conn[c].bin)
           v == View(conn[c], <<>>)
<1>1. loop.pc \in {"line", "answer"} /\ Continue(c)
  BY <1>0 DEF ProcessLine, ProcessAnswer
<1>2. /\ conn[c].bin # <<>> /\ conn[c].state # "PENALTY_BOX" /\ loop.asking # c
      /\ Front[c].bin # <<>> /\ Head(Front[c].bin) = line
      /\ [Front[c] EXCEPT !.bin = Tail(@)] = v
      /\ Closes(v, line) <=> Closes(Rest(c), line)
  BY <1>0, <1>1, LineSeen
<1>3. CASE ProcessLine /\ Closes(Rest(c), line)
  <2>1. Close(c, CloseFds(io, c)) /\ Stripped(io, c, CloseFds(io, c))
    BY <1>0, <1>3, LineStep, Fields, CloseFdsStrips
  <2>2. loop'.asking = loop.asking /\ loop'.pc \in {"next", "idle"}
    BY <1>0, <1>1, ContinueLoop
  <2>3. \A d \in Conns \ {c} : ~Served(d)
    BY <1>0 DEF Served
  <2>4. Front' = [Front EXCEPT ![c] = connection_close(conn[c])] /\ F!Disconnect(c)
    BY <1>2, <2>1, <2>2, <2>3, FrontCloses
  <2>5. connection_close(v) = connection_close(conn[c])
    BY Fields, CloseViews DEF View
  <2> HIDE DEF v, line
  <2>6. proto_process_line(c, v, line, TRUE) = connection_close(v)
    BY <1>2, <1>3 DEF Closes, proto_process_line, ProcessNo
  <2>7. F!ProcessLine(c)
    BY <1>2, <1>3, <2>4, <2>5, <2>6, FrontIsSeen, SameProto DEF F!ProcessLine
  <2> QED
    BY <2>7 DEF F!Next, F!FrontEndStep
<1>4. CASE ProcessLine /\ ~Closes(Rest(c), line)
  <2>1. /\ Handled(c, proto_process_line(c, Rest(c), line, c \notin Prompting))
        /\ UNCHANGED <<toBack, fromBack, be>>
    BY <1>0, <1>4, LineStep DEF Processed
  <2>2. (c \notin Prompting) \in BOOLEAN
    OBVIOUS
  <2>3. F!ProcessLine(c)
    BY <1>0, <1>1, <1>4, <2>1, <2>2, FrontHandles
  <2> QED
    BY <2>3 DEF F!Next, F!FrontEndStep
<1>5. CASE ProcessAnswer
  <2>1. /\ Handled(c, Respond(Rest(c))) /\ UNCHANGED <<toBack, fromBack, be>> /\ loop.pc = "answer"
    BY <1>0, <1>5, AnswerStep
  <2>2. line = DataRequest /\ conn[c].state = "NORMAL"
    BY <1>0, <2>1 DEF PipeInv, Answering
  <2>3. Rest(c).state = "NORMAL"
    BY <1>2, <2>2, ServedLine
  <2>4. /\ proto_process_line(c, Rest(c), line, TRUE) = Respond(Rest(c))
        /\ ~Closes(Rest(c), line)
    <3> HIDE DEF line
    <3>1. line.tag = "DATAREQUEST"
      BY <2>2 DEF DataRequest, Line
    <3> QED
      BY <2>3, <3>1 DEF proto_process_line, ProcessDataRequest, Closes
  <2>5. F!ProcessLine(c)
    BY <1>0, <1>1, <2>1, <2>4, FrontHandles
  <2> QED
    BY <2>5 DEF F!Next, F!FrontEndStep
<1> QED
  BY <1>3, <1>4, <1>5

LEMMA FrontOutput ==
  ASSUME TypeInv, TypeInv', ServeInv, ServeInv', PipeInv, NEW c \in Conns, Output(c)
  PROVE  F!Next \/ UNCHANGED <<Front, toBack, Pipes, be>>
<1> DEFINE x == io.fds[c].out
<1>1. loop.pc = "idle"
  BY DEF Output
<1>2. \A d \in Conns : ~Served(d) /\ Front[d].bin = <<>>
  BY <1>1, NotBusy
<1>3. /\ Front[c] = View(conn[c], <<>>) /\ Front[c].bout = conn[c].bout
      /\ Front[c].watch = Needs(conn[c]) /\ conn[c] \in ConnRecords
  BY <1>2, FrontFields, Fields
<1>4. conn[c].bout # <<>> =>
        /\ conn[c].state # "PENALTY_BOX" /\ io.file[x] = [of |-> c, end |-> "out"]
        /\ "write" \in Front[c].watch
  BY <1>3 DEF ServeInv, Serves, PipesOf, Needs
<1>5. CASE UNCHANGED <<conn, loop, toBack, fromBack, be>>
  BY <1>5 DEF Front, Pipes, Served, Waiting, Request
<1>6. ASSUME NEW n \in 1 .. Len(conn[c].bout),
             conn' = [conn EXCEPT ![c] = Written(conn[c], n)],
             toBack' = [toBack EXCEPT ![io.file[x].of] = @ \o SubSeq(conn[c].bout, 1, n)],
             be[io.file[x].of].up,
             UNCHANGED <<loop, fromBack, be>>
      PROVE  F!Next
  <2>1. conn[c].bout \in Seq(Commands)
    BY <1>3 DEF ConnRecords
  <2>2. conn[c].bout # <<>>
    BY <2>1, CutMore
  <2>3. View(Written(conn[c], n), <<>>) = Written(Front[c], n)
    BY <1>3, <1>4, <2>2, EmptySeq, WrittenViews
  <2> DEFINE s == Written(conn[c], n)
  <2>4. s.bin = conn[c].bin
    BY <1>3 DEF Written, ConnRecords
  <2>5. conn' = [conn EXCEPT ![c] = s]
    BY <1>6
  <2> HIDE DEF s
  <2>6. conn'[c] = s /\ \A d \in Conns \ {c} : conn'[d] = conn[d]
    BY <2>5, Fields
  <2>7. \A d \in Conns : ~Served(d)'
    BY <1>1, <1>6 DEF Served
  <2>8. Front' = [Front EXCEPT ![c] = Written(Front[c], n)]
    BY <1>2, <2>3, <2>6, <2>7 DEF Front, s
  <2>9. Pipes' = Pipes
    <3>1. \A d \in Conns : conn'[d].bin = conn[d].bin
      BY <2>4, <2>6
    <3>2. \A d \in Conns : Request(d)' = Request(d)
      BY <1>6 DEF Request
    <3>3. \A d \in Conns : Waiting(d)' = Waiting(d)
      BY <1>2, <2>7, <3>1, <3>2 DEF Waiting
    <3> QED
      BY <1>6, <3>3 DEF Pipes
  <2>10. /\ toBack' = [toBack EXCEPT ![c] = @ \o SubSeq(Front[c].bout, 1, n)] /\ be[c].up
         /\ "write" \in Front[c].watch
    <3>1. io.file[x].of = c /\ Front[c].bout = conn[c].bout /\ "write" \in Front[c].watch
      BY <1>3, <1>4, <2>2
    <3> QED
      BY <1>6, <3>1
  <2>11. n \in 0 .. Len(Front[c].bout) /\ n # 0
    <3> DEFINE m == Len(conn[c].bout)
    <3>1. m \in Nat /\ n \in 1 .. m /\ Len(Front[c].bout) = m
      BY <1>3, <2>1, LenProperties
    <3> HIDE DEF m
    <3>2. n \in 0 .. m /\ n # 0
      BY <3>1
    <3> QED
      BY <3>1, <3>2
  <2>12. F!proto_do_conn_output(c)
    BY <1>2, <1>6, <2>8, <2>9, <2>10, <2>11, FrontIsSeen, SameProto
       DEF F!proto_do_conn_output, F!Busy
  <2> QED
    BY <2>12 DEF F!Next, F!FrontEndStep
<1>7. CASE BrokenPipe(c)
  <2>1. /\ loop'.asking = loop.asking /\ loop'.pc = "killed"
        /\ UNCHANGED <<conn, toBack, fromBack, be>>
    BY <1>7, KilledLoop
  <2>2. \A d \in Conns : ~Served(d) /\ ~Served(d)'
    BY <1>1, <2>1 DEF Served
  <2>3. \A d \in Conns : Waiting(d)' = Waiting(d)
    BY <2>1, <2>2 DEF Waiting, Request
  <2> QED
    BY <2>1, <2>2, <2>3 DEF Front, Pipes
<1> QED
  BY <1>5, <1>6, <1>7 DEF Output

LEMMA WaitingShort ==
  ASSUME TypeInv, ServeInv, PipeInv, NEW c \in Conns
  PROVE  Waiting(c) \in Seq(Lines) /\ Len(Waiting(c)) <= MaxLines
<1> DEFINE q == conn[c].bin
           m == Len(q)
<1>1. q \in Seq(Lines) /\ m \in Nat /\ m + Asks(c) <= MaxLines
  BY Fields, LenProperties DEF ConnRecords, PipeInv, Bounded
<1>2. CASE Served(c)
  <2>1. q # <<>>
    BY <1>2 DEF Served, TypeInv, LoopInv
  <2>2. Tail(q) \in Seq(Lines) /\ Len(Tail(q)) = m - 1
    BY <1>1, <2>1, HeadTailProperties
  <2>3. Asks(c) \in {0, 1}
    BY DEF Asks
  <2>4. Waiting(c) = Tail(q)
    BY <1>2 DEF Waiting
  <2> HIDE DEF m, q
  <2>5. m - 1 <= MaxLines
    BY <1>1, <2>3, LinesAssumption
  <2> QED
    BY <2>2, <2>4, <2>5
<1>3. CASE ~Served(c) /\ loop.asking = c
  <2>1. Waiting(c) = <<DataRequest>> \o q /\ Asks(c) = 1
    BY <1>3 DEF Waiting, Request, Asks
  <2>2. <<DataRequest>> \o q \in Seq(Lines) /\ Len(<<DataRequest>> \o q) = 1 + m
    BY <1>1, RequestType, Joined
  <2> HIDE DEF m, q
  <2>3. 1 + m <= MaxLines
    BY <1>1, <2>1, LinesAssumption
  <2> QED
    BY <2>1, <2>2, <2>3
<1>4. CASE ~Served(c) /\ loop.asking # c
  <2>1. Waiting(c) = <<>> \o q /\ Asks(c) = 0
    BY <1>4 DEF Waiting, Request, Asks
  <2>2. <<>> \o q = q
    BY <1>1, ConcatEmptySeq
  <2> HIDE DEF q
  <2>3. m <= MaxLines
    BY <1>1, <2>1, LinesAssumption
  <2> QED
    BY <1>1, <2>1, <2>2, <2>3 DEF m
<1> QED
  BY <1>2, <1>3, <1>4

(* A line that is sent joins those that Frontend takes to be on their way. *)
LEMMA AppendJoined ==
  ASSUME NEW S, NEW s \in Seq(S), NEW t \in Seq(S), NEW x \in S
  PROVE  /\ s \o Append(t, x) = Append(s \o t, x)
         /\ Len(s \o t) = Len(s) + Len(t) /\ Len(s) \in Nat /\ Len(t) \in Nat
<1> DEFINE r == <<x>>
<1>1. r \in Seq(S) /\ s \o t \in Seq(S)
  BY ConcatProperties
<1>2. Append(t, x) = t \o r /\ Append(s \o t, x) = (s \o t) \o r
  BY <1>1, AppendIsConcat
<1> HIDE DEF r
<1>3. (s \o t) \o r = s \o (t \o r)
  BY <1>1, ConcatAssociative
<1> QED
  BY <1>2, <1>3, ConcatProperties, LenProperties

LEMMA FrontSays ==
  ASSUME TypeInv, TypeInv', ServeInv, ServeInv', PipeInv, NEW c \in Conns,
         UNCHANGED <<conn, loop>>, NEW line, Say(c, line)
  PROVE  F!Say(c, line)
<1> DEFINE w == Waiting(c)
           p == fromBack[c]
           S == Lines \cup {line}
<1>1. /\ be[c].up /\ p \in Seq(Lines) /\ Len(p) < MaxLines
      /\ fromBack' = [fromBack EXCEPT ![c] = Append(p, line)]
  BY Fields DEF Say
<1>2. w \in Seq(Lines) /\ Len(w) <= MaxLines
  BY WaitingShort
<1>3. \A d \in Conns : Waiting(d)' = Waiting(d)
  BY DEF Waiting, Request, Served
<1> HIDE DEF w, p
<1>4. w \in Seq(S) /\ p \in Seq(S) /\ line \in S
  BY <1>1, <1>2, SeqMonotonic
<1> HIDE DEF S
<1>5. /\ w \o Append(p, line) = Append(w \o p, line)
      /\ Len(w \o p) = Len(w) + Len(p) /\ Len(w) \in Nat /\ Len(p) \in Nat
  BY <1>4, AppendJoined
<1>6. Pipes[c] = w \o p
  BY DEF Pipes, w, p
<1>7. Len(Pipes[c]) < 2 * MaxLines
  BY <1>1, <1>2, <1>5, <1>6, LinesAssumption
<1>8. Pipes' = [Pipes EXCEPT ![c] = Append(@, line)]
  <2>1. fromBack'[c] = Append(p, line) /\ \A d \in Conns \ {c} : fromBack'[d] = fromBack[d]
    BY <1>1, Fields
  <2>2. Waiting(c)' = w
    BY <1>3 DEF w
  <2>3. Pipes' = [Pipes EXCEPT ![c] = Append(Pipes[c], line)]
    BY <1>3, <1>5, <1>6, <2>1, <2>2 DEF Pipes
  <2> QED
    BY <2>3
<1> QED
  BY <1>1, <1>7, <1>8, FrontIsSeen, SameSay

LEMMA FrontBack ==
  ASSUME TypeInv, TypeInv', ServeInv, ServeInv', PipeInv, NEW c \in Conns, BackStep(c)
  PROVE  F!Next
<1>1. BackEndStep(c) /\ UNCHANGED <<conn, loop>>
  BY DEF BackStep
<1>2. \A line : Say(c, line) => F!Say(c, line)
  BY <1>1, FrontSays
<1>3. Front' = Front
  BY <1>1 DEF Front, Served
<1>4. UNCHANGED fromBack => Pipes' = Pipes
  BY <1>1 DEF Pipes, Waiting, Served, Request
<1>5. \A v, f : F!Line(v, f) = Line(v, f)
  BY SameConnection
<1>6. F!NoArg = NoArg
  BY SameConnection
<1>7. Greet(c) => F!Greet(c)
  BY <1>2, <1>5, <1>6 DEF Greet, F!Greet
<1>8. Answer(c) => F!Answer(c)
  BY <1>2, <1>5, <1>6 DEF Answer, F!Answer
<1>9. Notify(c) => F!Notify(c)
  BY <1>2, <1>5 DEF Notify, F!Notify, Spoken, F!Spoken
<1>10. Ask(c) => F!Ask(c)
  BY <1>2, <1>5, <1>6 DEF Ask, F!Ask
<1>11. Chatter(c) => F!Chatter(c)
  BY <1>2, <1>5, <1>6 DEF Chatter, F!Chatter
<1>12. Exit(c) => F!Exit(c)
  BY <1>4, FrontIsSeen DEF Exit, F!Exit
<1>13. F!BackEndStep(c)
  BY <1>1, <1>7, <1>8, <1>9, <1>10, <1>11, <1>12 DEF BackEndStep, F!BackEndStep
<1> QED
  BY <1>3, <1>13, FrontIsSeen DEF F!Next

(* The main loop of GLib, with sources that are added and deleted by tags, *)
(* dialogs that run the loop itself and chunks that are processed line by  *)
(* line while others wait, is the front end that Frontend describes: each  *)
(* dispatch serves one connection as the contract of the file GUI has it,  *)
(* or changes nothing a connection could tell.  What is proved of Frontend *)
(* holds of the GTK interface then (gui_gtk.c).                            *)
THEOREM GtkImplementsFrontend == Spec => FrontendRefined
<1>1. Init => F!Init
  BY FrontInit
<1>2. /\ TypeInv /\ ServeInv /\ PipeInv /\ TypeInv' /\ ServeInv' /\ [Next]_vars
      => [F!Next]_F!vars
  <2> SUFFICES ASSUME TypeInv, ServeInv, PipeInv, TypeInv', ServeInv', [Next]_vars
               PROVE  F!Next \/ UNCHANGED F!vars
    OBVIOUS
  <2>1. UNCHANGED <<Front, toBack, Pipes, be>> => UNCHANGED F!vars
    BY FrontIsSeen DEF F!vars
  <2>2. UNCHANGED <<conn, loop, toBack, fromBack, be>> => UNCHANGED <<Front, toBack, Pipes, be>>
    BY DEF Front, Pipes, Waiting, Served, Request
  <2>3. CASE Start \/ gtk_retry_shim
    BY <2>1, <2>3, FrontRetry
  <2>4. CASE gtk_poll_shim
    BY <2>1, <2>4, FrontPoll
  <2>5. CASE TakeLine
    BY <2>1, <2>5, FrontTake
  <2>6. CASE ProcessLine \/ ProcessAnswer
    BY <2>6, FrontLine
  <2>7. CASE \E c \in Conns : Callback(c)
    BY <2>1, <2>7, FrontInput, FrontOutput DEF Callback
  <2>8. CASE Answered
    BY <2>8, FrontAnswered
  <2>9. CASE Tick
    BY <2>1, <2>9, FrontTick
  <2>10. CASE \E c \in Conns : BackStep(c)
    BY <2>10, FrontBack
  <2>11. CASE image_clicked \/ UNCHANGED vars
    BY <2>1, <2>2, <2>11 DEF image_clicked, vars
  <2> QED
    BY <2>3, <2>4, <2>5, <2>6, <2>7, <2>8, <2>9, <2>10, <2>11 DEF Next, LoopStep, UserStep
<1> QED
  BY <1>1, <1>2, TypeInvariant, ServeInvariant, PipeInvariant, PTL DEF Spec, FrontendRefined, F!Spec

-------------------------------------------------------------------------------
(* Nobody is sent a data item before he could ask for it *)

Unasking == {line \in Lines : line.tag # "DATAREQUEST"}
Unasked  == {cmd \in Commands : cmd.verb # "DATARESPONSE"}

(* Until a process greets it has asked for nothing, and nothing it could   *)
(* take for an answer is on its way or being thought about.                *)
AskedInv ==
    \A c \in Conns : be[c].greeted \/
      /\ loop.asking # c
      /\ conn[c].bin \in Seq(Unasking) /\ fromBack[c] \in Seq(Unasking)
      /\ conn[c].bout \in Seq(Unasked) /\ toBack[c] \in Seq(Unasked)

LEMMA UnaskedCommands ==
  /\ Command("POLL", NoArg) \in Unasked
  /\ \A f \in Names : Command("FOLDER", f) \in Unasked
BY DEF Unasked, Command, Commands

(* What is sent after a line that asks for nothing is a FOLDER or a POLL.  *)
LEMMA LineUnasked ==
  ASSUME NEW c \in Conns, NEW s, Shape(c, s), NEW line \in Unasking,
         NEW have \in BOOLEAN, ~Closes(s, line), s.bout \in Seq(Unasked)
  PROVE  proto_process_line(c, s, line, have).bout \in Seq(Unasked)
<1> DEFINE r == proto_process_line(c, s, line, have)
<1> USE DEF Statuses
<1>1. /\ s \in ConnRecords /\ s.state \in CStates /\ s.added \in Nat
      /\ Len(Folders[c]) \in Nat /\ s.added <= Len(Folders[c])
      /\ s.state = "ADDING_FOLDERS" => s.added + 1 <= Len(Folders[c])
  BY FoldersType DEF Shape, ConnRecords
<1>2. line.tag \in LineTags \ {"DATAREQUEST"}
  BY DEF Unasking, Lines
<1>3. ASSUME NEW t \in ConnRecords, t.bout = s.bout, t.added \in 0 .. Len(Folders[c])
      PROVE  proto_add_next_folder(c, t).bout \in Seq(Unasked)
  <2>1. CASE t.added = Len(Folders[c])
    <3> DEFINE normal == [t EXCEPT !.state = "NORMAL"]
               poll == Command("POLL", NoArg)
    <3>1. normal \in ConnRecords /\ normal.bout = s.bout
      BY <1>3 DEF ConnRecords, CStates
    <3>2. proto_add_next_folder(c, t) = proto_poll_conn(normal)
      BY <2>1 DEF proto_add_next_folder
    <3>3. proto_poll_conn(normal).bout = Append(s.bout, poll)
      BY <3>1, PollFields
    <3>4. poll \in Unasked
      BY UnaskedCommands
    <3> HIDE DEF normal, poll
    <3> QED
      BY <3>2, <3>3, <3>4, AppendProperties
  <2>2. CASE t.added # Len(Folders[c])
    <3> DEFINE cmd == Command("FOLDER", Folders[c][t.added + 1])
    <3>1. t.added + 1 \in 1 .. Len(Folders[c])
      BY <1>1, <1>3, <2>2
    <3>2. cmd \in Unasked
      BY <3>1, FoldersType, UnaskedCommands
    <3>3. proto_add_next_folder(c, t) = Send(t, cmd)
      BY <2>2 DEF proto_add_next_folder
    <3> HIDE DEF cmd
    <3>4. Send(t, cmd).bout = Append(s.bout, cmd)
      BY <1>3, <3>2, SendFields, SMTT(30) DEF Unasked
    <3> QED
      BY <3>2, <3>3, <3>4, AppendProperties
  <2> QED
    BY <2>1, <2>2
<1>4. CASE line.tag = "OK" /\ s.state = "WAIT_HELLO"
  <2> DEFINE t == [s EXCEPT !.penalty = 1, !.state = "ADDING_FOLDERS"]
  <2>1. r = proto_add_next_folder(c, t)
    BY <1>4 DEF proto_process_line, ProcessOk, ProcessHello
  <2>2. t \in ConnRecords /\ t.bout = s.bout /\ t.added = s.added
    <3>1. 1 \in 1 .. MaxPenalty
      BY PenaltyAssumption
    <3> QED
      BY <1>1, <3>1 DEF ConnRecords, CStates
  <2> HIDE DEF t, r
  <2>3. r.bout \in Seq(Unasked)
    BY <1>1, <1>3, <2>1, <2>2
  <2> QED
    BY <2>3 DEF r
<1>5. CASE line.tag = "OK" /\ s.state = "ADDING_FOLDERS"
  <2> DEFINE n == s.added + 1
             t == [s EXCEPT !.added = n]
  <2>1. r = proto_add_next_folder(c, t)
    BY <1>5 DEF proto_process_line, ProcessOk, ProcessFolderOk
  <2>2. n \in Nat /\ n \in 0 .. Len(Folders[c])
    BY <1>1, <1>5
  <2> HIDE DEF n
  <2>3. s \in ConnRecords
    BY <1>1
  <2>4. n \in Nat
    BY <2>2
  <2>5. t \in ConnRecords /\ t.bout = s.bout /\ t.added = n
    BY <2>3, <2>4 DEF ConnRecords
  <2> HIDE DEF t, r
  <2>6. r.bout \in Seq(Unasked)
    BY <1>3, <2>1, <2>2, <2>5
  <2> QED
    BY <2>6 DEF r
<1>6. CASE line.tag \in Statuses /\ s.state \in {"NORMAL", "PENALTY_BOX"}
  <2> DEFINE k == IF s.pending > 0 THEN s.pending - 1 ELSE s.pending
  <2>1. r = s \/ r = [s EXCEPT !.pending = k]
    BY <1>6 DEF proto_process_line, ProcessOk, ProcessNo, ProcessStatus
  <2> HIDE DEF k, r
  <2>2. r.bout = s.bout
    BY <1>1, <2>1 DEF ConnRecords
  <2> QED
    BY <2>2 DEF r
<1>7. CASE line.tag \in {"UPDATE", "RESET"}
  <2>1. r \in {connection_do_update(c, s, line.arg), connection_do_reset(c, s, line.arg)}
    BY <1>7 DEF proto_process_line
  <2> HIDE DEF r
  <2>2. r.bout = s.bout
    BY <1>1, <2>1, EventFields
  <2> QED
    BY <2>2 DEF r
<1>8. CASE line.tag = "NOTE"
  BY <1>8 DEF proto_process_line
<1> QED
  BY <1>1, <1>2, <1>4, <1>5, <1>6, <1>7, <1>8 DEF LineTags, CStates, Closes

LEMMA AskedInit == Init => AskedInv
<1> SUFFICES ASSUME Init, NEW c \in Conns
             PROVE  /\ loop.asking # c
                    /\ conn[c].bin \in Seq(Unasking) /\ fromBack[c] \in Seq(Unasking)
                    /\ conn[c].bout \in Seq(Unasked) /\ toBack[c] \in Seq(Unasked)
  BY DEF AskedInv
<1> QED
  BY InitRecord, ConnsNumbers, EmptySeq DEF Init, BackInit

(* Steps of other connections, and those that only let time pass.          *)
SameAsked(c) ==
    /\ be'[c].greeted = be[c].greeted
    /\ loop'.asking = c => loop.asking = c
    /\ conn'[c].bin = conn[c].bin /\ conn'[c].bout = conn[c].bout
    /\ toBack'[c] = toBack[c] /\ fromBack'[c] = fromBack[c]

LEMMA AskedSame ==
  ASSUME AskedInv, \A c \in Conns : SameAsked(c)
  PROVE  AskedInv'
BY DEF AskedInv, SameAsked

LEMMA AskedOne ==
  ASSUME AskedInv, NEW c \in Conns, \A d \in Conns \ {c} : SameAsked(d),
         \/ be'[c].greeted
         \/ /\ loop'.asking # c
            /\ conn'[c].bin \in Seq(Unasking) /\ fromBack'[c] \in Seq(Unasking)
            /\ conn'[c].bout \in Seq(Unasked) /\ toBack'[c] \in Seq(Unasked)
  PROVE  AskedInv'
BY DEF AskedInv, SameAsked

LEMMA AskedClose ==
  ASSUME TypeInv, TypeInv', ServeInv, PipeInv, AskedInv, NEW c \in Conns,
         conn[c].state # "PENALTY_BOX", NEW t, Close(c, t), Stripped(io, c, t),
         loop'.asking = loop.asking, loop.asking # c
  PROVE  AskedInv'
<1>1. /\ conn' = [conn EXCEPT ![c] = connection_close(conn[c])]
      /\ toBack' = [toBack EXCEPT ![c] = <<>>]
      /\ fromBack' = [fromBack EXCEPT ![c] = <<>>]
      /\ be' = [be EXCEPT ![c] = Gone]
  BY CloseVacates
<1>2. connection_close(conn[c]).bin = <<>> /\ connection_close(conn[c]).bout = <<>>
  BY Fields DEF connection_close, ConnRecords
<1>3. \A d \in Conns \ {c} : SameAsked(d)
  BY <1>1, Fields DEF SameAsked
<1>4. conn'[c].bin = <<>> /\ conn'[c].bout = <<>> /\ toBack'[c] = <<>> /\ fromBack'[c] = <<>>
  <2>1. conn'[c] = connection_close(conn[c])
    BY <1>1, Fields
  <2> QED
    BY <1>1, <1>2, <2>1, Fields
<1> QED
  BY <1>3, <1>4, EmptySeq, AskedOne

LEMMA AskedRetry ==
  ASSUME TypeInv, ServeInv, PipeInv, AskedInv, Start \/ gtk_retry_shim
  PROVE  AskedInv'
<1>1. /\ proto_do_retries /\ loop'.asking = loop.asking /\ UNCHANGED <<toBack, fromBack>>
  BY Fields DEF Start, gtk_retry_shim, proto_do_retries, Loops
<1>2. PICK started \in SUBSET (Conns \ OpenIn(conn)) :
        /\ \A c \in started : conn'[c] = Muted(proto_init_conn(conn[c])) /\ be'[c] = Fresh
        /\ \A c \in Conns \ started : conn'[c] = conn[c] /\ be'[c] = be[c]
  BY <1>1, RetryOpens
<1>3. ASSUME NEW c \in started PROVE SameAsked(c)
  <2>1. conn[c].state = "PENALTY_BOX" /\ c \in Conns
    BY DEF OpenIn
  <2>2. be[c] = Gone
    BY <2>1 DEF PipeInv, Vacant, Idle
  <2>3. be'[c].greeted = be[c].greeted
    <3>1. Fresh.greeted = Gone.greeted
      BY DEF Fresh, Gone
    <3> QED
      BY <1>2, <2>2, <3>1
  <2> QED
    BY <1>1, <1>2, <2>1, <2>3, Fields, InitFields DEF SameAsked
<1>4. \A c \in Conns \ started : SameAsked(c)
  BY <1>1, <1>2 DEF SameAsked
<1> QED
  BY <1>3, <1>4, AskedSame

LEMMA AskedPoll ==
  ASSUME TypeInv, AskedInv, gtk_poll_shim
  PROVE  AskedInv'
<1>1. /\ conn' = [c \in Conns |-> Muted(Polled(c))]
      /\ UNCHANGED <<loop, toBack, fromBack, be>>
  BY DEF gtk_poll_shim, Muted
<1>2. ASSUME NEW c \in Conns
      PROVE  /\ conn'[c].bin = conn[c].bin
             /\ conn[c].bout \in Seq(Unasked) => conn'[c].bout \in Seq(Unasked)
  <2> DEFINE poll == Command("POLL", NoArg)
  <2>1. /\ Polled(c) \in ConnRecords /\ Polled(c).bin = conn[c].bin
        /\ Polled(c).bout \in {conn[c].bout, Append(conn[c].bout, poll)}
    BY Fields, PollFields DEF Polled
  <2>2. conn'[c].bin = Polled(c).bin /\ conn'[c].bout = Polled(c).bout
    BY <1>1, <2>1, MutedFields
  <2>3. poll \in Unasked
    BY UnaskedCommands
  <2> HIDE DEF poll
  <2> QED
    BY <2>1, <2>2, <2>3, AppendProperties
<1> QED
  BY <1>1, <1>2 DEF AskedInv

LEMMA AskedInput ==
  ASSUME TypeInv, TypeInv', ServeInv, PipeInv, AskedInv, NEW c \in Conns, Input(c)
  PROVE  AskedInv'
<1> DEFINE x == io.fds[c].in
<1>1. conn[c].state # "PENALTY_BOX" /\ io.file[x] = [of |-> c, end |-> "in"] /\ loop.asking # c
  BY InputServed
<1>2. ASSUME NEW n \in 1 .. Len(fromBack[c]),
             conn' = [conn EXCEPT ![c].bin = SubSeq(fromBack[c], 1, n)],
             fromBack' = [fromBack EXCEPT ![c] = SubSeq(@, n + 1, Len(@))],
             loop' = [loop EXCEPT !.pc = "next", !.serving = c],
             UNCHANGED <<toBack, be>>
      PROVE  AskedInv'
  <2> DEFINE q == SubSeq(fromBack[c], 1, n)
             rest == SubSeq(fromBack[c], n + 1, Len(fromBack[c]))
  <2>1. fromBack[c] \in Seq(Unasking) => q \in Seq(Unasking) /\ rest \in Seq(Unasking)
    BY <1>2, CutMore
  <2>2. /\ conn' = [conn EXCEPT ![c].bin = q] /\ fromBack' = [fromBack EXCEPT ![c] = rest]
        /\ loop'.asking = loop.asking
    BY <1>2, Fields DEF Loops
  <2> HIDE DEF q, rest
  <2>3. \A d \in Conns : /\ conn'[d].bout = conn[d].bout
                         /\ conn'[d].bin = IF d = c THEN q ELSE conn[d].bin
                         /\ fromBack'[d] = IF d = c THEN rest ELSE fromBack[d]
    BY <2>2, Fields DEF ConnRecords
  <2>4. \A d \in Conns \ {c} : SameAsked(d)
    BY <1>2, <2>2, <2>3 DEF SameAsked
  <2> QED
    BY <1>1, <1>2, <2>1, <2>2, <2>3, <2>4, AskedOne DEF AskedInv
<1>3. CASE Close(c, CloseFds(io, c)) /\ loop' = Left(c)
  <2>1. Stripped(io, c, CloseFds(io, c))
    BY Fields, CloseFdsStrips
  <2>2. loop'.asking = loop.asking
    BY <1>1, <1>3, LeftLoop
  <2> QED
    BY <1>1, <1>3, <2>1, <2>2, AskedClose
<1> QED
  BY <1>1, <1>2, <1>3 DEF Input

LEMMA AskedOutput ==
  ASSUME TypeInv, TypeInv', ServeInv, PipeInv, AskedInv, NEW c \in Conns, Output(c)
  PROVE  AskedInv'
<1> DEFINE x == io.fds[c].out
<1>1. loop.pc = "idle"
  BY DEF Output
<1>2. conn[c].bout # <<>> =>
        conn[c].state # "PENALTY_BOX" /\ io.file[x] = [of |-> c, end |-> "out"]
  BY DEF ServeInv, Serves, PipesOf
<1>3. CASE UNCHANGED <<conn, loop, toBack, fromBack, be>>
  BY <1>3, AskedSame DEF SameAsked
<1>4. ASSUME NEW n \in 1 .. Len(conn[c].bout),
             conn' = [conn EXCEPT ![c] = Written(conn[c], n)],
             toBack' = [toBack EXCEPT ![io.file[x].of] = @ \o SubSeq(conn[c].bout, 1, n)],
             UNCHANGED <<loop, fromBack, be>>
      PROVE  AskedInv'
  <2> DEFINE s == Written(conn[c], n)
             gone == SubSeq(conn[c].bout, 1, n)
             rest == SubSeq(conn[c].bout, n + 1, Len(conn[c].bout))
             more == toBack[c] \o gone
  <2>1. conn[c].bout # <<>>
    BY Fields, CutMore DEF ConnRecords
  <2>2. s.bout = rest /\ s.bin = conn[c].bin
    BY Fields, ZenonT(60) DEF Written, ConnRecords
  <2>3. conn[c].bout \in Seq(Unasked) => gone \in Seq(Unasked) /\ rest \in Seq(Unasked)
    BY <1>4, CutMore
  <2>4. toBack' = [toBack EXCEPT ![c] = more]
    <3>1. io.file[x].of = c
      BY <1>2, <2>1
    <3> QED
      BY <1>4, <3>1
  <2> HIDE DEF s, gone, rest
  <2>5. conn[c].bout \in Seq(Unasked) /\ toBack[c] \in Seq(Unasked) => more \in Seq(Unasked)
    BY <2>3, ConcatProperties
  <2> HIDE DEF more
  <2>6. conn' = [conn EXCEPT ![c] = s]
    BY <1>4 DEF s
  <2>7. \A d \in Conns \ {c} : SameAsked(d)
    BY <1>4, <2>4, <2>6, Fields DEF SameAsked
  <2>8. conn'[c] = s /\ toBack'[c] = more
    BY <2>4, <2>6, Fields
  <2> QED
    BY <1>4, <2>2, <2>3, <2>5, <2>7, <2>8, AskedOne DEF AskedInv
<1>5. CASE BrokenPipe(c)
  BY <1>5, KilledLoop, AskedSame DEF SameAsked
<1> QED
  BY <1>3, <1>4, <1>5 DEF Output

(* Only what was asked for is looked up, and the process has greeted then. *)
LEMMA AskedLine ==
  ASSUME TypeInv, TypeInv', ServeInv, PipeInv, AskedInv, ProcessLine \/ ProcessAnswer
  PROVE  AskedInv'
<1>0. PICK c \in Conns : c = loop.serving
  BY LineStep, AnswerStep
<1>1. conn[c].bin # <<>> /\ conn[c].state # "PENALTY_BOX" /\ Continue(c)
  BY <1>0, LineStep, AnswerStep, ServedOpen
<1>2. loop'.asking = loop.asking /\ loop.asking # c
  <2>1. loop.pc \in {"line", "answer"}
    BY DEF ProcessLine, ProcessAnswer
  <2>2. loop.asking # c
    BY <1>0, <2>1, ConnsNumbers DEF ServeInv, Dialogs
  <2> QED
    BY <1>0, <1>1, <2>2, ContinueLoop
<1>3. ~be[c].greeted => /\ conn[c].bin \in Seq(Unasking) /\ fromBack[c] \in Seq(Unasking)
                        /\ conn[c].bout \in Seq(Unasked) /\ toBack[c] \in Seq(Unasked)
                        /\ Head(conn[c].bin) \in Unasking /\ Tail(conn[c].bin) \in Seq(Unasking)
  BY <1>1, HeadTailProperties DEF AskedInv
<1>4. ASSUME NEW r \in ConnRecords, Handled(c, r), UNCHANGED <<toBack, fromBack, be>>,
             ~be[c].greeted => r.bin \in Seq(Unasking) /\ r.bout \in Seq(Unasked)
      PROVE  AskedInv'
  <2>1. conn' = [conn EXCEPT ![c] = Muted(r)]
    BY <1>4 DEF Handled, Muted
  <2>2. \A d \in Conns \ {c} : SameAsked(d)
    BY <1>2, <1>4, <2>1, Fields DEF SameAsked
  <2>3. conn'[c].bin = r.bin /\ conn'[c].bout = r.bout
    BY <1>4, <2>1, Fields, MutedFields
  <2> QED
    BY <1>2, <1>3, <1>4, <2>2, <2>3, AskedOne
<1>5. CASE ProcessAnswer
  <2> DEFINE r == Respond(Rest(c))
  <2>1. Handled(c, r) /\ r \in ConnRecords /\ UNCHANGED <<toBack, fromBack, be>> /\ loop.pc = "answer"
    BY <1>0, <1>5, AnswerStep
  <2>2. be[c].greeted
    BY <1>0, <1>3, <2>1 DEF PipeInv, Answering, Unasking, DataRequest, Line
  <2> HIDE DEF r
  <2> QED
    BY <1>4, <2>1, <2>2
<1>6. CASE ProcessLine /\ ~Closes(Rest(c), Head(conn[c].bin))
  <2>1. Handled(c, Processed(c)) /\ UNCHANGED <<toBack, fromBack, be>>
    BY <1>0, <1>6, LineStep
  <2>2. Processed(c) \in ConnRecords /\ Processed(c).bin = Tail(conn[c].bin)
    BY <1>1, <1>6, ProcessedFields
  <2>3. ~be[c].greeted => Processed(c).bout \in Seq(Unasked)
    <3>1. Shape(c, Rest(c)) /\ Rest(c).bout = conn[c].bout /\ (c \notin Prompting) \in BOOLEAN
      BY <1>1, ServedLine
    <3> QED
      BY <1>3, <1>6, <3>1, LineUnasked DEF Processed
  <2> QED
    BY <1>3, <1>4, <2>1, <2>2, <2>3
<1>7. CASE ProcessLine /\ Closes(Rest(c), Head(conn[c].bin))
  <2>1. Close(c, CloseFds(io, c)) /\ Stripped(io, c, CloseFds(io, c))
    BY <1>0, <1>7, LineStep, Fields, CloseFdsStrips
  <2> QED
    BY <1>1, <1>2, <2>1, AskedClose
<1> QED
  BY <1>5, <1>6, <1>7

LEMMA AskedDialog ==
  ASSUME TypeInv, ServeInv, AskedInv, TakeLine \/ Answered
  PROVE  AskedInv'
<1>1. UNCHANGED <<toBack, fromBack, be>>
  BY DEF TakeLine, Answered
<1>2. ASSUME NEW c \in Conns, NEW q, conn' = [conn EXCEPT ![c].bin = q], be[c].greeted,
             loop'.asking \in {c, Nobody}
      PROVE  AskedInv'
  <2>1. \A d \in Conns \ {c} : SameAsked(d)
    BY <1>1, <1>2, Fields, ConnsNumbers DEF SameAsked, ConnRecords
  <2> QED
    BY <1>1, <1>2, <2>1, AskedOne
<1>3. CASE TakeLine
  <2>0. PICK c \in Conns : c = loop.serving
    BY <1>3 DEF TakeLine, TypeInv, LoopInv
  <2>1. conn[c].bin # <<>>
    BY <1>3, <2>0 DEF TakeLine, TypeInv, LoopInv
  <2>2. CASE /\ Head(conn[c].bin) = DataRequest
             /\ conn' = [conn EXCEPT ![c].bin = Tail(@)]
             /\ loop' = [pc |-> "idle", serving |-> Nobody, asking |-> c, entered |-> TRUE]
    <3>1. be[c].greeted
      <4>1. conn[c].bin \in Seq(Unasking) => Head(conn[c].bin) \in Unasking
        BY <2>1, HeadTailProperties
      <4>2. DataRequest \notin Unasking
        BY DEF Unasking, DataRequest, Line
      <4> QED
        BY <2>2, <4>1, <4>2 DEF AskedInv
    <3>2. conn' = [conn EXCEPT ![c].bin = Tail(conn[c].bin)]
      BY <2>2
    <3> QED
      BY <1>2, <2>2, <3>1, <3>2
  <2>3. CASE loop' = [loop EXCEPT !.pc = "line"] /\ conn' = conn
    <3>1. loop'.asking = loop.asking
      BY <2>3, Fields DEF Loops
    <3> QED
      BY <1>1, <2>3, <3>1, AskedSame DEF SameAsked
  <2> QED
    BY <1>3, <2>0, <2>2, <2>3 DEF TakeLine
<1>4. CASE Answered
  <2>0. PICK c \in Conns : c = loop.asking
    BY <1>4, PromptingAssumption DEF Answered, ServeInv, Dialogs
  <2>1. be[c].greeted
    BY <2>0 DEF AskedInv
  <2>2. /\ conn' = [conn EXCEPT ![c].bin = <<DataRequest>> \o conn[c].bin]
        /\ loop' = [pc |-> "answer", serving |-> c, asking |-> Nobody, entered |-> FALSE]
    BY <1>4, <2>0 DEF Answered
  <2> QED
    BY <1>2, <2>1, <2>2
<1> QED
  BY <1>3, <1>4

LEMMA AskedBack ==
  ASSUME TypeInv, AskedInv, NEW c \in Conns, BackStep(c)
  PROVE  AskedInv'
<1>1. BackEndStep(c) /\ UNCHANGED <<conn, loop>>
  BY DEF BackStep
<1>2. BackTypeOK
  BY DEF TypeInv, TypeOK
<1>3. \A d \in Conns \ {c} : SameAsked(d)
  BY <1>1, <1>2, BackEndOthers DEF SameAsked
<1>4. CASE Greet(c) \/ Answer(c) \/ Notify(c) \/ Ask(c)
  <2>1. be'[c].greeted
    <3>1. CASE Greet(c)
      BY <3>1, Fields DEF Greet, BackEnds
    <3>2. CASE Answer(c)
      BY <3>2, Fields DEF Answer, BackEnds
    <3>3. CASE Notify(c)
      BY <3>3, Fields DEF Notify, BackEnds
    <3>4. CASE Ask(c)
      BY <3>4, Fields DEF Ask, BackEnds
    <3> QED
      BY <1>4, <3>1, <3>2, <3>3, <3>4
  <2> QED
    BY <1>3, <2>1, AskedOne
<1>5. CASE Chatter(c)
  <2>1. PICK tag \in {"NOTE", "BAD", "OK"} : Say(c, Line(tag, NoArg))
    BY <1>5 DEF Chatter
  <2> DEFINE line == Line(tag, NoArg)
  <2>2. line \in Unasking
    BY DEF Line, Unasking, Lines, LineTags, Statuses
  <2>3. fromBack'[c] = Append(fromBack[c], line) /\ UNCHANGED <<toBack, be>>
    BY <1>5, <2>1, Fields DEF Say, Chatter
  <2> HIDE DEF line
  <2>4. fromBack[c] \in Seq(Unasking) => fromBack'[c] \in Seq(Unasking)
    BY <2>2, <2>3, AppendProperties
  <2> QED
    BY <1>1, <1>3, <2>3, <2>4, AskedOne DEF AskedInv
<1>6. CASE Exit(c)
  <2>1. be'[c].greeted = be[c].greeted
    BY <1>6, Fields DEF Exit, BackEnds
  <2> QED
    BY <1>1, <1>3, <1>6, <2>1, AskedOne DEF AskedInv, Exit
<1> QED
  BY <1>1, <1>4, <1>5, <1>6 DEF BackEndStep

(* A process that has not greeted is sent no data item (PROTO:28), however *)
(* long the user takes and whatever fails meanwhile: the connection he is  *)
(* asked for keeps its process, as its source is not entered again and a   *)
(* write that finds the process gone is netbiff's last.                    *)
THEOREM GtkResponsesRequested == Spec => []ResponsesRequested
<1>1. TypeInv /\ TypeInv' /\ ServeInv /\ PipeInv /\ AskedInv /\ [Next]_vars => AskedInv'
  <2> SUFFICES ASSUME TypeInv, TypeInv', ServeInv, PipeInv, AskedInv, [Next]_vars
               PROVE  AskedInv'
    OBVIOUS
  <2>1. CASE Tick
    <3>1. UNCHANGED <<loop, toBack, fromBack, be>>
      BY <2>1 DEF Tick
    <3> QED
      BY <2>1, <3>1, TickFields, AskedSame DEF SameAsked
  <2>2. CASE image_clicked \/ UNCHANGED vars
    BY <2>2, AskedSame DEF image_clicked, vars, SameAsked
  <2> QED
    BY <2>1, <2>2, AskedRetry, AskedPoll, AskedInput, AskedOutput, AskedLine, AskedDialog,
       AskedBack DEF Next, LoopStep, UserStep, Callback
<1>2. TypeInv /\ AskedInv => ResponsesRequested
  <2> SUFFICES ASSUME AskedInv, NEW c \in Conns, ~be[c].greeted, NEW i \in DOMAIN toBack[c]
               PROVE  toBack[c][i].verb # "DATARESPONSE"
    BY DEF ResponsesRequested
  <2>1. toBack[c] \in Seq(Unasked)
    BY DEF AskedInv
  <2>2. toBack[c][i] \in Unasked
    BY <2>1, ElementOfSeq, LenProperties
  <2> QED
    BY <2>2 DEF Unasked
<1> QED
  BY <1>1, <1>2, AskedInit, TypeInvariant, ServeInvariant, PipeInvariant, PTL DEF Spec
===============================================================================
