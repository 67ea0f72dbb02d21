----------------------------- MODULE TextLoopProof -----------------------------
(***************************************************************************)
(* Proofs about TextLoop for every number of connections, every            *)
(* configuration and every bound: what is open is watched and served,      *)
(* nothing leaks or blocks, the loop goes on, and it implements Frontend,  *)
(* as far as at most one back end fails.                                   *)
(***************************************************************************)
EXTENDS TextLoop, ProtoProof

-------------------------------------------------------------------------------
(* The interface's sets *)

LEMMA MaxOf ==
  ASSUME NEW S \in SUBSET Int, S # {}, NEW b \in Int, \A x \in S : x <= b
  PROVE  Max(S) \in S /\ \A x \in S : x <= Max(S)
<1> DEFINE T == {n \in Nat : \E x \in S : n = b - x}
<1>1. \A x \in S : b - x \in T
  BY DEF T
<1>2. PICK n \in T : \A m \in T : n <= m
  <2>1. T # {} /\ T \in SUBSET Nat
    BY <1>1
  <2> HIDE DEF T
  <2> QED
    BY <2>1, LeastElement
<1>3. PICK x \in S : n = b - x
  BY <1>2
<1>4. \A y \in S : x >= y
  <2>1. \A y \in S : b - x <= b - y
    BY <1>1, <1>2, <1>3
  <2> QED
    BY <2>1
<1> HIDE DEF T
<1>5. Max(S) \in S /\ \A y \in S : Max(S) >= y
  BY <1>4 DEF Max
<1> QED
  BY <1>5

AddedReads(t, types) == {t.fds[c].in : c \in {d \in Conns : "read" \in types[d]}}
AddedWrites(t, types) == {t.fds[c].out : c \in {d \in Conns : "write" \in types[d]}}

LEMMA FdNumbers == Fds \subseteq Int /\ MaxFd \in Nat /\ \A x \in Fds : x <= MaxFd /\ x >= 3
BY FdAssumption DEF Fds

Adds(t, types, u) ==
    /\ u \in IOs /\ u.file = t.file /\ u.fds = t.fds
    /\ u.rfds = t.rfds \cup AddedReads(t, types)
    /\ u.wfds = t.wfds \cup AddedWrites(t, types)
    /\ u.maxfd >= t.maxfd
    /\ \A x \in AddedReads(t, types) \cup AddedWrites(t, types) : x < u.maxfd

LEMMA AddFd ==
  ASSUME NEW t \in IOs, NEW types \in [Conns -> SUBSET {"read", "write"}],
         \A c \in Conns : types[c] # {} => t.fds[c] \in Numbers
  PROVE  Adds(t, types, text_add_fd(t, types))
<1> DEFINE u == text_add_fd(t, types)
           rd == AddedReads(t, types)
           wr == AddedWrites(t, types)
           ends == {t.maxfd} \cup {x + 1 : x \in rd \cup wr}
           rs == t.rfds \cup rd
           ws == t.wfds \cup wr
           m == Max(ends)
<1>1. /\ t.file \in Files /\ t.fds \in [Conns -> FdPairs]
      /\ t.rfds \in SUBSET Fds /\ t.wfds \in SUBSET Fds /\ t.maxfd \in -1 .. MaxFd + 1
  BY DEF IOs
<1>2. u = [t EXCEPT !.rfds = rs, !.wfds = ws, !.maxfd = m]
  BY Zenon DEF text_add_fd, AddedReads, AddedWrites
<1>3. rd \subseteq Fds /\ wr \subseteq Fds
  <2>1. \A c \in Conns : types[c] # {} => t.fds[c].in \in Fds /\ t.fds[c].out \in Fds
    BY DEF Numbers
  <2> QED
    BY <2>1 DEF AddedReads, AddedWrites
<1>4. rs \in SUBSET Fds /\ ws \in SUBSET Fds
  BY <1>1, <1>3
<1> DEFINE new == rd \cup wr
           old == t.maxfd
<1>5. /\ new \subseteq Fds /\ old \in -1 .. MaxFd + 1
      /\ ends = {old} \cup {x + 1 : x \in new}
  BY <1>1, <1>3
<1> HIDE DEF rd, wr, new, old, ends
<1>6. /\ \A x \in new : x + 1 \in -1 .. MaxFd + 1
      /\ old \in Int
  BY <1>5, FdNumbers
<1>8. /\ \A e \in ends : e \in -1 .. MaxFd + 1
      /\ old \in ends /\ \A x \in new : x + 1 \in ends
  BY <1>5, <1>6
<1>9. m \in ends /\ \A x \in ends : x <= m
  <2> DEFINE b == MaxFd + 1
  <2>1. b \in Int /\ \A x \in -1 .. MaxFd + 1 : x \in Int /\ x <= b
    BY FdNumbers
  <2> HIDE DEF b
  <2>2. ends \in SUBSET Int /\ ends # {} /\ \A x \in ends : x <= b
    BY <1>8, <2>1
  <2> QED
    BY <2>1, <2>2, MaxOf
<1> HIDE DEF m
<1>10. m \in -1 .. MaxFd + 1 /\ m >= old /\ \A x \in new : x < m
  <2>1. m \in -1 .. MaxFd + 1 /\ old <= m /\ \A x \in new : x + 1 <= m
    BY <1>8, <1>9
  <2> QED
    BY <1>5, <2>1, FdNumbers
<1> HIDE DEF u, rs, ws, m, rd, wr
<1>7. /\ u \in IOs /\ u.file = t.file /\ u.fds = t.fds
      /\ u.rfds = rs /\ u.wfds = ws /\ u.maxfd = m
  BY <1>1, <1>2, <1>4, <1>10 DEF IOs
<1> QED
  BY <1>7, <1>10 DEF Adds, u, rs, ws, rd, wr, new, old

(* Every number that a record keeps and the interface still looks at is    *)
(* below maxfd.                                                            *)
Spanned(t) == /\ t.maxfd >= 0
              /\ \A d \in Conns : /\ t.fds[d].in \in t.rfds => t.fds[d].in < t.maxfd
                                  /\ t.fds[d].out \in t.wfds => t.fds[d].out < t.maxfd

Deletes(t, c, types, u) ==
    /\ u \in IOs /\ u.file = t.file /\ u.fds = t.fds /\ Spanned(u)
    /\ u.rfds = IF "read" \in types THEN t.rfds \ {t.fds[c].in} ELSE t.rfds
    /\ u.wfds = IF "write" \in types THEN t.wfds \ {t.fds[c].out} ELSE t.wfds

LEMMA DeleteFd ==
  ASSUME NEW t \in IOs, NEW c \in Conns, NEW types \in SUBSET {"read", "write"}
  PROVE  Deletes(t, c, types, text_delete_fd(t, c, types))
<1> DEFINE u == text_delete_fd(t, c, types)
           rs == IF "read" \in types THEN t.rfds \ {t.fds[c].in} ELSE t.rfds
           ws == IF "write" \in types THEN t.wfds \ {t.fds[c].out} ELSE t.wfds
           watched == ({t.fds[d].in : d \in Conns} \cap rs)
                        \cup ({t.fds[d].out : d \in Conns} \cap ws)
           all == {-1} \cup watched
           m == 1 + Max(all)
<1>1. /\ t.file \in Files /\ t.fds \in [Conns -> FdPairs]
      /\ t.rfds \in SUBSET Fds /\ t.wfds \in SUBSET Fds /\ t.maxfd \in -1 .. MaxFd + 1
  BY DEF IOs
<1>2. u = [t EXCEPT !.rfds = rs, !.wfds = ws, !.maxfd = m]
  BY Zenon DEF text_delete_fd
<1>3. rs \in SUBSET Fds /\ ws \in SUBSET Fds
  BY <1>1
<1>4. /\ watched \subseteq Fds
      /\ \A d \in Conns : /\ t.fds[d].in \in rs => t.fds[d].in \in watched
                          /\ t.fds[d].out \in ws => t.fds[d].out \in watched
  BY <1>3
<1> HIDE DEF watched
<1>5. Max(all) \in all /\ \A x \in all : x <= Max(all)
  <2>1. all \in SUBSET Int /\ all # {} /\ MaxFd \in Int /\ \A x \in all : x <= MaxFd
    BY <1>4, FdNumbers
  <2> HIDE DEF all
  <2> QED
    BY <2>1, MaxOf
<1>6. m \in 0 .. MaxFd + 1 /\ \A x \in watched : x < m
  <2> DEFINE top == Max(all)
  <2>1. all \subseteq -1 .. MaxFd /\ -1 \in all /\ watched \subseteq all
    BY <1>4, FdNumbers
  <2> HIDE DEF all
  <2>2. top \in -1 .. MaxFd /\ \A x \in watched : x <= top
    BY <1>5, <2>1
  <2>3. m = 1 + top
    OBVIOUS
  <2> HIDE DEF top, m
  <2> QED
    BY <1>4, <2>2, <2>3, FdNumbers
<1> HIDE DEF u, rs, ws, m
<1>7. /\ u \in IOs /\ u.file = t.file /\ u.fds = t.fds
      /\ u.rfds = rs /\ u.wfds = ws /\ u.maxfd = m
  <2>1. m \in -1 .. MaxFd + 1
    BY <1>6, FdNumbers
  <2> QED
    BY <1>1, <1>2, <1>3, <2>1 DEF IOs
<1>8. Spanned(u)
  <2>1. m >= 0
    BY <1>6
  <2> QED
    BY <1>4, <1>6, <1>7, <2>1, Zenon DEF Spanned
<1> QED
  BY <1>7, <1>8 DEF Deletes, u, rs, ws

(* What closing the descriptors of c leaves of a table.                    *)
Stripped(t, c, u) ==
    /\ u \in IOs /\ u.fds = t.fds /\ u.file = Emptied(t, c) /\ Spanned(u)
    /\ u.rfds = t.rfds \ {t.fds[c].in} /\ u.wfds = t.wfds \ {t.fds[c].out}

LEMMA CloseFdsStrips ==
  ASSUME NEW t \in IOs, NEW c \in Conns
  PROVE  Stripped(t, c, CloseFds(t, c))
<1> DEFINE shut == Shut(t, c)
           u == CloseFds(t, c)
           left == Emptied(t, c)
<1>1. /\ t.file \in Files /\ t.fds \in [Conns -> FdPairs]
      /\ t.rfds \in SUBSET Fds /\ t.wfds \in SUBSET Fds /\ t.maxfd \in -1 .. MaxFd + 1
  BY DEF IOs
<1>2. shut = [t EXCEPT !.file = left]
  BY DEF Shut, Emptied, IOs
<1>3. left \in Files
  BY <1>1 DEF Files, Emptied
<1>4. u = text_delete_fd(shut, c, {"read", "write"})
  BY DEF CloseFds
<1> HIDE DEF left, shut
<1>5. /\ shut \in IOs /\ shut.file = left
      /\ shut.fds = t.fds /\ shut.rfds = t.rfds /\ shut.wfds = t.wfds
  BY <1>1, <1>2, <1>3 DEF IOs
<1>6. /\ u \in IOs /\ u.file = left /\ u.fds = t.fds /\ Spanned(u)
      /\ u.rfds = t.rfds \ {t.fds[c].in} /\ u.wfds = t.wfds \ {t.fds[c].out}
  <2> DEFINE types == {"read", "write"}
  <2>1. types \in SUBSET {"read", "write"}
    OBVIOUS
  <2>2. "read" \in types /\ "write" \in types
    OBVIOUS
  <2>3. u = text_delete_fd(shut, c, types)
    BY <1>4
  <2>4. shut \in IOs
    BY <1>5
  <2> HIDE DEF types, u
  <2>5. Deletes(shut, c, types, u)
    BY <2>1, <2>3, <2>4, DeleteFd
  <2> QED
    BY <1>5, <2>2, <2>5 DEF Deletes
<1> HIDE DEF u
<1> QED
  BY <1>6 DEF Stripped, u, left

-------------------------------------------------------------------------------
(* Types *)

(* Whoever is open, or has lines left to process, was started once, and    *)
(* then has both numbers.                                                  *)
Addressed(s, pair) ==
    pair.in # Unopened \/ s.state # "PENALTY_BOX" \/ s.bin # <<>> => pair \in Numbers

TypeInv == /\ TypeOK
           /\ \A c \in Conns : RecordInv(c, conn[c]) /\ Addressed(conn[c], io.fds[c])
           /\ Owned(io.file, io.fds, OpenIn(conn))
           /\ 1 \in Conns

LEMMA ConnsNumbers ==
  /\ Conns \subseteq Nat /\ Cardinality(Conns) \in Nat
  /\ Conns # {} => 1 \in Conns
  /\ \A c \in Conns : c # Cardinality(Conns) => c + 1 \in Conns
<1>1. Cardinality(Conns) \in Nat
  BY FdAssumption, FS_CardinalityType
<1> DEFINE n == Cardinality(Conns)
<1>2. n \in Nat /\ Conns = 1 .. n
  BY <1>1, ConnsAssumption
<1> HIDE DEF n
<1>3. /\ Conns \subseteq Nat /\ Conns # {} => 1 \in Conns
      /\ \A c \in Conns : c # n => c + 1 \in Conns
  BY <1>2
<1> QED
  BY <1>1, <1>2, <1>3 DEF n

LEMMA TypeInit == ASSUME Conns # {}, Init PROVE TypeInv
<1>1. /\ conn = [c \in Conns |-> connection_init] /\ BackInit
      /\ io = [ file |-> NoFiles, fds |-> [c \in Conns |-> NoFds],
                rfds |-> {}, wfds |-> {}, maxfd |-> -1 ]
      /\ loop = [pc |-> "start", i |-> 1, r |-> {}, w |-> {}, next |-> 0]
  BY DEF Init
<1>2. 1 \in Conns
  BY ConnsNumbers
<1>3. io \in IOs
  <2>1. NoFiles \in Files /\ NoFds \in FdPairs
    BY DEF NoFiles, Files, NoFds, FdPairs
  <2>2. -1 \in -1 .. MaxFd + 1
    BY FdNumbers
  <2> QED
    BY <1>1, <2>1, <2>2 DEF IOs
<1>4. loop \in Loops
  <2>1. 0 \in 0 .. PollFreq
    BY FreqAssumption
  <2> QED
    BY <1>1, <1>2, <2>1 DEF Loops, Points
<1>5. TypeOK
  <2>1. conn \in [Conns -> ConnRecords]
    BY <1>1, InitRecord
  <2>2. BackTypeOK
    BY <1>1, EmptySeq DEF BackInit, BackTypeOK, Gone, BackEnds
  <2> QED
    BY <1>3, <1>4, <2>1, <2>2 DEF TypeOK
<1>6. \A c \in Conns : RecordInv(c, conn[c]) /\ Addressed(conn[c], io.fds[c])
  BY <1>1, InitRecord DEF Addressed, NoFds
<1>7. Owned(io.file, io.fds, OpenIn(conn))
  BY <1>1 DEF Owned, NoFiles
<1> QED
  BY <1>2, <1>5, <1>6, <1>7 DEF TypeInv

LEMMA Fields ==
  ASSUME TypeInv
  PROVE  /\ conn \in [Conns -> ConnRecords] /\ io \in IOs /\ loop \in Loops
         /\ io.file \in Files /\ io.fds \in [Conns -> FdPairs]
         /\ io.rfds \in SUBSET Fds /\ io.wfds \in SUBSET Fds /\ io.maxfd \in -1 .. MaxFd + 1
         /\ toBack \in [Conns -> Seq(Commands)] /\ fromBack \in [Conns -> Seq(Lines)]
         /\ be \in [Conns -> BackEnds]
         /\ loop.i \in Conns /\ loop.r \in SUBSET Fds /\ loop.w \in SUBSET Fds
         /\ \A c \in Conns : conn[c].watch = {}
BY DEF TypeInv, TypeOK, BackTypeOK, IOs, Loops, RecordInv

(* A descriptor at which something can be read or written is in use.       *)
LEMMA InUse ==
  ASSUME TypeInv, NEW x \in Fds, io.file[x].end \in {"in", "out"}
  PROVE  io.file[x] # Free /\ io.file[x] \in Ends /\ io.file[x].of \in Conns
<1>1. io.file[x] \in Ends \cup {Free}
  BY Fields DEF Files
<1>2. io.file[x] # Free
  BY DEF Free
<1> QED
  BY <1>1, <1>2 DEF Ends

(* What the thread does: the steps by what they do to a connection.        *)
LEMMA CloseFacts ==
  ASSUME TypeInv, NEW c \in Conns, Close(c)
  PROVE  /\ Stripped(io, c, io')
         /\ conn' = [conn EXCEPT ![c] = connection_close(@)]
         /\ conn'[c] = connection_close(conn[c])
         /\ conn'[c].state = "PENALTY_BOX" /\ conn'[c].bin = <<>> /\ conn'[c].bout = <<>>
         /\ \A d \in Conns \ {c} : conn'[d] = conn[d]
         /\ LeaveUnheld(io')
<1>1. /\ conn' = [conn EXCEPT ![c] = connection_close(@)] /\ io' = CloseFds(io, c)
      /\ LeaveUnheld(io')
  BY DEF Close
<1>2. io \in IOs /\ conn[c] \in ConnRecords
  BY Fields
<1>3. Stripped(io, c, io')
  BY <1>1, <1>2, CloseFdsStrips
<1>4. conn'[c] = connection_close(conn[c]) /\ \A d \in Conns \ {c} : conn'[d] = conn[d]
  BY <1>1, Fields
<1>5. conn'[c].state = "PENALTY_BOX" /\ conn'[c].bin = <<>> /\ conn'[c].bout = <<>>
  BY <1>2, <1>4 DEF connection_close, ConnRecords
<1> QED
  BY <1>1, <1>3, <1>4, <1>5

(* A handler asked for more to be watched; only c's numbers are.           *)
LEMMA HandledFacts ==
  ASSUME TypeInv, NEW c \in Conns, conn[c].state # "PENALTY_BOX" \/ conn[c].bin # <<>>,
         NEW r \in ConnRecords, Handled(c, r)
  PROVE  /\ io' \in IOs /\ io'.file = io.file /\ io'.fds = io.fds
         /\ io'.rfds = IF "read" \in r.watch THEN io.rfds \cup {io.fds[c].in} ELSE io.rfds
         /\ io'.wfds = IF "write" \in r.watch THEN io.wfds \cup {io.fds[c].out} ELSE io.wfds
         /\ io'.maxfd >= io.maxfd
         /\ "read" \in r.watch => io.fds[c].in < io'.maxfd
         /\ "write" \in r.watch => io.fds[c].out < io'.maxfd
         /\ conn' = [conn EXCEPT ![c] = Muted(r)] /\ conn'[c] = Muted(r)
         /\ \A d \in Conns \ {c} : conn'[d] = conn[d]
<1> DEFINE types == [d \in Conns |-> IF d = c THEN r.watch ELSE {}]
           u == text_add_fd(io, types)
<1>1. io' = u /\ conn' = [conn EXCEPT ![c] = Muted(r)]
  BY DEF Handled, Muted
<1>2. /\ types \in [Conns -> SUBSET {"read", "write"}] /\ types[c] = r.watch
      /\ \A d \in Conns \ {c} : types[d] = {}
  BY DEF ConnRecords
<1> HIDE DEF types, u
<1>3. io.fds[c] \in Numbers /\ io \in IOs
  BY Fields DEF TypeInv, Addressed
<1>4. Adds(io, types, u)
  BY <1>2, <1>3, AddFd DEF u
<1>5. /\ AddedReads(io, types) = IF "read" \in r.watch THEN {io.fds[c].in} ELSE {}
      /\ AddedWrites(io, types) = IF "write" \in r.watch THEN {io.fds[c].out} ELSE {}
  BY <1>2 DEF AddedReads, AddedWrites
<1>6. conn'[c] = Muted(r) /\ \A d \in Conns \ {c} : conn'[d] = conn[d]
  BY <1>1, Fields
<1> QED
  BY <1>1, <1>4, <1>5, <1>6 DEF Adds

(* The connections that are started, and what they get.                    *)
Starts(started) ==
    /\ started \in SUBSET (Conns \ OpenIn(conn))
    /\ io' \in IOs /\ Owned(io'.file, io'.fds, OpenIn(conn) \cup started)
    /\ io'.rfds = io.rfds \cup {io'.fds[c].in : c \in started} /\ io'.wfds = io.wfds
    /\ io'.maxfd >= io.maxfd
    /\ \A c \in started :
         /\ PipesOf(c, io'.file, io'.fds[c]) /\ io'.fds[c].in < io'.maxfd
         /\ WantsRetry(conn[c]) /\ conn'[c] = Muted(proto_init_conn(conn[c]))
         /\ be'[c] = Fresh
    /\ \A c \in Conns \ started :
         /\ io'.fds[c] = io.fds[c] /\ conn'[c] = conn[c] /\ be'[c] = be[c]
         /\ WantsRetry(conn[c]) => "refuse" \in Faults[c]
    /\ \A x \in Fds : io.file[x] # Free => io'.file[x] = io.file[x]
    /\ conn' = [c \in Conns |-> IF c \in started THEN Muted(proto_init_conn(conn[c]))
                                ELSE conn[c]]
    /\ be' = [c \in Conns |-> IF c \in started THEN Fresh ELSE be[c]]
    /\ UNCHANGED <<toBack, fromBack>>

LEMMA RetryOpens ==
  ASSUME TypeInv, proto_do_retries
  PROVE  \E started : Starts(started)
<1>1. PICK started \in SUBSET {c \in Conns : WantsRetry(conn[c])} :
        /\ \A c \in {d \in Conns : WantsRetry(conn[d])} \ started : "refuse" \in Faults[c]
        /\ io' = Opened(io, started)
        /\ conn' = [c \in Conns |-> IF c \in started THEN Muted(proto_init_conn(conn[c]))
                                    ELSE conn[c]]
        /\ be' = [c \in Conns |-> IF c \in started THEN Fresh ELSE be[c]]
  BY DEF proto_do_retries, Muted
<1>2. started \in SUBSET (Conns \ OpenIn(conn)) /\ OpenIn(conn) \in SUBSET Conns
  BY <1>1 DEF OpenIn, WantsRetry
<1>3. PICK file \in Files, fds \in [Conns -> FdPairs] :
        /\ xpopen2(io, started) = Repiped(io, file, fds)
        /\ Owned(file, fds, OpenIn(conn) \cup started)
        /\ \A c \in started : PipesOf(c, file, fds[c])
        /\ \A c \in Conns \ started : fds[c] = io.fds[c]
        /\ \A x \in Fds : io.file[x] # Free => file[x] = io.file[x]
  <2>1. /\ Owned(io.file, io.fds, OpenIn(conn)) /\ Conns \subseteq Nat
        /\ io.file \in Files /\ io.fds \in [Conns -> FdPairs]
    BY Fields, ConnsNumbers DEF TypeInv
  <2> QED
    BY <1>2, <2>1, PipesMade, ZenonT(60)
<1> DEFINE u == Repiped(io, file, fds)
           types == [c \in Conns |-> IF c \in started THEN {"read"} ELSE {}]
<1>4. /\ u \in IOs /\ u.file = file /\ u.fds = fds
      /\ u.rfds = io.rfds /\ u.wfds = io.wfds /\ u.maxfd = io.maxfd
  BY <1>3, Fields DEF IOs, Repiped
<1>5. /\ types \in [Conns -> SUBSET {"read", "write"}]
      /\ \A c \in Conns : types[c] = IF c \in started THEN {"read"} ELSE {}
  OBVIOUS
<1>6. io' = text_add_fd(u, types)
  BY <1>1, <1>3 DEF Opened
<1> HIDE DEF u, types
<1>7. \A c \in Conns : types[c] # {} => u.fds[c] \in Numbers
  BY <1>3, <1>4, <1>5 DEF PipesOf
<1>8. u \in IOs
  BY <1>4
<1>9. Adds(u, types, io')
  BY <1>5, <1>6, <1>7, <1>8, AddFd
<1>10. AddedReads(u, types) = {fds[c].in : c \in started} /\ AddedWrites(u, types) = {}
  BY <1>1, <1>4, <1>5 DEF AddedReads, AddedWrites
<1>11. /\ io' \in IOs /\ io'.file = file /\ io'.fds = fds
       /\ io'.rfds = io.rfds \cup {fds[c].in : c \in started} /\ io'.wfds = io.wfds
       /\ io'.maxfd >= io.maxfd /\ \A c \in started : fds[c].in < io'.maxfd
  BY <1>4, <1>9, <1>10 DEF Adds
<1>12. \A c \in Conns : IF c \in started
                        THEN conn'[c] = Muted(proto_init_conn(conn[c])) /\ be'[c] = Fresh
                        ELSE conn'[c] = conn[c] /\ be'[c] = be[c]
  BY <1>1
<1>13. UNCHANGED <<toBack, fromBack>>
  BY DEF proto_do_retries
<1>14. io'.rfds = io.rfds \cup {io'.fds[c].in : c \in started}
  BY <1>11
<1> QED
  BY <1>1, <1>2, <1>3, <1>11, <1>12, <1>13, <1>14 DEF Starts

LEMMA PolledFields ==
  ASSUME TypeInv, NEW c \in Conns
  PROVE  /\ Polled(c) \in ConnRecords /\ Polled(c).state = conn[c].state
         /\ Polled(c).bin = conn[c].bin
         /\ Polled(c).watch # {} => conn[c].state = "NORMAL"
         /\ \/ Polled(c).watch = {"write"}
               /\ Polled(c).bout = Append(conn[c].bout, Command("POLL", NoArg))
            \/ Polled(c).watch = {} /\ Polled(c).bout = conn[c].bout
<1>1. conn[c] \in ConnRecords /\ conn[c].watch = {}
  BY Fields
<1>2. CASE WantsPoll(conn[c])
  <2>1. Polled(c) = proto_poll_conn(conn[c])
    BY <1>2 DEF Polled
  <2>2. Polled(c).watch = {} \cup {"write"}
    BY <1>1, <2>1, PollQueues DEF Queues
  <2> QED
    BY <1>1, <1>2, <2>1, <2>2, PollFields DEF WantsPoll
<1>3. CASE ~WantsPoll(conn[c])
  BY <1>1, <1>3 DEF Polled
<1> QED
  BY <1>2, <1>3

(* The end of an iteration when it is time to poll.                        *)

LEMMA PollFacts ==
  ASSUME TypeInv, Poll, loop.next = 0
  PROVE  /\ io' \in IOs /\ io'.file = io.file /\ io'.fds = io.fds
         /\ io'.rfds = io.rfds
         /\ io'.wfds = io.wfds \cup {io.fds[c].out : c \in {d \in Conns : "write" \in Polled(d).watch}}
         /\ io'.maxfd >= io.maxfd
         /\ \A c \in Conns : "write" \in Polled(c).watch => io.fds[c].out < io'.maxfd
         /\ \A c \in Conns : conn'[c] = Muted(Polled(c))
         /\ conn' = [c \in Conns |-> Muted(Polled(c))]
<1> DEFINE types == [c \in Conns |-> Polled(c).watch]
           u == text_add_fd(io, types)
           asked == {d \in Conns : "write" \in Polled(d).watch}
<1>1. io' = u /\ conn' = [c \in Conns |-> Muted(Polled(c))]
  BY DEF Poll, Muted
<1>2. /\ types \in [Conns -> SUBSET {"read", "write"}]
      /\ \A c \in Conns : types[c] = Polled(c).watch
  BY PolledFields DEF ConnRecords
<1>3. \A c \in Conns : Polled(c).watch # {} => io.fds[c] \in Numbers
  BY PolledFields DEF TypeInv, Addressed
<1>4. \A c \in Conns : "read" \notin Polled(c).watch
  <2> TAKE c \in Conns
  <2>1. Polled(c).watch = {"write"} \/ Polled(c).watch = {}
    BY PolledFields
  <2> QED
    BY <2>1
<1> HIDE DEF types, u
<1>5. io \in IOs
  BY Fields
<1>6. \A c \in Conns : types[c] # {} => io.fds[c] \in Numbers
  BY <1>2, <1>3
<1>7. Adds(io, types, u)
  BY <1>2, <1>5, <1>6, AddFd DEF u
<1>8. /\ AddedReads(io, types) = {}
      /\ AddedWrites(io, types) = {io.fds[c].out : c \in asked}
  BY <1>2, <1>4 DEF AddedReads, AddedWrites
<1>9. \A c \in Conns : "write" \in Polled(c).watch => io.fds[c].out < u.maxfd
  BY <1>7, <1>8 DEF Adds
<1> QED
  BY <1>1, <1>7, <1>8, <1>9 DEF Adds

(* The line that is processed, and what it makes of the record.            *)
Rest(c) == [conn[c] EXCEPT !.bin = Tail(@)]
Processed(c) == proto_process_line(c, Rest(c), Head(conn[c].bin), TRUE)

LEMMA ServedLine ==
  ASSUME TypeInv, NEW c \in Conns, conn[c].bin # <<>>
  PROVE  /\ Head(conn[c].bin) \in Lines /\ Tail(conn[c].bin) \in Seq(Lines)
         /\ Shape(c, Rest(c)) /\ Rest(c) \in ConnRecords
         /\ Rest(c).state = conn[c].state /\ Rest(c).bin = Tail(conn[c].bin)
         /\ Rest(c).bout = conn[c].bout /\ Rest(c).watch = {}
<1>1. conn[c] \in ConnRecords /\ Shape(c, conn[c]) /\ conn[c].watch = {}
  BY DEF TypeInv, RecordInv, Shape
<1>2. Head(conn[c].bin) \in Lines /\ Tail(conn[c].bin) \in Seq(Lines)
  BY <1>1, HeadTailProperties DEF ConnRecords
<1>3. Shape(c, Rest(c))
  BY <1>1, <1>2, ShapeBin DEF Rest
<1>4. /\ Rest(c).state = conn[c].state /\ Rest(c).bin = Tail(conn[c].bin)
      /\ Rest(c).bout = conn[c].bout /\ Rest(c).watch = {}
  BY <1>1 DEF Rest, ConnRecords
<1> QED
  BY <1>2, <1>3, <1>4 DEF Shape

LEMMA ProcessedFields ==
  ASSUME TypeInv, NEW c \in Conns, conn[c].bin # <<>>,
         ~Closes(Rest(c), Head(conn[c].bin))
  PROVE  /\ Processed(c) \in ConnRecords /\ Processed(c).bin = Tail(conn[c].bin)
         /\ SameSide(conn[c], Processed(c))
         /\ \/ Processed(c).watch = {"write"}
               /\ \E cmd \in Commands : Processed(c).bout = Append(conn[c].bout, cmd)
            \/ Processed(c).watch = {} /\ Processed(c).bout = conn[c].bout
         /\ conn[c].state = "PENALTY_BOX" => Processed(c).bout = conn[c].bout
<1> DEFINE s == Rest(c)
           line == Head(conn[c].bin)
           r == proto_process_line(c, s, line, TRUE)
<1>1. /\ line \in Lines /\ Shape(c, s)
      /\ s.state = conn[c].state /\ s.bin = Tail(conn[c].bin)
      /\ s.bout = conn[c].bout /\ s.watch = {}
  BY ServedLine
<1>2. ~Closes(s, line) /\ TRUE \in BOOLEAN
  OBVIOUS
<1>3. Processed(c) = r
  BY DEF Processed
<1> HIDE DEF s, line
<1>4. /\ Shape(c, r) /\ r.bin = s.bin
      /\ \/ Advances(c, s, line, r)
         \/ Settles(s, line, r)
         \/ Responds(s, line, r)
         \/ IsQuiet(s, line, r)
  BY <1>1, <1>2, LineEffect
<1>5. SameSide(s, r) /\ (Queues(c, s, r) \/ Leaves(s, r))
  BY <1>1, <1>2, LineQueues
<1> HIDE DEF r
<1>6. SameSide(conn[c], r)
  BY <1>1, <1>5 DEF SameSide
<1>7. \/ r.watch = {"write"} /\ \E cmd \in Commands : r.bout = Append(conn[c].bout, cmd)
      \/ r.watch = {} /\ r.bout = conn[c].bout
  <2>1. CASE Queues(c, s, r)
    <3>1. PICK cmd \in OurCommands(c) : r.bout = Append(s.bout, cmd)
      BY <2>1 DEF Queues
    <3>2. cmd \in Commands /\ r.watch = {} \cup {"write"}
      BY <1>1, <2>1 DEF OurCommands, Queues
    <3> QED
      BY <1>1, <3>1, <3>2
  <2>2. CASE Leaves(s, r)
    BY <1>1, <2>2 DEF Leaves
  <2> QED
    BY <1>5, <2>1, <2>2
<1>8. conn[c].state = "PENALTY_BOX" => r.bout = conn[c].bout
  BY <1>1, <1>4 DEF Advances, Settles, Responds, IsQuiet
<1> QED
  BY <1>1, <1>3, <1>4, <1>6, <1>7, <1>8 DEF Shape

LEMMA LineStep ==
  ASSUME TypeInv, ProcessLine
  PROVE  LET c == loop.i
         IN  /\ c \in Conns /\ conn[c].bin # <<>> /\ loop.pc = "line"
             /\ IF Closes(Rest(c), Head(conn[c].bin))
                  THEN Close(c)
                  ELSE /\ Handled(c, Processed(c))
                       /\ UNCHANGED <<toBack, fromBack, be>>
             /\ \/ conn'[c].bin = <<>> /\ Go("write")
                \/ conn'[c].bin # <<>> /\ UNCHANGED loop
BY Fields DEF ProcessLine, Rest, Processed, At

LEMMA Untouched ==
  ASSUME TypeInv, NEW d \in Conns, conn'[d] = conn[d], NEW in
  PROVE  LoopStepOf(d, conn[d], conn'[d], in)
BY Fields DEF LoopStepOf, HandlerStep

LEMMA CloseRecords ==
  ASSUME TypeInv, NEW c \in Conns, Close(c), NEW d \in Conns, NEW in
  PROVE  LoopStepOf(d, conn[d], conn'[d], in)
<1>1. CASE d = c
  <2>1. conn'[d] = connection_close(conn[d]) /\ conn[d] \in ConnRecords
    BY <1>1, CloseFacts, Fields
  <2>2. connection_close(conn[d]).watch = {}
    BY <2>1 DEF connection_close, ConnRecords
  <2> QED
    BY <2>1, <2>2 DEF LoopStepOf, HandlerStep, Shuts
<1>2. CASE d # c
  BY <1>2, CloseFacts, Untouched
<1> QED
  BY <1>1, <1>2

(* What may be read into bin.                                              *)
ReadIn(d, in) ==
    io.fds[d].in \in loop.r /\ io.file[io.fds[d].in].end = "in" =>
      fromBack[io.file[io.fds[d].in].of] \in Seq(in)

LEMMA LoopRecords ==
  ASSUME TypeInv, [Next]_vars, NEW d \in Conns, NEW in, conn[d].bin \in Seq(in), ReadIn(d, in)
  PROVE  LoopStepOf(d, conn[d], conn'[d], in)
<1>0. conn \in [Conns -> ConnRecords] /\ conn[d] \in ConnRecords /\ conn[d].watch = {}
  BY Fields
<1>1. CASE proto_do_retries
  <2>1. PICK started : Starts(started)
    BY <1>1, RetryOpens
  <2>2. CASE d \in started
    <3>1. conn'[d] = Muted(proto_init_conn(conn[d])) /\ WantsRetry(conn[d])
      BY <2>1, <2>2 DEF Starts
    <3> QED
      BY <3>1 DEF LoopStepOf, HandlerStep, Opens
  <2>3. CASE d \notin started
    BY <2>1, <2>3, Untouched DEF Starts
  <2> QED
    BY <2>2, <2>3
<1>2. CASE Poll /\ loop.next = 0
  <2>1. conn'[d] = Muted(Polled(d))
    BY <1>2, PollFacts
  <2>2. HandlerStep(d, conn[d], Polled(d), in)
    BY DEF Polled, HandlerStep, Polls
  <2> QED
    BY <2>1, <2>2 DEF LoopStepOf
<1>3. CASE Read
  <2> DEFINE i == loop.i
             x == io.fds[i].in
             e == io.file[x].of
  <2>1. ASSUME NEW n \in 1 .. Len(fromBack[e]), x \in loop.r, io.file[x].end = "in",
               conn' = [conn EXCEPT ![i].bin = SubSeq(fromBack[e], 1, n)]
        PROVE  LoopStepOf(d, conn[d], conn'[d], in)
    <3>1. CASE d = i
      <4>1. fromBack[e] \in Seq(in)
        BY <2>1, <3>1 DEF ReadIn
      <4> DEFINE q == SubSeq(fromBack[e], 1, n)
      <4>2. q \in Seq(in)
        BY <2>1, <4>1, CutMore
      <4>3. conn'[d] = [conn[d] EXCEPT !.bin = q]
        BY <1>0, <2>1, <3>1
      <4> HIDE DEF q
      <4>4. conn'[d].watch = {}
        BY <1>0, <4>3 DEF ConnRecords
      <4> QED
        BY <4>2, <4>3, <4>4 DEF LoopStepOf, HandlerStep, Reads
    <3>2. CASE d # i
      BY <1>0, <2>1, <3>2, Untouched
    <3> QED
      BY <3>1, <3>2
  <2>2. ASSUME Close(i) PROVE LoopStepOf(d, conn[d], conn'[d], in)
    BY <2>2, CloseRecords, Fields
  <2>3. ASSUME UNCHANGED conn PROVE LoopStepOf(d, conn[d], conn'[d], in)
    BY <2>3, Untouched
  <2> QED
    BY <1>3, <2>1, <2>2, <2>3 DEF Read
<1>4. CASE ProcessLine
  <2> DEFINE c == loop.i
             r == Processed(c)
  <2>1. c \in Conns /\ conn[c].bin # <<>>
    BY <1>4, LineStep
  <2>2. CASE Closes(Rest(c), Head(conn[c].bin))
    <3>1. Close(c)
      BY <1>4, <2>2, LineStep
    <3> QED
      BY <2>1, <3>1, CloseRecords
  <2>3. CASE ~Closes(Rest(c), Head(conn[c].bin))
    <3>1. Handled(c, r) /\ r \in ConnRecords
      BY <1>4, <2>1, <2>3, LineStep, ProcessedFields
    <3>2. conn'[c] = Muted(r) /\ \A e \in Conns \ {c} : conn'[e] = conn[e]
      BY <2>1, <3>1, HandledFacts
    <3>3. HandlerStep(c, conn[c], r, in)
      <4>1. TRUE \in BOOLEAN
        OBVIOUS
      <4> QED
        BY <2>1, <4>1 DEF HandlerStep, Processes, Processed, Rest
    <3> HIDE DEF r
    <3>4. CASE d = c
      BY <3>2, <3>3, <3>4 DEF LoopStepOf
    <3>5. CASE d # c
      BY <3>2, <3>5, Untouched
    <3> QED
      BY <3>4, <3>5
  <2> QED
    BY <2>2, <2>3
<1>5. CASE Write
  <2> DEFINE i == loop.i
  <2>1. ASSUME NEW n \in 1 .. Len(conn[i].bout), conn' = [conn EXCEPT ![i] = Written(conn[i], n)]
        PROVE  LoopStepOf(d, conn[d], conn'[d], in)
    <3>1. CASE d = i
      <4>1. conn'[d] = Written(conn[d], n) /\ n \in 0 .. Len(conn[d].bout)
        BY <1>0, <2>1, <3>1
      <4>2. conn'[d].watch = {}
        BY <1>0, <4>1 DEF Written, ConnRecords
      <4> QED
        BY <4>1, <4>2 DEF LoopStepOf, HandlerStep, Writes
    <3>2. CASE d # i
      BY <1>0, <2>1, <3>2, Untouched
    <3> QED
      BY <3>1, <3>2
  <2>2. ASSUME Close(i) PROVE LoopStepOf(d, conn[d], conn'[d], in)
    BY <2>2, CloseRecords, Fields
  <2>3. ASSUME UNCHANGED conn PROVE LoopStepOf(d, conn[d], conn'[d], in)
    BY <2>3, Untouched
  <2> QED
    BY <1>5, <2>1, <2>2, <2>3 DEF Write
<1>6. CASE Tick
  <2>1. conn'[d] = [conn[d] EXCEPT !.wait = IF @ > 0 THEN @ - 1 ELSE 0]
    BY <1>6 DEF Tick
  <2> QED
    BY <2>1 DEF LoopStepOf, Ages
<1>7. CASE UNCHANGED conn
  BY <1>7, Untouched
<1>8. Poll => loop.next = 0 \/ UNCHANGED conn
  BY DEF Poll
<1> QED
  BY <1>1, <1>2, <1>3, <1>4, <1>5, <1>6, <1>7, <1>8
     DEF Next, LoopStep, Start, Retry, Select, Return, Abort, BackStep, vars

(* Back ends that are left keep nothing; the others keep what they have.   *)
LEMMA UnheldTypes ==
  ASSUME TypeInv, NEW t, LeaveUnheld(t)
  PROVE  BackTypeOK'
<1>1. /\ toBack' = [d \in Conns |-> IF Held(t, d) THEN toBack[d] ELSE <<>>]
      /\ fromBack' = [d \in Conns |-> IF Held(t, d) THEN fromBack[d] ELSE <<>>]
      /\ be' = [d \in Conns |-> IF Held(t, d) THEN be[d] ELSE Gone]
  BY DEF LeaveUnheld
<1>2. Gone \in BackEnds
  BY DEF Gone, BackEnds
<1> QED
  BY <1>1, <1>2, Fields, EmptySeq DEF BackTypeOK

LEMMA BackTypesStep ==
  ASSUME TypeInv, [Next]_vars
  PROVE  BackTypeOK'
<1>0. BackTypeOK
  BY DEF TypeInv, TypeOK
<1>1. CASE proto_do_retries
  <2>1. Fresh \in BackEnds
    BY DEF Fresh, Gone, BackEnds
  <2>2. PICK started : Starts(started)
    BY <1>1, RetryOpens
  <2> QED
    BY <2>1, <2>2, Fields DEF BackTypeOK, Starts
<1>2. ASSUME Close(loop.i) PROVE BackTypeOK'
  BY <1>2, UnheldTypes DEF Close
<1>3. CASE Read
  <2> DEFINE x == io.fds[loop.i].in
             e == io.file[x].of
  <2>1. ASSUME NEW n \in 1 .. Len(fromBack[e]), x \in loop.r, io.file[x].end = "in",
               fromBack' = [fromBack EXCEPT ![e] = SubSeq(@, n + 1, Len(@))],
               UNCHANGED <<toBack, be>>
        PROVE  BackTypeOK'
    <3>1. e \in Conns /\ fromBack[e] \in Seq(Lines)
      BY <2>1, InUse, Fields
    <3>2. SubSeq(fromBack[e], n + 1, Len(fromBack[e])) \in Seq(Lines)
      BY <2>1, <3>1, CutMore
    <3> QED
      BY <2>1, <3>1, <3>2, Fields DEF BackTypeOK
  <2>2. ASSUME UNCHANGED <<toBack, fromBack, be>> PROVE BackTypeOK'
    BY <1>0, <2>2 DEF BackTypeOK
  <2> QED
    BY <1>2, <1>3, <2>1, <2>2 DEF Read
<1>4. CASE Write
  <2> DEFINE i == loop.i
             x == io.fds[i].out
             e == io.file[x].of
  <2>1. ASSUME NEW n \in 1 .. Len(conn[i].bout), x \in loop.w, io.file[x].end = "out",
               toBack' = [toBack EXCEPT ![e] = @ \o SubSeq(conn[i].bout, 1, n)],
               UNCHANGED <<fromBack, be>>
        PROVE  BackTypeOK'
    <3>1. e \in Conns /\ toBack[e] \in Seq(Commands) /\ conn[i].bout \in Seq(Commands)
      BY <2>1, InUse, Fields DEF ConnRecords
    <3>2. SubSeq(conn[i].bout, 1, n) \in Seq(Commands)
      BY <2>1, <3>1, CutMore
    <3>3. toBack[e] \o SubSeq(conn[i].bout, 1, n) \in Seq(Commands)
      BY <3>1, <3>2, ConcatProperties
    <3> QED
      BY <2>1, <3>1, <3>3, Fields DEF BackTypeOK
  <2>2. ASSUME UNCHANGED <<toBack, fromBack, be>> PROVE BackTypeOK'
    BY <1>0, <2>2 DEF BackTypeOK
  <2> QED
    BY <1>2, <1>4, <2>1, <2>2 DEF Write
<1>5. CASE ProcessLine
  BY <1>0, <1>2, <1>5, LineStep DEF BackTypeOK
<1>6. ASSUME NEW c \in Conns, BackStep(c) PROVE BackTypeOK'
  BY <1>0, <1>6, BackEndTypes DEF BackStep
<1>7. CASE UNCHANGED <<toBack, fromBack, be>>
  BY <1>0, <1>7 DEF BackTypeOK
<1> QED
  BY <1>1, <1>3, <1>4, <1>5, <1>6, <1>7
     DEF Next, LoopStep, Start, Retry, Select, Return, Abort, Poll, Tick, vars

(* Descriptors *)
TableInv(records, t) ==
    /\ t \in IOs
    /\ \A c \in Conns : Addressed(records[c], t.fds[c])
    /\ Owned(t.file, t.fds, OpenIn(records))

LEMMA RetryTable ==
  ASSUME TypeInv, proto_do_retries
  PROVE  TableInv(conn', io')
<1>1. PICK started : Starts(started)
  BY RetryOpens
<1>2. \A c \in Conns : conn'[c].state = IF c \in started THEN "WAIT_HELLO" ELSE conn[c].state
  BY <1>1, Fields, InitFields DEF Starts
<1>3. OpenIn(conn') = OpenIn(conn) \cup started
  BY <1>1, <1>2 DEF OpenIn, Starts
<1>4. ASSUME NEW c \in Conns PROVE Addressed(conn'[c], io'.fds[c])
  <2>1. CASE c \in started
    BY <1>1, <2>1 DEF Addressed, PipesOf, Starts
  <2>2. CASE c \notin started
    BY <1>1, <2>2 DEF Addressed, TypeInv, Starts
  <2> QED
    BY <2>1, <2>2
<1> QED
  BY <1>1, <1>3, <1>4 DEF TableInv, Starts

LEMMA CloseTable ==
  ASSUME TypeInv, NEW c \in Conns, Close(c)
  PROVE  TableInv(conn', io')
<1>1. /\ io' \in IOs /\ io'.fds = io.fds /\ io'.file = Emptied(io, c)
      /\ conn'[c].state = "PENALTY_BOX" /\ conn'[c].bin = <<>>
      /\ \A d \in Conns \ {c} : conn'[d] = conn[d]
  BY CloseFacts DEF Stripped
<1>2. OpenIn(conn') = OpenIn(conn) \ {c}
  BY <1>1 DEF OpenIn
<1>3. ASSUME NEW d \in Conns PROVE Addressed(conn'[d], io'.fds[d])
  BY <1>1 DEF Addressed, TypeInv
<1>4. ASSUME NEW x \in Fds, io'.file[x] # Free
      PROVE  io'.file[x].of \in OpenIn(conn') /\ x = Home(io'.fds, io'.file[x])
  <2>1. x \notin {io.fds[c].in, io.fds[c].out} /\ io'.file[x] = io.file[x]
    BY <1>1, <1>4 DEF Emptied
  <2>2. io.file[x].of \in OpenIn(conn) /\ x = Home(io.fds, io.file[x])
    BY <1>4, <2>1 DEF TypeInv, Owned
  <2>3. io.file[x].of # c
    BY <2>1, <2>2 DEF Home
  <2> QED
    BY <1>1, <1>2, <2>1, <2>2, <2>3
<1> QED
  BY <1>1, <1>3, <1>4 DEF TableInv, Owned

LEMMA WrittenFields ==
  ASSUME NEW s \in ConnRecords, NEW n
  PROVE  /\ Written(s, n).state = s.state /\ Written(s, n).bin = s.bin
         /\ Written(s, n).bout = SubSeq(s.bout, n + 1, Len(s.bout))
<1> DEFINE rest == SubSeq(s.bout, n + 1, Len(s.bout))
           w == IF rest = <<>> THEN s.watch \ {"write"} ELSE s.watch
<1>1. Written(s, n) = [s EXCEPT !.bout = rest, !.watch = w]
  BY DEF Written
<1> HIDE DEF rest, w
<1>2. /\ Written(s, n).state = s.state /\ Written(s, n).bin = s.bin
      /\ Written(s, n).bout = rest
  BY <1>1 DEF ConnRecords
<1> QED
  BY <1>2 DEF rest

LEMMA TickFields ==
  ASSUME TypeInv, Tick, NEW d \in Conns
  PROVE  /\ conn'[d].state = conn[d].state /\ conn'[d].bin = conn[d].bin
         /\ conn'[d].bout = conn[d].bout
<1> DEFINE w == IF conn[d].wait > 0 THEN conn[d].wait - 1 ELSE 0
<1>1. conn'[d] = [conn[d] EXCEPT !.wait = w]
  BY DEF Tick
<1> HIDE DEF w
<1> QED
  BY <1>1, Fields DEF ConnRecords

LEMMA SameTable ==
  ASSUME TypeInv, io'.file = io.file, io'.fds = io.fds, io' \in IOs,
         \A d \in Conns : /\ conn'[d].state = conn[d].state
                          /\ conn'[d].bin # <<>> =>
                               conn[d].bin # <<>> \/ io.fds[d].in # Unopened
  PROVE  TableInv(conn', io')
<1>1. OpenIn(conn') = OpenIn(conn)
  BY DEF OpenIn
<1> QED
  BY <1>1 DEF TableInv, TypeInv, Addressed

LEMMA HandledTable ==
  ASSUME TypeInv, NEW c \in Conns, conn[c].bin # <<>>,
         NEW r \in ConnRecords, Handled(c, r), SameSide(conn[c], r)
  PROVE  TableInv(conn', io')
<1>1. /\ io' \in IOs /\ io'.file = io.file /\ io'.fds = io.fds
      /\ conn'[c] = Muted(r) /\ \A d \in Conns \ {c} : conn'[d] = conn[d]
  BY HandledFacts
<1>2. conn'[c].state = r.state
  BY <1>1, MutedFields
<1>3. OpenIn(conn') = OpenIn(conn)
  BY <1>1, <1>2 DEF OpenIn, SameSide
<1>4. ASSUME NEW d \in Conns PROVE Addressed(conn'[d], io'.fds[d])
  <2>1. CASE d = c
    BY <1>1, <2>1 DEF Addressed, TypeInv
  <2>2. CASE d # c
    BY <1>1, <2>2 DEF Addressed, TypeInv
  <2> QED
    BY <2>1, <2>2
<1> QED
  BY <1>1, <1>3, <1>4 DEF TableInv, TypeInv

LEMMA TableStep ==
  ASSUME TypeInv, [Next]_vars
  PROVE  TableInv(conn', io')
<1>0. io \in IOs /\ loop.i \in Conns
  BY Fields
<1>1. CASE proto_do_retries
  BY <1>1, RetryTable
<1>2. CASE Poll /\ loop.next = 0
  <2>1. /\ io' \in IOs /\ io'.file = io.file /\ io'.fds = io.fds
        /\ \A c \in Conns : conn'[c] = Muted(Polled(c))
    BY <1>2, PollFacts
  <2>2. ASSUME NEW c \in Conns
        PROVE  conn'[c].state = conn[c].state /\ conn'[c].bin = conn[c].bin
    BY <2>1, PolledFields, MutedFields
  <2> QED
    BY <2>1, <2>2, SameTable
<1>3. CASE Read
  <2> DEFINE i == loop.i
             x == io.fds[i].in
  <2>1. ASSUME NEW q, x \in loop.r, conn' = [conn EXCEPT ![i].bin = q], io' = io
        PROVE  TableInv(conn', io')
    <3>1. x # Unopened
      BY <2>1, Fields, FdNumbers DEF Unopened
    <3>2. \A d \in Conns : /\ conn'[d].state = conn[d].state
                           /\ d # i => conn'[d].bin = conn[d].bin
      BY <2>1, Fields, SMTT(30) DEF ConnRecords
    <3> QED
      BY <1>0, <2>1, <3>1, <3>2, SameTable
  <2>2. ASSUME UNCHANGED <<conn, io>> PROVE TableInv(conn', io')
    BY <1>0, <2>2, SameTable
  <2> QED
    BY <1>0, <1>3, <2>1, <2>2, CloseTable DEF Read
<1>4. CASE ProcessLine
  <2> DEFINE c == loop.i
  <2>1. c \in Conns /\ conn[c].bin # <<>>
    BY <1>4, LineStep
  <2>2. CASE Closes(Rest(c), Head(conn[c].bin))
    BY <1>4, <2>1, <2>2, LineStep, CloseTable
  <2>3. CASE ~Closes(Rest(c), Head(conn[c].bin))
    <3>1. Handled(c, Processed(c))
      BY <1>4, <2>3, LineStep
    <3>2. Processed(c) \in ConnRecords /\ SameSide(conn[c], Processed(c))
      BY <2>1, <2>3, ProcessedFields
    <3> QED
      BY <2>1, <3>1, <3>2, HandledTable
  <2> QED
    BY <2>2, <2>3
<1>5. CASE Write
  <2> DEFINE i == loop.i
             u == text_delete_fd(io, i, {"write"})
  <2>1. ASSUME io' = io \/ io' = u,
               \A d \in Conns : conn'[d].state = conn[d].state /\ conn'[d].bin = conn[d].bin
        PROVE  TableInv(conn', io')
    <3>1. {"write"} \in SUBSET {"read", "write"}
      OBVIOUS
    <3>2. Deletes(io, i, {"write"}, u)
      BY <1>0, <3>1, DeleteFd
    <3>3. io' \in IOs /\ io'.file = io.file /\ io'.fds = io.fds
      <4> HIDE DEF u
      <4> QED
        BY <1>0, <2>1, <3>2 DEF Deletes
    <3> QED
      BY <2>1, <3>3, SameTable
  <2>2. ASSUME NEW n, conn' = [conn EXCEPT ![i] = Written(conn[i], n)]
        PROVE  \A d \in Conns : conn'[d].state = conn[d].state /\ conn'[d].bin = conn[d].bin
    <3> TAKE d \in Conns
    <3>1. conn'[d] = IF d = i THEN Written(conn[i], n) ELSE conn[d]
      BY <2>2, Fields
    <3> QED
      BY <1>0, <3>1, Fields, WrittenFields
  <2> QED
    BY <1>0, <1>5, <2>1, <2>2, CloseTable DEF Write
<1>6. CASE Tick
  <2>1. io' = io
    BY <1>6 DEF Tick
  <2>2. \A d \in Conns : conn'[d].state = conn[d].state /\ conn'[d].bin = conn[d].bin
    BY <1>6, TickFields
  <2> QED
    BY <1>0, <2>1, <2>2, SameTable
<1>7. CASE UNCHANGED <<conn, io>>
  BY <1>0, <1>7, SameTable
<1>8. Poll => loop.next = 0 \/ UNCHANGED <<conn, io>>
  BY DEF Poll
<1> QED
  BY <1>1, <1>2, <1>3, <1>4, <1>5, <1>6, <1>7, <1>8
     DEF Next, LoopStep, Start, Retry, Select, Return, Abort, BackStep, vars

(* Where the thread is *)
LEMMA GoFields ==
  ASSUME TypeInv, NEW pc \in Points, Go(pc)
  PROVE  /\ loop' \in Loops /\ loop'.pc = pc /\ loop'.i = loop.i
         /\ loop'.r = loop.r /\ loop'.w = loop.w /\ loop'.next = loop.next
BY Fields DEF Go, Loops

LEMMA NextConnFields ==
  ASSUME TypeInv, NextConn
  PROVE  /\ loop' \in Loops
         /\ \/ loop'.pc = "poll" /\ loop'.r = {} /\ loop'.w = {}
            \/ /\ loop'.pc = "read" /\ loop'.i = loop.i + 1
               /\ loop'.r = loop.r /\ loop'.w = loop.w
<1>1. CASE loop.i = Cardinality(Conns)
  BY <1>1, Fields DEF NextConn, Loops, Points, TypeInv
<1>2. CASE loop.i # Cardinality(Conns)
  <2>1. loop' = [loop EXCEPT !.pc = "read", !.i = loop.i + 1]
    BY <1>2 DEF NextConn
  <2>2. loop.i + 1 \in Conns
    BY <1>2, Fields, ConnsNumbers
  <2> QED
    BY <2>1, <2>2, Fields DEF Loops, Points
<1> QED
  BY <1>1, <1>2

LEMMA LoopsStep ==
  ASSUME TypeInv, [Next]_vars
  PROVE  loop' \in Loops
<1> USE DEF Points
<1>0. loop \in Loops
  BY Fields
<1>1. CASE Retry
  BY <1>0, <1>1 DEF Retry, Loops, TypeInv
<1>2. CASE Select
  <2>1. ReadyToRead \in SUBSET Fds /\ ReadyToWrite \in SUBSET Fds
    BY Fields DEF ReadyToRead, ReadyToWrite
  <2> QED
    BY <1>0, <1>2, <2>1 DEF Select, Loops
<1>3. CASE Tick
  <2> DEFINE k == IF loop.next > 0 THEN loop.next - 1 ELSE 0
  <2>1. loop' = [loop EXCEPT !.next = k]
    BY <1>3 DEF Tick
  <2>2. k \in 0 .. PollFreq
    BY <1>0, FreqAssumption DEF Loops
  <2> HIDE DEF k
  <2> QED
    BY <1>0, <2>1, <2>2 DEF Loops
<1>4. CASE Poll
  <2>1. PollFreq \in 0 .. PollFreq
    BY FreqAssumption
  <2> QED
    BY <1>0, <1>4, <2>1, GoFields DEF Poll, Loops
<1>5. CASE Write
  BY <1>5, NextConnFields DEF Write
<1>6. CASE \E pc \in Points : Go(pc)
  BY <1>6, GoFields
<1>7. CASE UNCHANGED loop
  BY <1>0, <1>7
<1>8. ProcessLine => UNCHANGED loop \/ \E pc \in Points : Go(pc)
  BY DEF ProcessLine
<1>9. Start \/ Return \/ Abort \/ Read => \E pc \in Points : Go(pc)
  BY DEF Start, Return, Abort, Read
<1> QED
  BY <1>1, <1>2, <1>3, <1>4, <1>5, <1>6, <1>7, <1>8, <1>9
     DEF Next, LoopStep, BackStep, vars

LEMMA ConnFunction ==
  ASSUME TypeInv, [Next]_vars
  PROVE  conn' = [c \in Conns |-> conn'[c]]
BY Fields DEF Next, LoopStep, BackStep, Start, Select, Return, Retry, Abort, Read, ProcessLine,
              Write, Poll, proto_do_retries, Close, Handled, Tick, vars

LEMMA TypeStep == TypeInv /\ [Next]_vars => TypeInv'
<1> SUFFICES ASSUME TypeInv, [Next]_vars PROVE TypeInv'
  OBVIOUS
<1>1. \A c \in Conns : RecordInv(c, conn'[c])
  <2>1. SUFFICES ASSUME NEW c \in Conns PROVE RecordInv(c, conn'[c])
    OBVIOUS
  <2>2. conn[c].bin \in Seq(Lines)
    BY Fields DEF ConnRecords
  <2>3. ReadIn(c, Lines)
    BY InUse, Fields DEF ReadIn
  <2>4. LoopStepOf(c, conn[c], conn'[c], Lines)
    BY <2>2, <2>3, LoopRecords
  <2> QED
    BY <2>4, RecordInvStep DEF TypeInv
<1>2. conn' \in [Conns -> ConnRecords]
  <2>1. \A c \in Conns : conn'[c] \in ConnRecords
    BY <1>1 DEF RecordInv, Shape
  <2>2. conn' = [c \in Conns |-> conn'[c]]
    BY ConnFunction
  <2> QED
    BY <2>1, <2>2
<1>3. TableInv(conn', io')
  BY TableStep
<1>4. BackTypeOK' /\ loop' \in Loops
  BY BackTypesStep, LoopsStep
<1>5. TypeOK'
  BY <1>2, <1>3, <1>4 DEF TypeOK, TableInv
<1> QED
  BY <1>1, <1>3, <1>5 DEF TypeInv, TableInv

LEMMA TypeInvariant == ASSUME Conns # {} PROVE Spec => []TypeInv
BY TypeInit, TypeStep, PTL DEF Spec

(* Every variable keeps its type, whatever the back ends do and however    *)
(* many connections lose their descriptors to others: maxfd stays in the   *)
(* kernel's range, nothing is asked for under a number that was never      *)
(* assigned, the penalty and the time to wait stay within their bounds,    *)
(* and there is always a pair of descriptors for a connection that is      *)
(* started (gui_text.c:97-155, xlib.c:66-92).  With no connection at all   *)
(* the first select fails and netbiff ends.                                *)
THEOREM TextTypeOK == ASSUME Conns # {} PROVE Spec => []TypeOK
<1>1. TypeInv => TypeOK
  BY DEF TypeInv
<1> QED
  BY <1>1, TypeInvariant, PTL

-------------------------------------------------------------------------------
(* One back end that can make the front end close its connection           *)

MayClose(c) == Faults[c] \cap {"exit", "junk"} # {} \/ "NO" \in Replies
OneCloses == \A c, d \in Conns : MayClose(c) /\ MayClose(d) => c = d

(* Lines nothing is closed for.                                            *)
TameLines == {line \in Lines : line.tag \notin {"BAD", "NO"}}

(* A connection that cannot fail is never closed once it is open, ...      *)
Tame(c) == ~MayClose(c) => /\ Open(c) => be[c].up
                           /\ ~Open(c) => io.fds[c] = NoFds
                           /\ fromBack[c] \in Seq(TameLines)

(* ... an open one has its pipes, and only an open one has something to be *)
(* closed for, or to write.                                                *)
Keeps(c) == /\ Open(c) => PipesOf(c, io.file, io.fds[c])
            /\ ~Open(c) => conn[c].bout = <<>>
            /\ conn[c].bin \in Seq(TameLines) \/ (MayClose(c) /\ Open(c))

(* The sets hold what is open, below maxfd.                                *)
SetsInv == /\ \A x \in io.rfds : io.file[x].end = "in" /\ x < io.maxfd
           /\ \A x \in io.wfds : io.file[x].end = "out" /\ x < io.maxfd
           /\ io.maxfd < 0 => \A c \in Conns : io.fds[c] = NoFds

(* What select found to read is still open, or the connection that failed  *)
(* has closed it in its turn.                                              *)
Served(j, l) == \/ l.pc # "retry" /\ j < l.i
                \/ l.pc = "write" /\ j = l.i
Found(file, l) ==
    l.pc \in {"retry", "read", "line", "write"} =>
      \A x \in l.r : \/ file[x].end = "in"
                     \/ file[x] = Free /\ \E j \in Conns : MayClose(j) /\ Served(j, l)

KeptInv == /\ \A c \in Conns : Tame(c) /\ Keeps(c)
           /\ SetsInv
           /\ Found(io.file, loop)
           /\ StopsOnlyUnopened

LEMMA KeptInit == ASSUME Init PROVE KeptInv
<1>1. /\ conn = [c \in Conns |-> connection_init] /\ BackInit
      /\ io = [ file |-> NoFiles, fds |-> [c \in Conns |-> NoFds],
                rfds |-> {}, wfds |-> {}, maxfd |-> -1 ]
      /\ loop = [pc |-> "start", i |-> 1, r |-> {}, w |-> {}, next |-> 0]
  BY DEF Init
<1>2. ASSUME NEW c \in Conns PROVE Tame(c) /\ Keeps(c)
  <2>1. conn[c] = connection_init /\ fromBack[c] = <<>> /\ io.fds[c] = NoFds
    BY <1>1 DEF BackInit
  <2> QED
    BY <2>1, InitRecord, EmptySeq DEF Tame, Keeps, Open
<1>3. SetsInv
  BY <1>1 DEF SetsInv
<1> QED
  BY <1>1, <1>2, <1>3 DEF KeptInv, Found, StopsOnlyUnopened, At

(* A back end that cannot fail stays, and says nothing that closes.        *)
LEMMA SayTame ==
  ASSUME BackTypeOK, NEW c \in Conns, fromBack[c] \in Seq(TameLines),
         NEW line \in TameLines, Say(c, line)
  PROVE  fromBack'[c] \in Seq(TameLines)
<1>1. fromBack'[c] = Append(fromBack[c], line)
  BY DEF Say, BackTypeOK
<1> QED
  BY <1>1, AppendProperties

LEMMA BackTame ==
  ASSUME BackTypeOK, NEW d \in Conns, BackEndStep(d), NEW c \in Conns, ~MayClose(c),
         fromBack[c] \in Seq(TameLines)
  PROVE  fromBack'[c] \in Seq(TameLines) /\ (be[c].up => be'[c].up)
<1>0. be \in [Conns -> BackEnds] /\ be[c] \in BackEnds
  BY DEF BackTypeOK
<1>1. CASE d # c
  BY <1>1, BackEndOthers
<1> SUFFICES ASSUME d = c PROVE fromBack'[c] \in Seq(TameLines) /\ (be[c].up => be'[c].up)
  BY <1>1
<1>2. /\ \A t \in {"OK", "DATAREQUEST", "NOTE"} : Line(t, NoArg) \in TameLines
      /\ \A t \in {"UPDATE", "RESET"}, f \in Names : Line(t, f) \in TameLines
  BY DEF Line, Lines, LineTags, Statuses, TameLines
<1>3. Replies \subseteq {"OK"} /\ "exit" \notin Faults[c] /\ "junk" \notin Faults[c]
  BY RepliesAssumption DEF MayClose, Statuses
<1>4. CASE Greet(c)
  <2>1. fromBack'[c] \in Seq(TameLines)
    BY <1>2, <1>3, <1>4, SayTame DEF Greet
  <2> QED
    BY <1>0, <1>4, <2>1 DEF Greet, BackEnds
<1>5. CASE Answer(c)
  <2> DEFINE cmd == Head(toBack[c])
  <2>1. PICK status \in Replies :
          /\ Say(c, Line(status, NoArg))
          /\ be' = [be EXCEPT ![c].known  = IF cmd.verb = "FOLDER" /\ status = "OK"
                                              THEN @ \cup {cmd.arg} ELSE @,
                              ![c].asking = FALSE]
    BY <1>5 DEF Answer
  <2> DEFINE kn == IF cmd.verb = "FOLDER" /\ status = "OK"
                     THEN be[c].known \cup {cmd.arg} ELSE be[c].known
  <2>2. be' = [be EXCEPT ![c] = [be[c] EXCEPT !.known = kn, !.asking = FALSE]]
    BY <1>0, <2>1
  <2>3. fromBack'[c] \in Seq(TameLines)
    BY <1>2, <1>3, <2>1, SayTame
  <2> HIDE DEF kn, cmd
  <2>4. be'[c].up = be[c].up
    BY <1>0, <2>2 DEF BackEnds
  <2> QED
    BY <2>3, <2>4
<1>6. CASE Notify(c)
  <2>1. PICK f \in Spoken(c) :
          \/ Say(c, Line("UPDATE", f)) /\ be' = [be EXCEPT ![c].news = @ \cup {f}]
          \/ Say(c, Line("RESET", f)) /\ be' = [be EXCEPT ![c].news = @ \ {f}]
    BY <1>6 DEF Notify
  <2>2. f \in Names
    BY <1>0 DEF BackEnds, Spoken
  <2>3. fromBack'[c] \in Seq(TameLines)
    BY <1>2, <2>1, <2>2, SayTame
  <2>4. be'[c].up = be[c].up
    BY <1>0, <2>1 DEF BackEnds
  <2> QED
    BY <2>3, <2>4
<1>7. CASE Ask(c)
  <2>1. fromBack'[c] \in Seq(TameLines)
    BY <1>2, <1>7, SayTame DEF Ask
  <2> QED
    BY <1>0, <1>7, <2>1 DEF Ask, BackEnds
<1>8. CASE Chatter(c)
  <2>1. fromBack'[c] \in Seq(TameLines)
    BY <1>2, <1>3, <1>8, SayTame DEF Chatter
  <2> QED
    BY <1>8, <2>1 DEF Chatter
<1>9. CASE Exit(c)
  BY <1>3, <1>9 DEF Exit
<1> QED
  BY <1>4, <1>5, <1>6, <1>7, <1>8, <1>9 DEF BackEndStep

(* Only the connection that can make the front end close it is closed, and *)
(* only while it is open.                                                  *)
Closing(c) == /\ MayClose(c) /\ Open(c) /\ c = loop.i /\ Close(c)
              /\ \/ loop.pc \in {"read", "line"} /\ Go("write")
                 \/ loop.pc = "write" /\ NextConn

LEMMA ReadCloses ==
  ASSUME OneCloses, TypeInv, KeptInv, At("read"), NEW x, x = io.fds[loop.i].in, x \in loop.r,
         io.file[x].end = "in" => ~be[io.file[x].of].up
  PROVE  MayClose(loop.i) /\ Open(loop.i)
<1> DEFINE i == loop.i
<1>1. /\ i \in Conns /\ x \in Fds /\ Tame(i) /\ Keeps(i)
      /\ \/ io.file[x].end = "in"
         \/ io.file[x] = Free /\ \E j \in Conns : MayClose(j) /\ j < i
  BY Fields DEF KeptInv, Found, At, Served
<1>2. CASE Open(i)
  <2>1. io.file[x].end = "in" /\ io.file[x].of = i
    BY <1>1, <1>2 DEF Keeps, PipesOf
  <2> QED
    BY <1>1, <1>2, <2>1, SMTT(30) DEF Tame
<1>3. CASE ~Open(i)
  <2>1. MayClose(i)
    BY <1>1, <1>3, FdNumbers DEF Tame, NoFds, Unopened
  <2>2. CASE io.file[x].end = "in"
    <3> DEFINE d == io.file[x].of
    <3>1. io.file[x] # Free /\ d \in Conns
      BY <1>1, <2>2, InUse
    <3>2. d \in OpenIn(conn)
      BY <1>1, <3>1 DEF TypeInv, Owned
    <3>3. Open(d) /\ ~MayClose(d)
      BY <1>1, <1>3, <2>1, <3>1, <3>2 DEF OpenIn, Open, OneCloses
    <3>4. be[d].up
      BY <3>1, <3>3 DEF KeptInv, Tame
    <3> QED
      BY <2>2, <3>4
  <2>3. CASE \E j \in Conns : MayClose(j) /\ j < i
    <3>1. i < i
      BY <1>1, <2>1, <2>3 DEF OneCloses
    <3>2. i \in Nat
      BY <1>1, ConnsNumbers
    <3> QED
      BY <3>1, <3>2
  <2> QED
    BY <1>1, <2>2, <2>3
<1> QED
  BY <1>2, <1>3

LEMMA LineCloses ==
  ASSUME TypeInv, KeptInv, NEW c \in Conns, conn[c].bin # <<>>,
         Closes(Rest(c), Head(conn[c].bin))
  PROVE  MayClose(c) /\ Open(c)
<1>1. Head(conn[c].bin).tag \in {"BAD", "NO"}
  BY DEF Closes
<1>2. conn[c].bin \notin Seq(TameLines)
  <2>1. SUFFICES ASSUME conn[c].bin \in Seq(TameLines) PROVE FALSE
    OBVIOUS
  <2>2. Head(conn[c].bin) \in TameLines
    BY <2>1, HeadTailProperties
  <2> QED
    BY <1>1, <2>2 DEF TameLines
<1> QED
  BY <1>2 DEF KeptInv, Keeps

LEMMA WriteCloses ==
  ASSUME TypeInv, KeptInv, NEW c \in Conns, conn[c].bout # <<>>,
         NEW x, x = io.fds[c].out, io.file[x].end = "out" => ~be[io.file[x].of].up
  PROVE  MayClose(c) /\ Open(c)
<1>1. Tame(c) /\ Keeps(c)
  BY DEF KeptInv
<1>2. Open(c)
  BY <1>1 DEF Keeps
<1>3. io.file[x].end = "out" /\ io.file[x].of = c
  BY <1>1, <1>2 DEF Keeps, PipesOf
<1> QED
  BY <1>1, <1>2, <1>3 DEF Tame

(* What each part of the invariant asks of a step that leaves the          *)
(* descriptors where they are, ...                                         *)
LEMMA KeptSame ==
  ASSUME TypeInv, KeptInv, io'.file = io.file, io'.fds = io.fds, NEW d \in Conns,
         conn'[d].state = conn[d].state,
         conn'[d].bout = conn[d].bout \/ Open(d),
         conn'[d].bin = conn[d].bin \/ conn'[d].bin \in Seq(TameLines) \/ (MayClose(d) /\ Open(d)),
         ~MayClose(d) => (be[d].up => be'[d].up) /\ fromBack'[d] \in Seq(TameLines)
  PROVE  Tame(d)' /\ Keeps(d)'
<1>1. Tame(d) /\ Keeps(d) /\ (Open(d)' <=> Open(d))
  BY DEF KeptInv, Open
<1> QED
  BY <1>1 DEF Tame, Keeps, PipesOf

(* ... of one that watches more, ...                                       *)
LEMMA SetsGrow ==
  ASSUME TypeInv, KeptInv, io' \in IOs, io'.maxfd >= io.maxfd,
         \A x \in io'.rfds : \/ x \in io.rfds /\ io'.file[x] = io.file[x]
                             \/ io'.file[x].end = "in" /\ x < io'.maxfd,
         \A x \in io'.wfds : \/ x \in io.wfds /\ io'.file[x] = io.file[x]
                             \/ io'.file[x].end = "out" /\ x < io'.maxfd,
         io'.maxfd < 0 => \A c \in Conns : io'.fds[c] = io.fds[c]
  PROVE  SetsInv'
<1>1. SetsInv
  BY DEF KeptInv
<1>2. /\ io.maxfd \in Int /\ io'.maxfd \in Int
      /\ \A x \in io.rfds \cup io.wfds : x \in Int
  <2>1. -1 .. MaxFd + 1 \subseteq Int
    BY FdNumbers
  <2>2. io.maxfd \in -1 .. MaxFd + 1 /\ io'.maxfd \in -1 .. MaxFd + 1
    BY Fields DEF IOs
  <2>3. io.rfds \subseteq Int /\ io.wfds \subseteq Int
    BY Fields, FdNumbers
  <2> QED
    BY <2>1, <2>2, <2>3
<1> DEFINE m == io.maxfd
           n == io'.maxfd
<1>3. \A x \in Int : x < m => x < n
  BY <1>2
<1>4. \A x \in io.rfds \cup io.wfds : x < m => x < n
  BY <1>2, <1>3
<1>5. n < 0 => m < 0
  BY <1>2
<1> HIDE DEF m, n
<1>6. /\ \A x \in io.rfds : io.file[x].end = "in" /\ x < m
      /\ \A x \in io.wfds : io.file[x].end = "out" /\ x < m
      /\ m < 0 => \A c \in Conns : io.fds[c] = NoFds
  BY <1>1 DEF SetsInv, m
<1>7. \A x \in io'.rfds : io'.file[x].end = "in" /\ x < n
  BY <1>4, <1>6 DEF n
<1>8. \A x \in io'.wfds : io'.file[x].end = "out" /\ x < n
  BY <1>4, <1>6 DEF n
<1>9. n < 0 => \A c \in Conns : io'.fds[c] = NoFds
  BY <1>5, <1>6 DEF n
<1> QED
  BY <1>7, <1>8, <1>9 DEF SetsInv, n

(* ... or less, ...                                                        *)
LEMMA SetsShrink ==
  ASSUME NEW t \in IOs, NEW open \in SUBSET Conns, Owned(t.file, t.fds, open), Spanned(t),
         \A x \in t.rfds : t.file[x].end = "in", \A x \in t.wfds : t.file[x].end = "out"
  PROVE  /\ \A x \in t.rfds : t.file[x].end = "in" /\ x < t.maxfd
         /\ \A x \in t.wfds : t.file[x].end = "out" /\ x < t.maxfd
         /\ ~(t.maxfd < 0)
<1>1. t.rfds \subseteq Fds /\ t.wfds \subseteq Fds /\ t.maxfd \in Int
  BY FdNumbers DEF IOs
<1>2. ASSUME NEW x \in t.rfds PROVE x < t.maxfd
  <2>1. t.file[x] # Free /\ t.file[x].end = "in"
    BY DEF Free
  <2>2. t.file[x].of \in Conns /\ x = t.fds[t.file[x].of].in
    BY <1>1, <2>1 DEF Owned, Home
  <2> QED
    BY <2>2 DEF Spanned
<1>3. ASSUME NEW x \in t.wfds PROVE x < t.maxfd
  <2>1. t.file[x] # Free /\ t.file[x].end # "in"
    BY DEF Free
  <2>2. t.file[x].of \in Conns /\ x = t.fds[t.file[x].of].out
    BY <1>1, <2>1 DEF Owned, Home
  <2> QED
    BY <2>2 DEF Spanned
<1>4. ~(t.maxfd < 0)
  BY <1>1 DEF Spanned
<1> QED
  BY <1>2, <1>3, <1>4

(* ... and of the thread going on.                                         *)
Serving == {"retry", "read", "line", "write"}
Onward == loop'.pc \in Serving =>
            /\ loop.pc \in Serving /\ loop'.r \subseteq loop.r
            /\ \A j \in Conns : Served(j, loop) => Served(j, loop')

LEMMA FoundKept ==
  ASSUME TypeInv, KeptInv, Onward,
         loop'.pc \in Serving => \A x \in loop'.r :
           /\ io.file[x].end = "in" =>
                \/ io'.file[x] = io.file[x]
                \/ io'.file[x] = Free /\ \E j \in Conns : MayClose(j) /\ Served(j, loop')
           /\ io.file[x] = Free /\ (\E j \in Conns : Served(j, loop)) => io'.file[x] = Free
  PROVE  Found(io'.file, loop')
<1> SUFFICES ASSUME loop'.pc \in Serving, NEW x \in loop'.r
             PROVE  \/ io'.file[x].end = "in"
                    \/ io'.file[x] = Free /\ \E j \in Conns : MayClose(j) /\ Served(j, loop')
  BY DEF Found, Serving
<1>1. /\ x \in loop.r
      /\ \A j \in Conns : Served(j, loop) => Served(j, loop')
      /\ \/ io.file[x].end = "in"
         \/ io.file[x] = Free /\ \E j \in Conns : MayClose(j) /\ Served(j, loop)
  BY DEF Onward, Serving, KeptInv, Found
<1> QED
  BY <1>1

LEMMA GoOnward ==
  ASSUME TypeInv, NEW pc \in Points, Go(pc),
         pc \in Serving => loop.pc \in {"read", "line", "write"} /\ pc \in {"line", "write"},
         loop.pc = "write" => pc = "write"
  PROVE  Onward
<1>1. loop'.pc = pc /\ loop'.i = loop.i /\ loop'.r = loop.r
  BY GoFields
<1> QED
  BY <1>1 DEF Onward, Serving, Served

LEMMA NextOnward ==
  ASSUME TypeInv, NextConn, loop.pc = "write"
  PROVE  /\ Onward
         /\ loop'.pc \in Serving => Served(loop.i, loop')
         /\ loop'.pc \in {"poll", "read"}
<1>1. \/ loop'.pc = "poll"
      \/ loop'.pc = "read" /\ loop'.i = loop.i + 1 /\ loop'.r = loop.r
  BY NextConnFields
<1>2. loop.i \in Nat /\ Conns \subseteq Nat
  BY Fields, ConnsNumbers
<1>3. \A j \in Conns : j < loop.i \/ j = loop.i => j < loop.i + 1
  BY <1>2
<1>4. loop.i < loop.i + 1
  BY <1>2
<1> QED
  BY <1>1, <1>3, <1>4 DEF Onward, Serving, Served

(* Who is closed shuts its own descriptors; the others keep theirs, and    *)
(* their back ends.                                                        *)
LEMMA ClosingFacts ==
  ASSUME TypeInv, KeptInv, NEW c \in Conns, Closing(c)
  PROVE  /\ \A x \in Fds : \/ io'.file[x] = io.file[x] /\ x \notin {io.fds[c].in, io.fds[c].out}
                           \/ io'.file[x] = Free /\ x \in {io.fds[c].in, io.fds[c].out}
         /\ \A x \in Fds : io.file[x].of \in Conns \ {c} => io'.file[x] = io.file[x]
         /\ \A d \in Conns \ {c} :
              /\ Open(d) => PipesOf(d, io'.file, io.fds[d])
              /\ Open(d) => toBack'[d] = toBack[d] /\ fromBack'[d] = fromBack[d] /\ be'[d] = be[d]
              /\ \/ toBack'[d] = toBack[d] /\ fromBack'[d] = fromBack[d] /\ be'[d] = be[d]
                 \/ toBack'[d] = <<>> /\ fromBack'[d] = <<>> /\ be'[d] = Gone
<1>1. /\ io'.file = Emptied(io, c) /\ LeaveUnheld(io')
  BY CloseFacts DEF Closing, Stripped
<1>2. \A x \in Fds : \/ io'.file[x] = io.file[x] /\ x \notin {io.fds[c].in, io.fds[c].out}
                     \/ io'.file[x] = Free /\ x \in {io.fds[c].in, io.fds[c].out}
  BY <1>1 DEF Emptied
<1>3. PipesOf(c, io.file, io.fds[c])
  BY DEF KeptInv, Keeps, Closing
<1>4. \A x \in Fds : io.file[x].of \in Conns \ {c} => io'.file[x] = io.file[x]
  BY <1>2, <1>3 DEF PipesOf
<1>5. ASSUME NEW d \in Conns \ {c}
      PROVE  /\ Open(d) => PipesOf(d, io'.file, io.fds[d])
             /\ Open(d) => toBack'[d] = toBack[d] /\ fromBack'[d] = fromBack[d] /\ be'[d] = be[d]
             /\ \/ toBack'[d] = toBack[d] /\ fromBack'[d] = fromBack[d] /\ be'[d] = be[d]
                \/ toBack'[d] = <<>> /\ fromBack'[d] = <<>> /\ be'[d] = Gone
  <2>1. IF Held(io', d)
          THEN toBack'[d] = toBack[d] /\ fromBack'[d] = fromBack[d] /\ be'[d] = be[d]
          ELSE toBack'[d] = <<>> /\ fromBack'[d] = <<>> /\ be'[d] = Gone
    BY <1>1 DEF LeaveUnheld
  <2>2. Open(d) => PipesOf(d, io.file, io.fds[d])
    BY DEF KeptInv, Keeps
  <2>3. Open(d) => PipesOf(d, io'.file, io.fds[d])
    <3>1. ASSUME Open(d)
          PROVE  /\ io'.file[io.fds[d].in] = io.file[io.fds[d].in]
                 /\ io'.file[io.fds[d].out] = io.file[io.fds[d].out]
      BY <1>4, <2>2, <3>1 DEF PipesOf, Numbers
    <3> QED
      BY <2>2, <3>1 DEF PipesOf
  <2>4. Open(d) => Held(io', d)
    BY <2>3 DEF Held, PipesOf, Numbers
  <2> QED
    BY <2>1, <2>3, <2>4
<1> QED
  BY <1>2, <1>4, <1>5

LEMMA KeptClosing ==
  ASSUME TypeInv, KeptInv, TypeInv', NEW c \in Conns, Closing(c)
  PROVE  KeptInv'
<1>1. /\ MayClose(c) /\ Open(c) /\ c = loop.i /\ Stripped(io, c, io')
      /\ conn'[c].state = "PENALTY_BOX" /\ conn'[c].bin = <<>> /\ conn'[c].bout = <<>>
      /\ \A d \in Conns \ {c} : conn'[d] = conn[d]
  BY CloseFacts DEF Closing
<1>2. io'.fds = io.fds
  BY <1>1 DEF Stripped
<1>3. ASSUME NEW d \in Conns PROVE Tame(d)' /\ Keeps(d)'
  <2>1. CASE d = c
    <3>1. ~Open(d)' /\ conn'[d].bin \in Seq(TameLines)
      BY <1>1, <2>1, EmptySeq DEF Open
    <3> QED
      BY <1>1, <2>1, <3>1 DEF Tame, Keeps
  <2>2. CASE d # c
    <3>1. Tame(d) /\ Keeps(d) /\ (Open(d)' <=> Open(d)) /\ conn'[d] = conn[d]
      BY <1>1, <2>2 DEF KeptInv, Open
    <3>2. /\ Open(d) => PipesOf(d, io'.file, io.fds[d])
          /\ Open(d) => be'[d] = be[d]
          /\ fromBack'[d] = fromBack[d] \/ fromBack'[d] = <<>>
      BY <2>2, ClosingFacts
    <3>3. Tame(d)'
      BY <1>2, <3>1, <3>2, EmptySeq DEF Tame
    <3> QED
      BY <1>2, <3>1, <3>2, <3>3 DEF Keeps
  <2> QED
    BY <2>1, <2>2
<1>4. SetsInv'
  <2> DEFINE t == io'
  <2>1. /\ t \in IOs /\ OpenIn(conn)' \in SUBSET Conns
        /\ Owned(t.file, t.fds, OpenIn(conn)') /\ Spanned(t)
    BY <1>1 DEF TypeInv, TypeOK, Stripped, OpenIn
  <2>2. PipesOf(c, io.file, io.fds[c])
    BY <1>1 DEF KeptInv, Keeps
  <2>3. ASSUME NEW x \in t.rfds PROVE t.file[x].end = "in"
    <3>1. x \in io.rfds /\ x # io.fds[c].in /\ io.file[x].end = "in" /\ x \in Fds
      BY <1>1, Fields DEF Stripped, KeptInv, SetsInv
    <3>2. x # io.fds[c].out
      BY <2>2, <3>1 DEF PipesOf
    <3> QED
      BY <3>1, <3>2, ClosingFacts
  <2>4. ASSUME NEW x \in t.wfds PROVE t.file[x].end = "out"
    <3>1. x \in io.wfds /\ x # io.fds[c].out /\ io.file[x].end = "out" /\ x \in Fds
      BY <1>1, Fields DEF Stripped, KeptInv, SetsInv
    <3>2. x # io.fds[c].in
      BY <2>2, <3>1 DEF PipesOf
    <3> QED
      BY <3>1, <3>2, ClosingFacts
  <2> HIDE DEF t
  <2>5. /\ \A x \in t.rfds : t.file[x].end = "in" /\ x < t.maxfd
        /\ \A x \in t.wfds : t.file[x].end = "out" /\ x < t.maxfd
        /\ ~(t.maxfd < 0)
    BY <2>1, <2>3, <2>4, SetsShrink
  <2> QED
    BY <2>5 DEF SetsInv, t
<1>5. Onward /\ (loop'.pc \in Serving => Served(c, loop')) /\ loop'.pc \in {"write", "poll", "read"}
  <2>1. CASE loop.pc \in {"read", "line"} /\ Go("write")
    <3>1. "write" \in Points /\ "write" \in Serving
      BY DEF Points, Serving
    <3>2. loop'.pc = "write" /\ loop'.i = loop.i
      BY <2>1, <3>1, GoFields
    <3>3. Onward
      BY <2>1, <3>1, GoOnward
    <3> QED
      BY <1>1, <3>2, <3>3 DEF Served
  <2>2. CASE loop.pc = "write" /\ NextConn
    BY <1>1, <2>2, NextOnward
  <2> QED
    BY <2>1, <2>2 DEF Closing
<1>6. Found(io'.file, loop')
  <2>1. ASSUME loop'.pc \in Serving, NEW x \in loop'.r
        PROVE  io'.file[x] = io.file[x] \/ io'.file[x] = Free
    <3>1. x \in Fds
      BY <2>1, Fields DEF Onward, TypeInv, TypeOK, Loops
    <3> QED
      BY <3>1, ClosingFacts
  <2> QED
    BY <1>1, <1>5, <2>1, FoundKept
<1>7. StopsOnlyUnopened'
  BY <1>5 DEF StopsOnlyUnopened, At
<1> QED
  BY <1>3, <1>4, <1>6, <1>7 DEF KeptInv

LEMMA KeptRetry ==
  ASSUME TypeInv, KeptInv, proto_do_retries,
         Onward, loop'.pc \in Serving => \A j \in Conns : ~Served(j, loop),
         loop'.pc \notin {"aborted", "returned"}
  PROVE  KeptInv'
<1>1. PICK started : Starts(started)
  BY RetryOpens
<1>2. ASSUME NEW d \in Conns PROVE Tame(d)' /\ Keeps(d)'
  <2>1. Tame(d) /\ Keeps(d)
    BY DEF KeptInv
  <2>2. fromBack' = fromBack /\ io'.fds[d] \in FdPairs
    BY <1>1 DEF Starts, IOs
  <2>3. CASE d \in started
    <3>1. /\ conn'[d].state = "WAIT_HELLO" /\ conn'[d].bin = conn[d].bin
          /\ PipesOf(d, io'.file, io'.fds[d]) /\ be'[d] = Fresh
          /\ conn[d].state = "PENALTY_BOX"
      BY <1>1, <2>3, Fields, InitFields DEF Starts, WantsRetry
    <3>2. Open(d)' /\ be'[d].up /\ ~Open(d)
      BY <3>1 DEF Open, Fresh, Gone
    <3>3. Tame(d)'
      BY <2>1, <2>2, <3>2 DEF Tame
    <3> QED
      BY <2>1, <3>1, <3>2, <3>3 DEF Keeps
  <2>4. CASE d \notin started
    <3>1. io'.fds[d] = io.fds[d] /\ conn'[d] = conn[d] /\ be'[d] = be[d]
      BY <1>1, <2>4 DEF Starts
    <3>2. Open(d)' <=> Open(d)
      BY <3>1 DEF Open
    <3>3. Open(d) => PipesOf(d, io'.file, io'.fds[d])
      <4>1. SUFFICES ASSUME Open(d) PROVE PipesOf(d, io'.file, io'.fds[d])
        OBVIOUS
      <4>2. PipesOf(d, io.file, io.fds[d])
        BY <2>1, <4>1 DEF Keeps
      <4>3. /\ io.fds[d].in \in Fds /\ io.file[io.fds[d].in] # Free
            /\ io.fds[d].out \in Fds /\ io.file[io.fds[d].out] # Free
        BY <4>2 DEF PipesOf, Numbers, Free
      <4> QED
        BY <1>1, <3>1, <4>2, <4>3 DEF PipesOf, Starts
    <3>4. Tame(d)'
      BY <2>1, <2>2, <3>1, <3>2 DEF Tame
    <3> QED
      BY <2>1, <3>1, <3>2, <3>3, <3>4 DEF Keeps
  <2> QED
    BY <2>3, <2>4
<1>3. \A x \in Fds : io.file[x].end \in {"in", "out"} => io'.file[x] = io.file[x]
  BY <1>1 DEF Starts, Free
<1>4. SetsInv'
  <2>1. io' \in IOs /\ io'.maxfd >= io.maxfd /\ io'.wfds = io.wfds
    BY <1>1 DEF Starts
  <2>2. ASSUME NEW x \in io'.rfds
        PROVE  \/ x \in io.rfds /\ io'.file[x] = io.file[x]
               \/ io'.file[x].end = "in" /\ x < io'.maxfd
    <3>1. CASE x \in io.rfds
      BY <1>3, <3>1, Fields DEF KeptInv, SetsInv
    <3>2. CASE \E c \in started : x = io'.fds[c].in
      <4>1. PICK c \in started : x = io'.fds[c].in
        BY <3>2
      <4>2. PipesOf(c, io'.file, io'.fds[c]) /\ io'.fds[c].in < io'.maxfd
        BY <1>1 DEF Starts
      <4> QED
        BY <4>1, <4>2 DEF PipesOf
    <3>3. io'.rfds = io.rfds \cup {io'.fds[c].in : c \in started}
      BY <1>1 DEF Starts
    <3> QED
      BY <3>1, <3>2, <3>3
  <2>3. ASSUME NEW x \in io'.wfds PROVE x \in io.wfds /\ io'.file[x] = io.file[x]
    BY <1>3, <2>1, Fields DEF KeptInv, SetsInv
  <2>4. ASSUME io'.maxfd < 0 PROVE \A c \in Conns : io'.fds[c] = io.fds[c]
    <3>1. ASSUME NEW c \in started PROVE FALSE
      <4>1. io'.fds[c].in \in Fds /\ io'.fds[c].in < io'.maxfd
        BY <1>1 DEF Starts, PipesOf, Numbers
      <4>2. io'.maxfd \in -1 .. MaxFd + 1 /\ -1 .. MaxFd + 1 \subseteq Int
        BY <2>1, FdNumbers DEF IOs
      <4>3. io'.fds[c].in \in Int /\ io'.fds[c].in >= 3
        BY <4>1, FdNumbers
      <4> QED
        BY <2>4, <4>1, <4>2, <4>3
    <3> QED
      BY <1>1, <3>1 DEF Starts
  <2> QED
    BY <2>1, <2>2, <2>3, <2>4, SetsGrow
<1>5. Found(io'.file, loop')
  <2>1. ASSUME loop'.pc \in Serving, NEW x \in loop'.r
        PROVE  io.file[x].end = "in" => io'.file[x] = io.file[x]
    <3>1. x \in Fds
      BY <2>1, Fields DEF Onward
    <3> QED
      BY <1>3, <3>1
  <2> QED
    BY <2>1, FoundKept
<1>6. StopsOnlyUnopened'
  BY DEF StopsOnlyUnopened, At
<1> QED
  BY <1>2, <1>4, <1>5, <1>6 DEF KeptInv

LEMMA KeptRead ==
  ASSUME OneCloses, TypeInv, TypeInv', KeptInv, Read
  PROVE  KeptInv'
<1> DEFINE i == loop.i
           x == io.fds[i].in
           e == io.file[x].of
<1>0. i \in Conns /\ At("read") /\ {"read", "line", "write"} \subseteq Points \cap Serving
  BY Fields DEF Read, Points, Serving
<1>1. ASSUME Go("line") \/ Go("write"), UNCHANGED io,
             \A d \in Conns : Tame(d)' /\ Keeps(d)'
      PROVE  KeptInv'
  <2>1. Onward /\ loop'.pc \in {"line", "write"}
    BY <1>0, <1>1, GoOnward, GoFields DEF At
  <2>2. Found(io'.file, loop')
    BY <1>1, <2>1, FoundKept
  <2>3. SetsInv'
    BY <1>1 DEF KeptInv, SetsInv
  <2>4. StopsOnlyUnopened'
    BY <2>1 DEF StopsOnlyUnopened, At
  <2> QED
    BY <1>1, <2>2, <2>3, <2>4 DEF KeptInv
<1>2. CASE Go("write") /\ UNCHANGED <<conn, io, toBack, fromBack, be>>
  <2>1. \A d \in Conns : Tame(d)' /\ Keeps(d)'
    BY <1>2 DEF KeptInv, Tame, Keeps, Open
  <2> QED
    BY <1>1, <1>2, <2>1
<1>3. ASSUME NEW n \in 1 .. Len(fromBack[e]), x \in loop.r, io.file[x].end = "in",
             conn' = [conn EXCEPT ![i].bin = SubSeq(fromBack[e], 1, n)],
             fromBack' = [fromBack EXCEPT ![e] = SubSeq(@, n + 1, Len(@))],
             Go("line"), UNCHANGED <<io, toBack, be>>
      PROVE  KeptInv'
  <2>1. x \in Fds /\ e \in Conns /\ io.file[x] # Free
    BY <1>3, Fields, InUse
  <2>2. e \in OpenIn(conn)
    BY <2>1 DEF TypeInv, Owned
  <2>3. e = i \/ ~MayClose(e)
    <3>1. CASE Open(i)
      <4>1. PipesOf(i, io.file, io.fds[i])
        BY <1>0, <3>1 DEF KeptInv, Keeps
      <4> QED
        BY <4>1 DEF PipesOf
    <3>2. CASE ~Open(i)
      <4>1. MayClose(i)
        BY <1>0, <2>1, <3>2, FdNumbers DEF KeptInv, Tame, NoFds, Unopened
      <4> QED
        BY <1>0, <2>1, <4>1 DEF OneCloses
    <3> QED
      BY <3>1, <3>2
  <2>4. ASSUME fromBack[e] \in Seq(TameLines)
        PROVE  /\ SubSeq(fromBack[e], 1, n) \in Seq(TameLines)
               /\ SubSeq(fromBack[e], n + 1, Len(fromBack[e])) \in Seq(TameLines)
    BY <1>3, <2>4, CutMore
  <2>5. ASSUME NEW d \in Conns PROVE Tame(d)' /\ Keeps(d)'
    <3> DEFINE q == SubSeq(fromBack[e], 1, n)
    <3>1. conn' = [conn EXCEPT ![i].bin = q] /\ conn \in [Conns -> ConnRecords]
      BY <1>3, Fields
    <3> HIDE DEF q
    <3>2. /\ conn'[d].state = conn[d].state /\ conn'[d].bout = conn[d].bout
          /\ conn'[d].bin = IF d = i THEN q ELSE conn[d].bin
      BY <3>1 DEF ConnRecords
    <3>3. conn'[d].bin = IF d = i THEN SubSeq(fromBack[e], 1, n) ELSE conn[d].bin
      BY <3>2 DEF q
    <3>4. ~MayClose(d) => fromBack[d] \in Seq(TameLines)
      BY DEF KeptInv, Tame
    <3>5. ~MayClose(d) => fromBack'[d] \in Seq(TameLines)
      BY <1>3, <2>1, <2>4, <3>4, Fields
    <3>6. \/ conn'[d].bin = conn[d].bin \/ conn'[d].bin \in Seq(TameLines)
          \/ MayClose(d) /\ Open(d)
      <4>1. CASE ~MayClose(e)
        <5>1. fromBack[e] \in Seq(TameLines)
          BY <2>1, <4>1 DEF KeptInv, Tame
        <5> QED
          BY <2>4, <3>3, <5>1
      <4>2. CASE MayClose(e) /\ e = i
        BY <2>2, <3>3, <4>2 DEF OpenIn, Open
      <4> QED
        BY <2>3, <4>1, <4>2
    <3>7. io'.file = io.file /\ io'.fds = io.fds /\ be' = be
      BY <1>3
    <3> QED
      BY <3>2, <3>5, <3>6, <3>7, KeptSame
  <2> QED
    BY <1>1, <1>3, <2>5
<1>4. ASSUME x \in loop.r, Close(i), Go("write"),
             io.file[x].end = "in" => ~be[io.file[x].of].up
      PROVE  KeptInv'
  <2>1. MayClose(i) /\ Open(i)
    BY <1>0, <1>4, ReadCloses
  <2>2. Closing(i)
    BY <1>0, <1>4, <2>1 DEF Closing, At
  <2> QED
    BY <1>0, <2>2, KeptClosing
<1> QED
  BY <1>2, <1>3, <1>4 DEF Read

LEMMA KeptLine ==
  ASSUME TypeInv, TypeInv', KeptInv, ProcessLine
  PROVE  KeptInv'
<1> DEFINE c == loop.i
           r == Processed(c)
<1>0. /\ c \in Conns /\ conn[c].bin # <<>> /\ loop.pc = "line"
      /\ "write" \in Points \cap Serving
  BY LineStep DEF Points, Serving
<1>1. CASE Closes(Rest(c), Head(conn[c].bin))
  <2>1. MayClose(c) /\ Open(c) /\ Close(c)
    BY <1>0, <1>1, LineStep, LineCloses
  <2>2. Go("write")
    BY <1>0, <2>1, LineStep, CloseFacts
  <2>3. Closing(c)
    BY <1>0, <2>1, <2>2 DEF Closing
  <2> QED
    BY <1>0, <2>3, KeptClosing
<1>2. CASE ~Closes(Rest(c), Head(conn[c].bin))
  <2>1. Handled(c, r) /\ UNCHANGED <<toBack, fromBack, be>>
    BY <1>2, LineStep
  <2>2. /\ r \in ConnRecords /\ r.bin = Tail(conn[c].bin) /\ SameSide(conn[c], r)
        /\ "read" \notin r.watch
        /\ "write" \in r.watch => Open(c)
        /\ conn[c].state = "PENALTY_BOX" => r.bout = conn[c].bout
    <3>1. \/ r.watch = {"write"} /\ \E cmd \in Commands : r.bout = Append(conn[c].bout, cmd)
          \/ r.watch = {} /\ r.bout = conn[c].bout
      BY <1>0, <1>2, ProcessedFields
    <3>2. \A cmd \in Commands : Append(conn[c].bout, cmd) # conn[c].bout
      <4>1. conn[c].bout \in Seq(Commands)
        BY <1>0, Fields DEF ConnRecords
      <4> QED
        BY <4>1, AppendProperties
    <3>3. /\ r \in ConnRecords /\ r.bin = Tail(conn[c].bin) /\ SameSide(conn[c], r)
          /\ conn[c].state = "PENALTY_BOX" => r.bout = conn[c].bout
      BY <1>0, <1>2, ProcessedFields
    <3> HIDE DEF r
    <3> QED
      BY <3>1, <3>2, <3>3 DEF Open
  <2> HIDE DEF r
  <2>3. /\ io' \in IOs /\ io'.file = io.file /\ io'.fds = io.fds /\ io'.rfds = io.rfds
        /\ io'.wfds = IF "write" \in r.watch THEN io.wfds \cup {io.fds[c].out} ELSE io.wfds
        /\ io'.maxfd >= io.maxfd
        /\ "write" \in r.watch => io.fds[c].out < io'.maxfd
        /\ conn'[c] = Muted(r) /\ \A d \in Conns \ {c} : conn'[d] = conn[d]
    BY <1>0, <2>1, <2>2, HandledFacts
  <2>4. conn'[c].state = r.state /\ conn'[c].bin = r.bin /\ conn'[c].bout = r.bout
    BY <2>2, <2>3, MutedFields
  <2>5. ASSUME NEW d \in Conns PROVE Tame(d)' /\ Keeps(d)'
    <3>1. CASE d # c
      <4>1. conn'[d] = conn[d] /\ Tame(d)
        BY <2>3, <3>1 DEF KeptInv
      <4>2. ~MayClose(d) => (be[d].up => be'[d].up) /\ fromBack'[d] \in Seq(TameLines)
        BY <2>1, <4>1 DEF Tame
      <4> QED
        BY <2>3, <4>1, <4>2, KeptSame
    <3>2. CASE d = c
      <4>1. Tame(d) /\ Keeps(d)
        BY DEF KeptInv
      <4>2. conn'[d].bin \in Seq(TameLines) \/ (MayClose(d) /\ Open(d))
        BY <1>0, <2>2, <2>4, <3>2, <4>1, HeadTailProperties DEF Keeps
      <4>3. Open(d)' <=> Open(d)
        BY <2>2, <2>4, <3>2 DEF Open, SameSide
      <4>4. ~Open(d) => conn'[d].bout = <<>>
        BY <2>2, <2>4, <3>2, <4>1 DEF Keeps, Open
      <4>5. Tame(d)'
        BY <2>1, <2>3, <4>1, <4>3 DEF Tame
      <4> QED
        BY <2>3, <4>1, <4>2, <4>3, <4>4, <4>5 DEF Keeps, PipesOf
    <3> QED
      BY <3>1, <3>2
  <2>6. SetsInv'
    <3>1. ASSUME NEW y \in io'.wfds
          PROVE  \/ y \in io.wfds /\ io'.file[y] = io.file[y]
                 \/ io'.file[y].end = "out" /\ y < io'.maxfd
      <4>1. CASE y \in io.wfds
        BY <2>3, <4>1
      <4>2. CASE y \notin io.wfds
        <5>1. "write" \in r.watch /\ y = io.fds[c].out
          BY <2>3, <4>2
        <5>2. PipesOf(c, io.file, io.fds[c])
          BY <1>0, <2>2, <5>1 DEF KeptInv, Keeps
        <5> QED
          BY <2>3, <5>1, <5>2 DEF PipesOf
      <4> QED
        BY <4>1, <4>2
    <3> QED
      BY <2>3, <3>1, SetsGrow
  <2>7. Onward /\ loop'.pc \in {"line", "write"}
    <3>1. CASE Go("write")
      BY <1>0, <3>1, GoOnward, GoFields
    <3>2. CASE UNCHANGED loop
      BY <1>0, <3>2 DEF Onward, Served, Serving
    <3> QED
      BY <3>1, <3>2, LineStep
  <2>8. Found(io'.file, loop')
    BY <2>3, <2>7, FoundKept
  <2>9. StopsOnlyUnopened'
    BY <2>7 DEF StopsOnlyUnopened, At
  <2> QED
    BY <2>5, <2>6, <2>8, <2>9 DEF KeptInv
<1> QED
  BY <1>1, <1>2

LEMMA KeptWrite ==
  ASSUME TypeInv, TypeInv', KeptInv, Write
  PROVE  KeptInv'
<1> DEFINE i == loop.i
           x == io.fds[i].out
           u == text_delete_fd(io, i, {"write"})
<1>0. i \in Conns /\ loop.pc = "write" /\ NextConn
  BY Fields DEF Write, At
<1>1. Onward /\ loop'.pc \in {"poll", "read"}
  BY <1>0, NextOnward
<1>2. /\ u \in IOs /\ u.file = io.file /\ u.fds = io.fds /\ Spanned(u)
      /\ u.rfds = io.rfds /\ u.wfds = io.wfds \ {x}
  <2> DEFINE types == {"write"}
  <2>1. types \in SUBSET {"read", "write"} /\ "write" \in types /\ "read" \notin types
    OBVIOUS
  <2>2. io \in IOs /\ u = text_delete_fd(io, i, types)
    BY Fields
  <2> HIDE DEF types, u
  <2>3. Deletes(io, i, types, u)
    BY <1>0, <2>1, <2>2, DeleteFd
  <2> QED
    BY <2>1, <2>3 DEF Deletes
<1> HIDE DEF u
<1>3. ASSUME io' = io \/ io' = u, UNCHANGED <<fromBack, be>>,
             \A d \in Conns : /\ conn'[d].state = conn[d].state /\ conn'[d].bin = conn[d].bin
                              /\ conn'[d].bout = conn[d].bout \/ Open(d)
      PROVE  KeptInv'
  <2>1. io'.file = io.file /\ io'.fds = io.fds
    BY <1>2, <1>3
  <2>2. ASSUME NEW d \in Conns PROVE Tame(d)' /\ Keeps(d)'
    <3>1. ~MayClose(d) => (be[d].up => be'[d].up) /\ fromBack'[d] \in Seq(TameLines)
      BY <1>3 DEF KeptInv, Tame
    <3> QED
      BY <1>3, <2>1, <3>1, KeptSame
  <2>3. SetsInv'
    <3>1. CASE io' = io
      BY <3>1 DEF KeptInv, SetsInv
    <3>2. CASE io' = u
      <4>1. /\ \A y \in u.rfds : u.file[y].end = "in"
            /\ \A y \in u.wfds : u.file[y].end = "out"
        BY <1>2 DEF KeptInv, SetsInv
      <4>2. OpenIn(conn) \in SUBSET Conns /\ Owned(u.file, u.fds, OpenIn(conn))
        BY <1>2 DEF TypeInv, OpenIn
      <4>3. /\ \A y \in u.rfds : u.file[y].end = "in" /\ y < u.maxfd
            /\ \A y \in u.wfds : u.file[y].end = "out" /\ y < u.maxfd
            /\ ~(u.maxfd < 0)
        BY <1>2, <4>1, <4>2, SetsShrink
      <4> QED
        BY <3>2, <4>3 DEF SetsInv
    <3> QED
      BY <1>3, <3>1, <3>2
  <2>4. Found(io'.file, loop')
    BY <1>1, <2>1, FoundKept
  <2>5. StopsOnlyUnopened'
    BY <1>1 DEF StopsOnlyUnopened, At
  <2> QED
    BY <2>2, <2>3, <2>4, <2>5 DEF KeptInv
<1>4. CASE UNCHANGED conn /\ (io' = io \/ io' = u) /\ UNCHANGED <<fromBack, be>>
  BY <1>3, <1>4
<1>5. ASSUME NEW n \in 1 .. Len(conn[i].bout),
             conn' = [conn EXCEPT ![i] = Written(conn[i], n)],
             io' = io \/ io' = u, UNCHANGED <<fromBack, be>>
      PROVE  KeptInv'
  <2>1. Open(i)
    <3>1. conn[i].bout # <<>>
      <4>1. conn[i].bout \in Seq(Commands)
        BY <1>0, Fields DEF ConnRecords
      <4> QED
        BY <1>5, <4>1, CutMore
    <3> QED
      BY <1>0, <3>1 DEF KeptInv, Keeps
  <2>2. ASSUME NEW d \in Conns
        PROVE  /\ conn'[d].state = conn[d].state /\ conn'[d].bin = conn[d].bin
               /\ conn'[d].bout = conn[d].bout \/ Open(d)
    <3>1. conn'[d] = IF d = i THEN Written(conn[i], n) ELSE conn[d]
      BY <1>5, Fields
    <3>2. CASE d = i
      BY <2>1, <3>1, <3>2, Fields, WrittenFields
    <3>3. CASE d # i
      BY <3>1, <3>3
    <3> QED
      BY <3>2, <3>3
  <2> QED
    BY <1>3, <1>5, <2>2
<1>6. ASSUME conn[i].bout # <<>>, io.file[x].end = "out" => ~be[io.file[x].of].up, Close(i)
      PROVE  KeptInv'
  <2>1. MayClose(i) /\ Open(i)
    BY <1>0, <1>6, WriteCloses
  <2>2. Closing(i)
    BY <1>0, <1>6, <2>1 DEF Closing
  <2> QED
    BY <1>0, <2>2, KeptClosing
<1> QED
  BY <1>4, <1>5, <1>6 DEF Write, u

LEMMA KeptPoll ==
  ASSUME TypeInv, TypeInv', KeptInv, Poll, loop.next = 0
  PROVE  KeptInv'
<1> DEFINE asked == {d \in Conns : "write" \in Polled(d).watch}
<1>1. /\ io' \in IOs /\ io'.file = io.file /\ io'.fds = io.fds /\ io'.rfds = io.rfds
      /\ io'.wfds = io.wfds \cup {io.fds[c].out : c \in asked}
      /\ io'.maxfd >= io.maxfd
      /\ \A c \in asked : io.fds[c].out < io'.maxfd
      /\ \A c \in Conns : conn'[c] = Muted(Polled(c))
      /\ UNCHANGED <<toBack, fromBack, be>>
  BY PollFacts DEF Poll
<1>2. loop'.pc = "select"
  BY Fields DEF Poll, Loops
<1>3. ASSUME NEW d \in Conns PROVE Tame(d)' /\ Keeps(d)'
  <2>1. /\ conn'[d].state = conn[d].state /\ conn'[d].bin = conn[d].bin
        /\ conn'[d].bout = conn[d].bout \/ Open(d)
    <3>1. /\ Polled(d) \in ConnRecords /\ Polled(d).state = conn[d].state
          /\ Polled(d).bin = conn[d].bin
          /\ Polled(d).bout = conn[d].bout \/ conn[d].state = "NORMAL"
      <4> HIDE DEF asked
      <4>1. /\ Polled(d).watch # {} => conn[d].state = "NORMAL"
            /\ Polled(d).watch = {"write"} \/ Polled(d).bout = conn[d].bout
        BY PolledFields
      <4> QED
        BY <4>1, PolledFields
    <3>2. /\ conn'[d].state = Polled(d).state /\ conn'[d].bin = Polled(d).bin
          /\ conn'[d].bout = Polled(d).bout
      BY <1>1, <3>1, MutedFields
    <3> QED
      BY <3>1, <3>2 DEF Open
  <2>2. ~MayClose(d) => (be[d].up => be'[d].up) /\ fromBack'[d] \in Seq(TameLines)
    BY <1>1 DEF KeptInv, Tame
  <2> QED
    BY <1>1, <2>1, <2>2, KeptSame
<1>4. SetsInv'
  <2>1. ASSUME NEW y \in io'.wfds
        PROVE  \/ y \in io.wfds /\ io'.file[y] = io.file[y]
               \/ io'.file[y].end = "out" /\ y < io'.maxfd
    <3>1. CASE y \in io.wfds
      BY <1>1, <3>1
    <3>2. CASE \E c \in asked : y = io.fds[c].out
      <4>1. PICK c \in asked : y = io.fds[c].out
        BY <3>2
      <4>2. Open(c)
        BY PolledFields DEF Open
      <4>3. PipesOf(c, io.file, io.fds[c])
        BY <4>2 DEF KeptInv, Keeps
      <4> QED
        BY <1>1, <4>1, <4>3 DEF PipesOf
    <3> HIDE DEF asked
    <3> QED
      BY <1>1, <3>1, <3>2
  <2> HIDE DEF asked
  <2> QED
    BY <1>1, <2>1, SetsGrow
<1>5. Found(io'.file, loop')
  BY <1>2 DEF Found
<1>6. StopsOnlyUnopened'
  BY <1>2 DEF StopsOnlyUnopened, At
<1> QED
  BY <1>3, <1>4, <1>5, <1>6 DEF KeptInv

(* The steps that leave the descriptors and their sets alone.              *)
LEMMA KeptStill ==
  ASSUME TypeInv, KeptInv, UNCHANGED io,
         \A d \in Conns :
           /\ conn'[d].state = conn[d].state /\ conn'[d].bin = conn[d].bin
           /\ conn'[d].bout = conn[d].bout
           /\ ~MayClose(d) => (be[d].up => be'[d].up) /\ fromBack'[d] \in Seq(TameLines),
         Found(io.file, loop'), StopsOnlyUnopened'
  PROVE  KeptInv'
<1>1. ASSUME NEW d \in Conns PROVE Tame(d)' /\ Keeps(d)'
  BY KeptSame
<1>2. SetsInv'
  BY DEF KeptInv, SetsInv
<1> QED
  BY <1>1, <1>2 DEF KeptInv

LEMMA KeptStep == OneCloses /\ TypeInv /\ TypeInv' /\ KeptInv /\ [Next]_vars => KeptInv'
<1> SUFFICES ASSUME OneCloses, TypeInv, TypeInv', KeptInv, [Next]_vars PROVE KeptInv'
  OBVIOUS
<1> USE DEF Points
<1>0. /\ Found(io.file, loop) /\ SetsInv /\ StopsOnlyUnopened
      /\ \A d \in Conns : ~MayClose(d) => fromBack[d] \in Seq(TameLines)
  BY DEF KeptInv, Tame
<1>1. ASSUME UNCHANGED <<conn, io, fromBack, be>>, Found(io.file, loop'), StopsOnlyUnopened'
      PROVE  KeptInv'
  BY <1>0, <1>1, KeptStill
<1>2. CASE Start
  <2>1. loop.pc = "start" /\ loop'.pc = "select"
    BY <1>2, GoFields DEF Start, At
  <2>2. Onward /\ loop'.pc \notin Serving /\ proto_do_retries
    BY <1>2, <2>1 DEF Start, Onward, Serving
  <2> QED
    BY <2>1, <2>2, KeptRetry
<1>3. CASE Retry
  <2>1. loop.pc = "retry" /\ loop'.pc = "read" /\ loop'.r = loop.r /\ loop'.i = 1
    BY <1>3, Fields DEF Retry, At, Loops
  <2>2. \A j \in Conns : ~Served(j, loop)
    BY <2>1 DEF Served
  <2>3. Onward /\ proto_do_retries
    BY <1>3, <2>1, <2>2 DEF Retry, Onward, Serving
  <2> QED
    BY <2>1, <2>2, <2>3, KeptRetry
<1>4. CASE Select
  <2>1. loop'.pc = "retry" /\ loop'.r = ReadyToRead
    BY <1>4, Fields DEF Select, Loops
  <2>2. Found(io.file, loop')
    BY <2>1 DEF Found, ReadyToRead, Readable
  <2> QED
    BY <1>1, <1>4, <2>1, <2>2 DEF Select, StopsOnlyUnopened, At
<1>5. CASE Return
  <2>1. loop'.pc = "returned" /\ SelectFails /\ UNCHANGED <<conn, io, fromBack, be>>
    BY <1>5, GoFields DEF Return
  <2>2. io.maxfd < 0
    <3>1. \A y \in io.rfds \cup io.wfds : io.file[y] # Free
      BY <1>0 DEF SetsInv, Free
    <3> QED
      BY <2>1, <3>1 DEF SelectFails, Watched
  <2>3. StopsOnlyUnopened'
    BY <1>0, <2>1, <2>2 DEF StopsOnlyUnopened, At, SetsInv, NoFds
  <2>4. Found(io.file, loop')
    BY <2>1 DEF Found
  <2> QED
    BY <1>1, <2>1, <2>3, <2>4
<1>6. CASE Abort
  <2>1. loop'.pc = "aborted" /\ UNCHANGED <<conn, io, fromBack, be>>
    BY <1>6, GoFields DEF Abort
  <2>2. StopsOnlyUnopened'
    BY <1>6, <2>1, Fields DEF Abort, StopsOnlyUnopened, At
  <2>3. Found(io.file, loop')
    BY <2>1 DEF Found
  <2> QED
    BY <1>1, <2>1, <2>2, <2>3
<1>7. CASE Read
  BY <1>7, KeptRead
<1>8. CASE ProcessLine
  BY <1>8, KeptLine
<1>9. CASE Write
  BY <1>9, KeptWrite
<1>10. CASE Poll
  <2>1. CASE loop.next = 0
    BY <1>10, <2>1, KeptPoll
  <2>2. CASE loop.next # 0
    <3>1. loop'.pc = "select" /\ UNCHANGED <<conn, io, fromBack, be>>
      BY <1>10, <2>2, GoFields DEF Poll
    <3> QED
      BY <1>1, <3>1 DEF Found, StopsOnlyUnopened, At
  <2> QED
    BY <2>1, <2>2
<1>11. CASE Tick
  <2>1. loop'.pc = "select" /\ UNCHANGED <<io, fromBack, be>>
    BY <1>11, Fields DEF Tick, At, Loops
  <2>2. \A d \in Conns : /\ conn'[d].state = conn[d].state /\ conn'[d].bin = conn[d].bin
                         /\ conn'[d].bout = conn[d].bout
    BY <1>11, TickFields
  <2>3. Found(io.file, loop') /\ StopsOnlyUnopened'
    BY <2>1 DEF Found, StopsOnlyUnopened, At
  <2> QED
    BY <1>0, <2>1, <2>2, <2>3, KeptStill
<1>12. ASSUME NEW c \in Conns, BackStep(c) PROVE KeptInv'
  <2>1. BackEndStep(c) /\ UNCHANGED <<conn, io, loop>> /\ BackTypeOK
    BY <1>12 DEF BackStep, TypeInv, TypeOK
  <2>2. \A d \in Conns : ~MayClose(d) =>
          (be[d].up => be'[d].up) /\ fromBack'[d] \in Seq(TameLines)
    BY <1>0, <2>1, BackTame
  <2>3. Found(io.file, loop') /\ StopsOnlyUnopened'
    BY <1>0, <2>1 DEF StopsOnlyUnopened, At
  <2> QED
    BY <2>1, <2>2, <2>3, KeptStill
<1>13. CASE UNCHANGED vars
  <2>1. UNCHANGED <<conn, io, loop, fromBack, be>>
    BY <1>13 DEF vars
  <2>2. Found(io.file, loop') /\ StopsOnlyUnopened'
    BY <1>0, <2>1 DEF StopsOnlyUnopened, At
  <2> QED
    BY <1>1, <2>1, <2>2
<1> QED
  BY <1>2, <1>3, <1>4, <1>5, <1>6, <1>7, <1>8, <1>9, <1>10, <1>11, <1>12, <1>13
     DEF Next, LoopStep

LEMMA KeptInvariant == ASSUME Conns # {}, OneCloses PROVE Spec => [](TypeInv /\ KeptInv)
<1>1. Init => TypeInv /\ KeptInv
  BY TypeInit, KeptInit
<1>2. TypeInv /\ KeptInv /\ [Next]_vars => (TypeInv /\ KeptInv)'
  BY TypeStep, KeptStep
<1> QED
  BY <1>1, <1>2, PTL DEF Spec

(* While at most one back end can make the front end close its connection, *)
(* every descriptor that is open, or in the sets of select, belongs to a   *)
(* connection that is open: however often that one is closed and opened    *)
(* again, and whatever its old numbers have become, nothing is left of it  *)
(* (connection.c:76-79, gui_text.c:112-133).                               *)
THEOREM TextNothingLeaked == ASSUME Conns # {}, OneCloses PROVE Spec => []NothingLeaked
<1>1. TypeInv /\ KeptInv => NothingLeaked
  <2> SUFFICES ASSUME TypeInv, KeptInv, NEW x \in Fds
               PROVE  /\ io.file[x] # Free =>
                           /\ Open(io.file[x].of)
                           /\ x \in {io.fds[io.file[x].of].in, io.fds[io.file[x].of].out}
                      /\ x \in io.rfds \cup io.wfds => io.file[x] # Free
    BY DEF NothingLeaked
  <2>1. io.file[x] # Free =>
          io.file[x].of \in OpenIn(conn) /\ x = Home(io.fds, io.file[x])
    BY DEF TypeInv, Owned
  <2>2. x \in io.rfds \cup io.wfds => io.file[x] # Free
    BY DEF KeptInv, SetsInv, Free
  <2> QED
    BY <2>1, <2>2 DEF OpenIn, Open, Home
<1> QED
  BY <1>1, KeptInvariant, PTL

(* Under the same condition select never fails for a descriptor that is    *)
(* closed: the loop ends only while no connection was ever opened, and the *)
(* program only at the number of one that never was (gui_text.c:145-147).  *)
THEOREM TextStopsOnlyUnopened ==
  ASSUME Conns # {}, OneCloses PROVE Spec => []StopsOnlyUnopened
<1>1. KeptInv => StopsOnlyUnopened
  BY DEF KeptInv
<1> QED
  BY <1>1, KeptInvariant, PTL

-------------------------------------------------------------------------------
(* One connection that can fail at all *)

MayFail(c) == MayClose(c) \/ "refuse" \in Faults[c]
OneFails == \A c, d \in Conns : MayFail(c) /\ MayFail(d) => c = d

(* The sets hold the descriptors of every open connection, ...             *)
Looked(c) == Open(c) => /\ io.fds[c].in \in io.rfds
                        /\ io.fds[c].out \in io.wfds <=> conn[c].bout # <<>>

(* ... and what a closed one still keeps is nobody's.                      *)
Idle(c) == be[c] = Gone /\ toBack[c] = <<>> /\ fromBack[c] = <<>>
Abandoned(c) ==
    ~Open(c) => /\ \/ io.fds[c] = NoFds
                   \/ /\ io.fds[c] \in Numbers
                      /\ \A x \in {io.fds[c].in, io.fds[c].out} : io.file[x] = Free
                /\ Idle(c)

(* From the first retry on, only the connection that fails is closed.      *)
Started(c) ==
    IF loop.pc = "start" THEN ~Open(c) /\ io.fds[c] = NoFds /\ WantsRetry(conn[c])
                         ELSE ~MayFail(c) => Open(c)

Drained(c) == conn[c].bin # <<>> => loop.pc = "line" /\ c = loop.i /\ Open(c)

Watches(c) == Looked(c) /\ Abandoned(c) /\ Started(c) /\ Drained(c)

(* What select found at a connection is still there when its turn comes.   *)
Awaits(c) == \/ loop.pc = "retry"
             \/ loop.pc = "read" /\ c >= loop.i
             \/ loop.pc \in {"line", "write"} /\ c > loop.i
Ready(c) == Open(c) /\ io.fds[c].in \in loop.r /\ Awaits(c) =>
              fromBack[c] # <<>> \/ ~be[c].up

WatchInv == \A c \in Conns : Watches(c) /\ Ready(c)

LEMMA FailsCloses == OneFails => OneCloses
BY DEF OneFails, OneCloses, MayFail

LEMMA WatchInit == ASSUME Init PROVE WatchInv
<1> SUFFICES ASSUME NEW c \in Conns PROVE Watches(c) /\ Ready(c)
  BY DEF WatchInv
<1>1. /\ conn[c] = connection_init /\ io.fds[c] = NoFds
      /\ be[c] = Gone /\ toBack[c] = <<>> /\ fromBack[c] = <<>>
      /\ loop.pc = "start"
  BY DEF Init, BackInit
<1> QED
  BY <1>1, InitRecord
     DEF Watches, Looked, Abandoned, Idle, Started, Drained, Ready, Open, WantsRetry

(* Two open connections share no descriptor.                               *)
LEMMA Apart ==
  ASSUME KeptInv, NEW c \in Conns, NEW d \in Conns, c # d, Open(c), Open(d)
  PROVE  /\ io.fds[c].in # io.fds[d].in /\ io.fds[c].out # io.fds[d].out
         /\ io.fds[c].in # io.fds[d].out
<1>1. PipesOf(c, io.file, io.fds[c]) /\ PipesOf(d, io.file, io.fds[d])
  BY DEF KeptInv, Keeps
<1> QED
  BY <1>1 DEF PipesOf

(* The numbers of a closed connection are in no set.                       *)
LEMMA Stale ==
  ASSUME TypeInv, KeptInv, WatchInv, NEW c \in Conns, ~Open(c)
  PROVE  /\ \A x \in {io.fds[c].in, io.fds[c].out} \cap Fds : io.file[x] = Free
         /\ io.fds[c].in \notin io.rfds /\ io.fds[c].out \notin io.wfds
<1>1. io.fds[c] # NoFds => \A x \in {io.fds[c].in, io.fds[c].out} : io.file[x] = Free
  BY DEF WatchInv, Watches, Abandoned
<1>2. Unopened \notin Fds
  BY FdNumbers DEF Unopened
<1>3. \A x \in {io.fds[c].in, io.fds[c].out} \cap Fds : io.file[x] = Free
  BY <1>1, <1>2 DEF NoFds
<1>4. /\ \A x \in io.rfds : x \in Fds /\ io.file[x] # Free
      /\ \A x \in io.wfds : x \in Fds /\ io.file[x] # Free
  BY Fields DEF KeptInv, SetsInv, Free
<1> QED
  BY <1>3, <1>4

(* Nobody reads at the number of a closed connection.                      *)
LEMMA ReadOpen ==
  ASSUME OneFails, TypeInv, KeptInv, WatchInv, At("read"), io.fds[loop.i].in \in loop.r
  PROVE  Open(loop.i)
<1> SUFFICES ASSUME ~Open(loop.i) PROVE FALSE
  OBVIOUS
<1> DEFINE i == loop.i
           x == io.fds[i].in
<1>1. i \in Conns /\ x \in Fds
  BY Fields
<1>2. io.file[x] = Free
  BY <1>1, Stale
<1>3. PICK j \in Conns : MayClose(j) /\ j < i
  BY <1>2 DEF KeptInv, Found, At, Served, Free
<1>4. MayClose(i)
  BY <1>1, FdNumbers DEF KeptInv, Tame, NoFds, Unopened
<1>5. i < i /\ i \in Nat
  BY <1>1, <1>3, <1>4, FailsCloses, ConnsNumbers DEF OneCloses
<1> QED
  BY <1>5

(* The thread goes on to the next connection, and never back.              *)
Ahead == \A c \in Conns : Awaits(c)' => Awaits(c) /\ loop'.r = loop.r

LEMMA GoAhead ==
  ASSUME TypeInv, NEW pc \in Points, Go(pc),
         \/ loop.pc \in {"read", "line"} /\ pc \in {"line", "write"}
         \/ pc \notin Serving
  PROVE  Ahead
<1>1. loop'.pc = pc /\ loop'.i = loop.i /\ loop'.r = loop.r
  BY GoFields
<1>2. \A c \in Conns : c > loop.i => c >= loop.i
  <2>1. loop.i \in Nat /\ Conns \subseteq Nat
    BY Fields, ConnsNumbers
  <2>2. \A c, k \in Nat : c > k => c >= k
    OBVIOUS
  <2> QED
    BY <2>1, <2>2
<1> QED
  BY <1>1, <1>2 DEF Ahead, Awaits, Serving

LEMMA NextAhead ==
  ASSUME TypeInv, NextConn, loop.pc = "write"
  PROVE  Ahead
<1>1. \/ loop'.pc = "poll"
      \/ loop'.pc = "read" /\ loop'.i = loop.i + 1 /\ loop'.r = loop.r
  BY NextConnFields
<1>2. \A c \in Conns : c >= loop.i + 1 => c > loop.i
  <2>1. loop.i \in Nat /\ Conns \subseteq Nat
    BY Fields, ConnsNumbers
  <2>2. \A c, k \in Nat : c >= k + 1 => c > k
    OBVIOUS
  <2> QED
    BY <2>1, <2>2
<1> QED
  BY <1>1, <1>2 DEF Ahead, Awaits

(* What a back end leaves in its pipe is not taken back.                   *)
LEMMA BackEndSays ==
  ASSUME BackTypeOK, NEW c \in Conns, BackEndStep(c)
  PROVE  be[c].up /\ (fromBack'[c] = fromBack[c] \/ fromBack'[c] # <<>>)
<1>1. ASSUME NEW line, Say(c, line) PROVE be[c].up /\ fromBack'[c] # <<>>
  <2>1. fromBack'[c] = Append(fromBack[c], line) /\ fromBack[c] \in Seq(Lines)
    BY <1>1 DEF Say, BackTypeOK
  <2>2. fromBack[c] \in Seq(Lines \cup {line})
    BY <2>1, ElementOfSeq, LenProperties
  <2>3. fromBack'[c] # <<>>
    BY <2>1, <2>2, AppendProperties
  <2> QED
    BY <1>1, <2>3 DEF Say
<1>2. CASE Exit(c)
  BY <1>2 DEF Exit
<1>3. CASE \E line : Say(c, line)
  BY <1>1, <1>3
<1>4. Greet(c) \/ Answer(c) \/ Notify(c) \/ Ask(c) \/ Chatter(c) => \E line : Say(c, line)
  BY DEF Greet, Answer, Notify, Ask, Chatter
<1> QED
  BY <1>2, <1>3, <1>4 DEF BackEndStep

(* New pipes take free descriptors only.                                   *)
LEMMA NewPipes ==
  ASSUME TypeInv, KeptInv, NEW started, Starts(started)
  PROVE  /\ \A c \in started : /\ io'.fds[c].in \in Fds /\ io'.fds[c].out \in Fds
                               /\ io.file[io'.fds[c].in] = Free
                               /\ io.file[io'.fds[c].out] = Free
         /\ \A x \in Fds : io.file[x] = Free /\ io'.file[x] # Free => io'.file[x].of \in started
<1>1. /\ started \in SUBSET (Conns \ OpenIn(conn))
      /\ Owned(io'.file, io'.fds, OpenIn(conn) \cup started)
      /\ \A c \in Conns \ started : io'.fds[c] = io.fds[c]
      /\ \A x \in Fds : io.file[x] # Free => io'.file[x] = io.file[x]
      /\ \A c \in started : PipesOf(c, io'.file, io'.fds[c])
  BY DEF Starts
<1>2. ASSUME NEW c \in started
      PROVE  /\ io'.fds[c].in \in Fds /\ io'.fds[c].out \in Fds
             /\ io.file[io'.fds[c].in] = Free /\ io.file[io'.fds[c].out] = Free
  <2>1. ASSUME NEW x \in Fds, io'.file[x].of = c, io.file[x] # Free PROVE FALSE
    <3>1. io.file[x].of = c
      BY <1>1, <2>1
    <3>2. io.file[x].of \in OpenIn(conn)
      BY <2>1 DEF TypeInv, Owned
    <3> QED
      BY <1>1, <3>1, <3>2
  <2>2. PipesOf(c, io'.file, io'.fds[c])
    BY <1>1
  <2>3. /\ io'.fds[c].in \in Fds /\ io'.fds[c].out \in Fds
        /\ io'.file[io'.fds[c].in].of = c /\ io'.file[io'.fds[c].out].of = c
    BY <2>2 DEF PipesOf, Numbers
  <2> QED
    BY <2>1, <2>3
<1>3. ASSUME NEW x \in Fds, io.file[x] = Free, io'.file[x] # Free, io'.file[x].of \notin started
      PROVE  FALSE
  <2> DEFINE d == io'.file[x].of
  <2>1. d \in OpenIn(conn) /\ d \notin started /\ x = Home(io'.fds, io'.file[x])
    BY <1>1, <1>3 DEF Owned
  <2>2. d \in Conns /\ Open(d) /\ io'.fds[d] = io.fds[d]
    BY <1>1, <2>1 DEF OpenIn, Open
  <2>3. x \in {io.fds[d].in, io.fds[d].out}
    BY <2>1, <2>2 DEF Home
  <2>4. PipesOf(d, io.file, io.fds[d])
    BY <2>2 DEF KeptInv, Keeps
  <2> HIDE DEF d
  <2> QED
    BY <1>3, <2>3, <2>4 DEF PipesOf, Free
<1> QED
  BY <1>2, <1>3

LEMMA WatchRetry ==
  ASSUME OneFails, TypeInv, KeptInv, WatchInv, Start \/ Retry
  PROVE  WatchInv'
<1>1. /\ proto_do_retries /\ loop'.pc # "start" /\ loop'.r = loop.r
      /\ \/ loop.pc = "start" /\ loop'.pc = "select"
         \/ loop.pc = "retry" /\ loop'.pc = "read" /\ loop'.i = 1
  BY Fields, GoFields DEF Start, Retry, At, Points, Loops
<1>2. PICK started : Starts(started)
  BY <1>1, RetryOpens
<1>3. /\ \A c \in started : /\ io'.fds[c].in \in Fds /\ io'.fds[c].out \in Fds
                            /\ io.file[io'.fds[c].in] = Free
                            /\ io.file[io'.fds[c].out] = Free
      /\ \A x \in Fds : io.file[x] = Free /\ io'.file[x] # Free => io'.file[x].of \in started
  BY <1>2, NewPipes
<1>4. /\ io'.rfds = io.rfds \cup {io'.fds[d].in : d \in started} /\ io'.wfds = io.wfds
      /\ UNCHANGED <<toBack, fromBack>>
  BY <1>2 DEF Starts
<1> SUFFICES ASSUME NEW c \in Conns PROVE Watches(c)' /\ Ready(c)'
  BY DEF WatchInv
<1>5. Watches(c) /\ Ready(c) /\ Keeps(c) /\ Tame(c)
  BY DEF WatchInv, KeptInv
<1>6. conn[c].bin = <<>>
  BY <1>1, <1>5 DEF Watches, Drained
<1>7. CASE c \in started
  <2>1. /\ conn'[c].state = "WAIT_HELLO" /\ conn'[c].bin = conn[c].bin
        /\ conn'[c].bout = conn[c].bout /\ conn[c].state = "PENALTY_BOX"
        /\ PipesOf(c, io'.file, io'.fds[c])
    BY <1>2, <1>7, Fields, InitFields DEF Starts, WantsRetry
  <2>2. Open(c)' /\ conn'[c].bout = <<>> /\ conn'[c].bin = <<>>
    BY <1>5, <1>6, <2>1 DEF Open, Keeps
  <2>3. io'.fds[c].out \notin io.wfds
    <3>1. \A x \in io.wfds : io.file[x] # Free
      BY DEF KeptInv, SetsInv, Free
    <3> QED
      BY <1>3, <1>7, <3>1
  <2>4. Looked(c)'
    BY <1>4, <1>7, <2>2, <2>3 DEF Looked
  <2>5. Ready(c)'
    <3>1. SUFFICES ASSUME Awaits(c)', io'.fds[c].in \in loop.r PROVE FALSE
      BY <1>1 DEF Ready
    <3>2. loop.pc = "retry"
      BY <1>1, <3>1 DEF Awaits
    <3>3. io.file[io'.fds[c].in].end = "in"
      BY <3>1, <3>2 DEF KeptInv, Found, Served
    <3> QED
      BY <1>3, <1>7, <3>3 DEF Free
  <2> QED
    BY <1>1, <2>2, <2>4, <2>5 DEF Watches, Abandoned, Started, Drained
<1>8. CASE c \notin started
  <2>1. /\ io'.fds[c] = io.fds[c] /\ conn'[c] = conn[c] /\ be'[c] = be[c]
        /\ WantsRetry(conn[c]) => "refuse" \in Faults[c]
        /\ Open(c)' <=> Open(c)
    BY <1>2, <1>8 DEF Starts, Open
  <2>2. Looked(c)'
    <3>1. SUFFICES ASSUME Open(c) PROVE Looked(c)'
      BY <2>1 DEF Looked
    <3> QED
      BY <1>4, <1>5, <2>1, <3>1 DEF Watches, Looked
  <2>3. Started(c)'
    BY <1>1, <1>5, <2>1 DEF Watches, Started, MayFail
  <2>4. Abandoned(c)'
    <3>1. SUFFICES ASSUME ~Open(c) PROVE Abandoned(c)'
      BY <2>1 DEF Abandoned
    <3>2. Idle(c)'
      BY <1>4, <1>5, <2>1, <3>1 DEF Watches, Abandoned, Idle
    <3>3. ASSUME io.fds[c] # NoFds, NEW x \in {io.fds[c].in, io.fds[c].out}
          PROVE  io'.file[x] = Free
      <4>1. loop.pc = "retry" /\ MayFail(c)
        BY <1>1, <1>5, <3>1, <3>3 DEF Watches, Started
      <4>2. started = {}
        <5>1. ASSUME NEW d \in started PROVE FALSE
          <6>1. d \in Conns /\ ~Open(d)
            BY <1>2 DEF Starts, OpenIn, Open
          <6>2. MayFail(d)
            BY <4>1, <6>1 DEF WatchInv, Watches, Started
          <6> QED
            BY <1>8, <4>1, <6>1, <6>2 DEF OneFails
        <5> QED
          BY <5>1
      <4>3. io.file[x] = Free /\ x \in Fds
        BY <1>5, <3>1, <3>3 DEF Watches, Abandoned, Numbers
      <4> QED
        BY <1>3, <4>2, <4>3
    <3> QED
      BY <1>5, <2>1, <3>1, <3>2, <3>3 DEF Abandoned, Watches
  <2>5. Drained(c)'
    BY <1>6, <2>1 DEF Drained
  <2>6. Ready(c)'
    <3>1. Awaits(c)' => loop.pc = "retry"
      BY <1>1 DEF Awaits
    <3> QED
      BY <1>1, <1>4, <1>5, <2>1, <3>1 DEF Ready, Awaits
  <2> QED
    BY <2>2, <2>3, <2>4, <2>5, <2>6 DEF Watches
<1> QED
  BY <1>7, <1>8

LEMMA WatchClosing ==
  ASSUME TypeInv, KeptInv, WatchInv, NEW c \in Conns, Closing(c)
  PROVE  WatchInv'
<1>1. /\ MayClose(c) /\ Open(c) /\ c = loop.i /\ Stripped(io, c, io') /\ LeaveUnheld(io')
      /\ conn'[c].state = "PENALTY_BOX" /\ conn'[c].bin = <<>>
      /\ \A d \in Conns \ {c} : conn'[d] = conn[d]
      /\ loop.pc # "start"
  BY CloseFacts DEF Closing
<1>2. Ahead /\ loop'.pc # "start"
  <2>1. CASE loop.pc \in {"read", "line"} /\ Go("write")
    <3>1. "write" \in Points
      BY DEF Points
    <3> QED
      BY <2>1, <3>1, GoAhead, GoFields
  <2>2. CASE loop.pc = "write" /\ NextConn
    BY <2>2, NextAhead, NextOnward
  <2> QED
    BY <2>1, <2>2 DEF Closing
<1>3. /\ io'.fds = io.fds
      /\ io'.rfds = io.rfds \ {io.fds[c].in} /\ io'.wfds = io.wfds \ {io.fds[c].out}
  BY <1>1 DEF Stripped
<1>4. PipesOf(c, io.file, io.fds[c])
  BY <1>1 DEF KeptInv, Keeps
<1> SUFFICES ASSUME NEW d \in Conns PROVE Watches(d)' /\ Ready(d)'
  BY DEF WatchInv
<1>5. CASE d = c
  <2>1. ~Open(d)'
    BY <1>1, <1>5 DEF Open
  <2>2. ~Held(io', d)
    <3>1. SUFFICES ASSUME NEW x \in Fds, io'.file[x].of = c PROVE FALSE
      BY <1>5 DEF Held
    <3>2. io'.file[x] # Free
      <4>1. 0 \notin Conns
        <5>1. \A n \in Nat : 0 \notin 1 .. n
          OBVIOUS
        <5> QED
          BY <5>1, ConnsNumbers, ConnsAssumption, Zenon
      <4> QED
        BY <3>1, <4>1 DEF Free
    <3>3. io'.file[x] = io.file[x] /\ x \notin {io.fds[c].in, io.fds[c].out}
      BY <3>2, ClosingFacts
    <3>4. x = Home(io.fds, io.file[x])
      BY <3>2, <3>3 DEF TypeInv, Owned
    <3> QED
      BY <3>1, <3>3, <3>4 DEF Home
  <2>3. Idle(d)'
    BY <1>1, <2>2 DEF LeaveUnheld, Idle
  <2>4. Abandoned(d)'
    <3>1. io.fds[c] \in Numbers
      BY <1>4 DEF PipesOf
    <3>2. \A x \in {io.fds[c].in, io.fds[c].out} : x \in Fds /\ io'.file[x] = Free
      BY <3>1, ClosingFacts DEF Numbers
    <3> QED
      BY <1>3, <1>5, <2>3, <3>1, <3>2 DEF Abandoned
  <2> QED
    BY <1>1, <1>2, <1>5, <2>1, <2>4 DEF Watches, Looked, Started, Drained, Ready, MayFail
<1>6. CASE d # c
  <2>1. conn'[d] = conn[d] /\ (Open(d)' <=> Open(d)) /\ Watches(d) /\ Ready(d)
    BY <1>1, <1>6 DEF WatchInv, Open
  <2>2. Looked(d)'
    <3>1. SUFFICES ASSUME Open(d) PROVE Looked(d)'
      BY <2>1 DEF Looked
    <3>2. io.fds[c].in # io.fds[d].in /\ io.fds[c].out # io.fds[d].out
      BY <1>1, <1>6, <3>1, Apart
    <3> QED
      BY <1>3, <2>1, <3>1, <3>2 DEF Watches, Looked
  <2>3. Abandoned(d)'
    <3>1. SUFFICES ASSUME ~Open(d) PROVE Abandoned(d)'
      BY <2>1 DEF Abandoned
    <3>2. Abandoned(d)
      BY <2>1 DEF Watches
    <3>3. Idle(d)'
      BY <1>6, <3>1, <3>2, ClosingFacts DEF Abandoned, Idle
    <3>4. \A x \in Fds : io.file[x] = Free => io'.file[x] = Free
      BY ClosingFacts
    <3> QED
      BY <1>3, <3>1, <3>2, <3>3, <3>4 DEF Abandoned, Numbers
  <2>4. Started(d)' /\ Drained(d)'
    BY <1>1, <1>2, <1>6, <2>1 DEF Watches, Started, Drained
  <2>5. Ready(d)'
    <3>1. Open(d) => fromBack'[d] = fromBack[d] /\ be'[d] = be[d]
      BY <1>6, ClosingFacts
    <3> QED
      BY <1>2, <1>3, <2>1, <3>1 DEF Ready, Ahead
  <2> QED
    BY <2>2, <2>3, <2>4, <2>5 DEF Watches
<1> QED
  BY <1>5, <1>6

(* The steps that leave the descriptors and their sets alone: what is left *)
(* to show.                                                                *)
LEMMA WatchStill ==
  ASSUME TypeInv, KeptInv, WatchInv, UNCHANGED io, NEW c \in Conns,
         conn'[c].state = conn[c].state, conn'[c].bout = conn[c].bout,
         \/ be'[c] = be[c] /\ toBack'[c] = toBack[c] /\ fromBack'[c] = fromBack[c]
         \/ Open(c) /\ (fromBack'[c] = fromBack[c] \/ fromBack'[c] # <<>>
                          \/ ~(Awaits(c)' /\ io.fds[c].in \in loop'.r))
                    /\ (be[c].up \/ ~be'[c].up),
         \/ Awaits(c)' => Awaits(c) /\ loop'.r = loop.r
         \/ ~(io.fds[c].in \in loop'.r /\ Open(c)) \/ fromBack'[c] # <<>> \/ ~be'[c].up,
         loop.pc = "start" <=> loop'.pc = "start",
         loop.pc = "start" => conn'[c] = conn[c],
         Drained(c)'
  PROVE  Watches(c)' /\ Ready(c)'
<1>1. Watches(c) /\ Ready(c) /\ (Open(c)' <=> Open(c))
  BY DEF WatchInv, Open
<1>2. Looked(c)'
  BY <1>1 DEF Watches, Looked
<1>3. Abandoned(c)'
  BY <1>1 DEF Watches, Abandoned, Idle
<1>4. Started(c)'
  BY <1>1 DEF Watches, Started
<1>5. Ready(c)'
  <2>1. be[c].up \/ ~be'[c].up
    OBVIOUS
  <2> QED
    BY <1>1, <2>1 DEF Ready
<1> QED
  BY <1>2, <1>3, <1>4, <1>5 DEF Watches

LEMMA WatchRead ==
  ASSUME OneFails, TypeInv, KeptInv, WatchInv, Read
  PROVE  WatchInv'
<1> DEFINE i == loop.i
           x == io.fds[i].in
           e == io.file[x].of
<1>0. /\ i \in Conns /\ loop.pc = "read" /\ {"line", "write"} \subseteq Points
      /\ \A c \in Conns : conn[c].bin = <<>>
  BY Fields DEF Read, At, Points, WatchInv, Watches, Drained
<1>1. ASSUME NEW n \in 1 .. Len(fromBack[e]), x \in loop.r, io.file[x].end = "in",
             conn' = [conn EXCEPT ![i].bin = SubSeq(fromBack[e], 1, n)],
             fromBack' = [fromBack EXCEPT ![e] = SubSeq(@, n + 1, Len(@))],
             Go("line"), UNCHANGED <<io, toBack, be>>
      PROVE  WatchInv'
  <2>1. Open(i) /\ e = i
    <3>1. Open(i)
      BY <1>0, <1>1, ReadOpen DEF At
    <3>2. PipesOf(i, io.file, io.fds[i])
      BY <1>0, <3>1 DEF KeptInv, Keeps
    <3> QED
      BY <3>1, <3>2 DEF PipesOf
  <2>2. loop'.pc = "line" /\ loop'.i = i /\ loop'.r = loop.r /\ Ahead
    BY <1>0, <1>1, GoFields, GoAhead
  <2>3. SUFFICES ASSUME NEW c \in Conns PROVE Watches(c)' /\ Ready(c)'
    BY DEF WatchInv
  <2> DEFINE q == SubSeq(fromBack[e], 1, n)
             rest == SubSeq(fromBack[e], n + 1, Len(fromBack[e]))
  <2>4. /\ conn' = [conn EXCEPT ![i].bin = q] /\ fromBack' = [fromBack EXCEPT ![e] = rest]
        /\ conn \in [Conns -> ConnRecords] /\ DOMAIN fromBack = Conns
    BY <1>1, Fields
  <2> HIDE DEF q, rest
  <2>5. /\ conn'[c].state = conn[c].state /\ conn'[c].bout = conn[c].bout
        /\ c # i => conn'[c].bin = conn[c].bin /\ fromBack'[c] = fromBack[c]
    BY <2>1, <2>4 DEF ConnRecords
  <2>6. Drained(c)'
    BY <1>0, <2>1, <2>2, <2>5 DEF Drained, Open
  <2>7. c = i => ~Awaits(c)'
    <3>1. i \in Nat
      BY <1>0, ConnsNumbers
    <3> QED
      BY <2>2, <3>1 DEF Awaits
  <2>8. be'[c] = be[c] /\ toBack'[c] = toBack[c] /\ UNCHANGED io
    BY <1>1
  <2>9. Awaits(c)' => Awaits(c) /\ loop'.r = loop.r
    BY <2>2 DEF Ahead
  <2> QED
    BY <1>0, <2>1, <2>2, <2>5, <2>6, <2>7, <2>8, <2>9, WatchStill
<1>2. CASE Go("write") /\ UNCHANGED <<conn, io, toBack, fromBack, be>>
  <2>1. SUFFICES ASSUME NEW c \in Conns PROVE Watches(c)' /\ Ready(c)'
    BY DEF WatchInv
  <2>2. loop'.pc = "write" /\ Ahead
    BY <1>0, <1>2, GoFields, GoAhead
  <2>3. Drained(c)'
    BY <1>0, <1>2 DEF Drained
  <2>4. Awaits(c)' => Awaits(c) /\ loop'.r = loop.r
    BY <2>2 DEF Ahead
  <2> QED
    BY <1>0, <1>2, <2>2, <2>3, <2>4, WatchStill
<1>3. ASSUME x \in loop.r, Close(i), Go("write"),
             io.file[x].end = "in" => ~be[io.file[x].of].up
      PROVE  WatchInv'
  <2>1. MayClose(i) /\ Open(i)
    BY <1>0, <1>3, FailsCloses, ReadCloses DEF At
  <2>2. Closing(i)
    BY <1>0, <1>3, <2>1 DEF Closing
  <2> QED
    BY <1>0, <2>2, WatchClosing
<1> QED
  BY <1>1, <1>2, <1>3 DEF Read

(* The steps of the thread that close nobody: the sets are what is left to *)
(* show.                                                                   *)
LEMMA WatchSame ==
  ASSUME TypeInv, KeptInv, WatchInv, NEW d \in Conns,
         io'.file = io.file, io'.fds = io.fds, SameSide(conn[d], conn'[d]),
         UNCHANGED <<fromBack, be>>, toBack'[d] = toBack[d] \/ Open(d),
         Ahead, loop.pc # "start", loop'.pc # "start", Looked(d)', Drained(d)'
  PROVE  Watches(d)' /\ Ready(d)'
<1>1. Watches(d) /\ Ready(d) /\ (Open(d)' <=> Open(d))
  BY DEF WatchInv, Open, SameSide
<1>2. Abandoned(d)'
  BY <1>1 DEF Watches, Abandoned, Idle
<1>3. Started(d)'
  BY <1>1 DEF Watches, Started
<1>4. Ready(d)'
  BY <1>1 DEF Ready, Ahead
<1> QED
  BY <1>2, <1>3, <1>4 DEF Watches

(* What was queued is watched for.                                         *)
LEMMA LookedAsked ==
  ASSUME TypeInv, KeptInv, WatchInv, NEW asked \in SUBSET Conns, \A c \in asked : Open(c),
         io'.fds = io.fds, io'.rfds = io.rfds,
         io'.wfds = io.wfds \cup {io.fds[c].out : c \in asked},
         NEW d \in Conns, SameSide(conn[d], conn'[d]),
         IF d \in asked THEN conn'[d].bout # <<>> ELSE conn'[d].bout = conn[d].bout
  PROVE  Looked(d)'
<1>1. Looked(d) /\ (Open(d)' <=> Open(d))
  BY DEF WatchInv, Watches, Open, SameSide
<1> SUFFICES ASSUME Open(d) PROVE Looked(d)'
  BY <1>1 DEF Looked
<1>2. \A c \in asked : c # d => io.fds[c].out # io.fds[d].out
  BY Apart
<1>3. io.fds[d].out \in io'.wfds <=> io.fds[d].out \in io.wfds \/ d \in asked
  BY <1>2
<1> QED
  BY <1>1, <1>3 DEF Looked

LEMMA WatchLine ==
  ASSUME TypeInv, KeptInv, WatchInv, ProcessLine
  PROVE  WatchInv'
<1> DEFINE c == loop.i
           r == Processed(c)
<1>0. /\ c \in Conns /\ conn[c].bin # <<>> /\ loop.pc = "line" /\ Open(c)
      /\ {"line", "write"} \subseteq Points
      /\ \A d \in Conns \ {c} : conn[d].bin = <<>>
  BY LineStep DEF Points, WatchInv, Watches, Drained
<1>1. CASE Closes(Rest(c), Head(conn[c].bin))
  <2>1. MayClose(c) /\ Close(c)
    BY <1>0, <1>1, LineStep, LineCloses
  <2>2. Go("write")
    BY <1>0, <2>1, LineStep, CloseFacts
  <2>3. Closing(c)
    BY <1>0, <2>1, <2>2 DEF Closing
  <2> QED
    BY <1>0, <2>3, WatchClosing
<1>2. CASE ~Closes(Rest(c), Head(conn[c].bin))
  <2>1. Handled(c, r) /\ UNCHANGED <<toBack, fromBack, be>>
    BY <1>2, LineStep
  <2>2. /\ r \in ConnRecords /\ SameSide(conn[c], r)
        /\ \/ r.watch = {"write"} /\ \E cmd \in Commands : r.bout = Append(conn[c].bout, cmd)
           \/ r.watch = {} /\ r.bout = conn[c].bout
    BY <1>0, <1>2, ProcessedFields
  <2> HIDE DEF r
  <2>3. /\ io'.file = io.file /\ io'.fds = io.fds
        /\ io'.rfds = IF "read" \in r.watch THEN io.rfds \cup {io.fds[c].in} ELSE io.rfds
        /\ io'.wfds = IF "write" \in r.watch THEN io.wfds \cup {io.fds[c].out} ELSE io.wfds
        /\ conn'[c] = Muted(r) /\ \A d \in Conns \ {c} : conn'[d] = conn[d]
    BY <1>0, <2>1, <2>2, HandledFacts
  <2>4. /\ conn'[c].state = r.state /\ conn'[c].bout = r.bout
    BY <2>2, <2>3, MutedFields
  <2> DEFINE asked == IF r.watch = {} THEN {} ELSE {c}
  <2>5. /\ asked \in SUBSET Conns /\ \A d \in asked : Open(d)
        /\ io'.rfds = io.rfds /\ io'.wfds = io.wfds \cup {io.fds[d].out : d \in asked}
    BY <1>0, <2>2, <2>3
  <2>6. /\ loop'.pc \in {"line", "write"} /\ Ahead
        /\ loop'.pc = "line" => loop'.i = c
        /\ loop'.pc = "write" => conn'[c].bin = <<>>
    <3>1. CASE conn'[c].bin = <<>> /\ Go("write")
      BY <1>0, <3>1, GoFields, GoAhead
    <3>2. CASE UNCHANGED loop
      BY <1>0, <3>2 DEF Ahead, Awaits
    <3> QED
      BY <3>1, <3>2, LineStep
  <2>7. SUFFICES ASSUME NEW d \in Conns PROVE Watches(d)' /\ Ready(d)'
    BY DEF WatchInv
  <2>8. IF d \in asked THEN conn'[d].bout # <<>> ELSE conn'[d].bout = conn[d].bout
    <3>1. CASE d = c
      <4>1. conn[c].bout \in Seq(Commands)
        BY <1>0, Fields DEF ConnRecords
      <4> QED
        BY <2>2, <2>4, <3>1, <4>1, Longer
    <3>2. CASE d # c
      BY <2>3, <3>2
    <3> QED
      BY <3>1, <3>2
  <2> HIDE DEF asked
  <2>9. SameSide(conn[d], conn'[d])
    BY <2>2, <2>3, <2>4 DEF SameSide
  <2>10. Looked(d)'
    BY <2>3, <2>5, <2>8, <2>9, LookedAsked
  <2>11. Drained(d)'
    <3>1. CASE d = c
      BY <1>0, <2>6, <2>9, <3>1 DEF Drained, SameSide, Open
    <3>2. CASE d # c
      BY <1>0, <2>3, <3>2 DEF Drained
    <3> QED
      BY <3>1, <3>2
  <2> QED
    BY <1>0, <2>1, <2>3, <2>6, <2>9, <2>10, <2>11, WatchSame
<1> QED
  BY <1>1, <1>2

LEMMA WatchWrite ==
  ASSUME TypeInv, KeptInv, WatchInv, Write
  PROVE  WatchInv'
<1> DEFINE i == loop.i
           x == io.fds[i].out
           u == text_delete_fd(io, i, {"write"})
<1>0. /\ i \in Conns /\ loop.pc = "write" /\ NextConn
      /\ \A d \in Conns : conn[d].bin = <<>>
  BY Fields DEF Write, At, WatchInv, Watches, Drained
<1>1. Ahead /\ loop'.pc # "start"
  BY <1>0, NextAhead, NextOnward
<1>2. /\ u.file = io.file /\ u.fds = io.fds
      /\ u.rfds = io.rfds /\ u.wfds = io.wfds \ {x}
  <2> DEFINE types == {"write"}
  <2>1. types \in SUBSET {"read", "write"} /\ "write" \in types /\ "read" \notin types
    OBVIOUS
  <2>2. io \in IOs /\ u = text_delete_fd(io, i, types)
    BY Fields
  <2> HIDE DEF types, u
  <2>3. Deletes(io, i, types, u)
    BY <1>0, <2>1, <2>2, DeleteFd
  <2> QED
    BY <2>1, <2>3 DEF Deletes
<1>3. conn[i].bout = <<>> => x \notin io.wfds
  <2>1. CASE Open(i)
    BY <1>0, <2>1 DEF WatchInv, Watches, Looked
  <2>2. CASE ~Open(i)
    BY <1>0, <2>2, Stale
  <2> QED
    BY <2>1, <2>2
<1> HIDE DEF u
<1>4. ASSUME io' = io \/ (io' = u /\ conn[i].bout = <<>>),
             UNCHANGED <<conn, toBack, fromBack, be>>
      PROVE  WatchInv'
  <2>1. /\ io'.file = io.file /\ io'.fds = io.fds
        /\ io'.rfds = io.rfds /\ io'.wfds = io.wfds
    BY <1>2, <1>3, <1>4
  <2>2. SUFFICES ASSUME NEW d \in Conns PROVE Watches(d)' /\ Ready(d)'
    BY DEF WatchInv
  <2>3. Looked(d)'
    BY <1>4, <2>1 DEF WatchInv, Watches, Looked, Open
  <2>4. Drained(d)' /\ SameSide(conn[d], conn'[d])
    BY <1>0, <1>4 DEF Drained, SameSide
  <2> QED
    BY <1>0, <1>1, <1>4, <2>1, <2>3, <2>4, WatchSame
<1>5. ASSUME NEW n \in 1 .. Len(conn[i].bout), x \in loop.w, io.file[x].end = "out",
             conn' = [conn EXCEPT ![i] = Written(conn[i], n)],
             toBack' = [toBack EXCEPT ![io.file[x].of] = @ \o SubSeq(conn[i].bout, 1, n)],
             io' = IF Written(conn[i], n).bout = <<>> THEN u ELSE io,
             UNCHANGED <<fromBack, be>>
      PROVE  WatchInv'
  <2>1. conn[i].bout # <<>> /\ Open(i)
    <3>1. conn[i].bout \in Seq(Commands)
      BY <1>0, Fields DEF ConnRecords
    <3>2. conn[i].bout # <<>>
      BY <1>5, <3>1, CutMore
    <3> QED
      BY <1>0, <3>2 DEF KeptInv, Keeps
  <2>2. io'.file = io.file /\ io'.fds = io.fds /\ io'.rfds = io.rfds
    BY <1>2, <1>5
  <2>3. SUFFICES ASSUME NEW d \in Conns PROVE Watches(d)' /\ Ready(d)'
    BY DEF WatchInv
  <2>4. /\ conn'[d].state = conn[d].state /\ conn'[d].bin = conn[d].bin
        /\ conn'[i].bout = Written(conn[i], n).bout
        /\ d # i => conn'[d].bout = conn[d].bout
    <3>1. \A b \in Conns : conn'[b] = IF b = i THEN Written(conn[i], n) ELSE conn[b]
      BY <1>5, Fields
    <3>2. CASE d = i
      BY <1>0, <3>1, <3>2, Fields, WrittenFields
    <3>3. CASE d # i
      BY <1>0, <3>1, <3>3
    <3> QED
      BY <3>2, <3>3
  <2>5. toBack'[d] = toBack[d] \/ Open(d)
    <3>1. PipesOf(i, io.file, io.fds[i])
      BY <1>0, <2>1 DEF KeptInv, Keeps
    <3>2. io.file[x].of = i
      BY <3>1 DEF PipesOf
    <3> QED
      BY <1>5, <2>1, <3>2, Fields
  <2>6. Looked(d)'
    <3>1. SUFFICES ASSUME Open(d) PROVE Looked(d)'
      BY <2>4 DEF Looked, Open
    <3>2. Looked(d) /\ Looked(i)
      BY <1>0 DEF WatchInv, Watches
    <3>3. CASE d = i
      <4>1. CASE conn'[i].bout = <<>>
        BY <1>2, <1>5, <2>2, <2>4, <3>1, <3>2, <3>3, <4>1 DEF Looked
      <4>2. CASE conn'[i].bout # <<>>
        BY <1>5, <2>1, <2>4, <3>1, <3>2, <3>3, <4>2 DEF Looked
      <4> QED
        BY <4>1, <4>2
    <3>4. CASE d # i
      <4>1. io.fds[d].out # x
        BY <1>0, <2>1, <3>1, <3>4, Apart
      <4>2. io.fds[d].out \in io'.wfds <=> io.fds[d].out \in io.wfds
        BY <1>2, <1>5, <4>1
      <4> QED
        BY <2>2, <2>4, <3>1, <3>2, <3>4, <4>2 DEF Looked
    <3> QED
      BY <3>3, <3>4
  <2>7. Drained(d)' /\ SameSide(conn[d], conn'[d])
    BY <1>0, <2>4 DEF Drained, SameSide
  <2> QED
    BY <1>0, <1>1, <1>5, <2>2, <2>5, <2>6, <2>7, WatchSame
<1>6. ASSUME conn[i].bout # <<>>, io.file[x].end = "out" => ~be[io.file[x].of].up, Close(i)
      PROVE  WatchInv'
  <2>1. MayClose(i) /\ Open(i)
    BY <1>0, <1>6, WriteCloses
  <2>2. Closing(i)
    BY <1>0, <1>6, <2>1 DEF Closing
  <2> QED
    BY <1>0, <2>2, WatchClosing
<1> QED
  BY <1>4, <1>5, <1>6 DEF Write, u

LEMMA WatchPoll ==
  ASSUME TypeInv, KeptInv, WatchInv, Poll, loop.next = 0
  PROVE  WatchInv'
<1> DEFINE asked == {d \in Conns : "write" \in Polled(d).watch}
<1>1. /\ io'.file = io.file /\ io'.fds = io.fds /\ io'.rfds = io.rfds
      /\ io'.wfds = io.wfds \cup {io.fds[c].out : c \in asked}
      /\ \A c \in Conns : conn'[c] = Muted(Polled(c))
      /\ UNCHANGED <<toBack, fromBack, be>>
  BY PollFacts DEF Poll
<1>2. loop'.pc = "select" /\ loop.pc = "poll"
  BY Fields DEF Poll, Loops, At
<1> SUFFICES ASSUME NEW d \in Conns PROVE Watches(d)' /\ Ready(d)'
  BY DEF WatchInv
<1>3. /\ Polled(d) \in ConnRecords /\ Polled(d).state = conn[d].state
      /\ Polled(d).bin = conn[d].bin
  BY PolledFields
<1>4. /\ conn'[d].state = conn[d].state /\ conn'[d].bin = conn[d].bin
      /\ conn'[d].bout = Polled(d).bout
  BY <1>1, <1>3, MutedFields
<1>5. \A c \in asked : Open(c)
  BY PolledFields DEF Open
<1>6. IF d \in asked THEN conn'[d].bout # <<>> ELSE conn'[d].bout = conn[d].bout
  <2>1. \/ /\ Polled(d).watch = {"write"}
           /\ Polled(d).bout = Append(conn[d].bout, Command("POLL", NoArg))
        \/ Polled(d).watch = {} /\ Polled(d).bout = conn[d].bout
    BY PolledFields
  <2>2. conn[d].bout \in Seq(Commands) /\ Command("POLL", NoArg) \in Commands
    BY Fields DEF ConnRecords, Command, Commands
  <2>3. d \in asked <=> "write" \in Polled(d).watch
    OBVIOUS
  <2> HIDE DEF asked
  <2>4. Append(conn[d].bout, Command("POLL", NoArg)) # <<>>
    BY <2>2, Longer
  <2> QED
    BY <1>4, <2>1, <2>3, <2>4
<1>7. asked \in SUBSET Conns
  OBVIOUS
<1> HIDE DEF asked
<1>8. SameSide(conn[d], conn'[d]) /\ Ahead
  BY <1>2, <1>4 DEF SameSide, Ahead, Awaits
<1>9. Looked(d)'
  BY <1>1, <1>5, <1>6, <1>7, <1>8, LookedAsked
<1>10. Drained(d)'
  BY <1>2, <1>4 DEF Drained, WatchInv, Watches
<1> QED
  BY <1>1, <1>2, <1>8, <1>9, <1>10, WatchSame

LEMMA WatchKept ==
  OneFails /\ TypeInv /\ KeptInv /\ WatchInv /\ [Next]_vars => WatchInv'
<1> SUFFICES ASSUME OneFails, TypeInv, KeptInv, WatchInv, [Next]_vars PROVE WatchInv'
  OBVIOUS
<1> USE DEF Points
<1>0. \A c \in Conns : Drained(c)
  BY DEF WatchInv, Watches
<1>1. ASSUME UNCHANGED <<conn, io, toBack, fromBack, be>>, Ahead,
             loop.pc = "start" <=> loop'.pc = "start", \A c \in Conns : Drained(c)'
      PROVE  WatchInv'
  <2>1. SUFFICES ASSUME NEW c \in Conns PROVE Watches(c)' /\ Ready(c)'
    BY DEF WatchInv
  <2>2. Awaits(c)' => Awaits(c) /\ loop'.r = loop.r
    BY <1>1 DEF Ahead
  <2> QED
    BY <1>1, <2>2, WatchStill
<1>2. CASE Start \/ Retry
  BY <1>2, WatchRetry
<1>3. CASE Select
  <2>1. /\ loop'.pc = "retry" /\ loop'.r = ReadyToRead /\ loop.pc = "select"
        /\ UNCHANGED <<conn, io, toBack, fromBack, be>>
    BY <1>3, Fields DEF Select, Loops, At
  <2>2. SUFFICES ASSUME NEW c \in Conns PROVE Watches(c)' /\ Ready(c)'
    BY DEF WatchInv
  <2>3. Open(c) /\ io.fds[c].in \in ReadyToRead => fromBack[c] # <<>> \/ ~be[c].up
    <3>1. SUFFICES ASSUME Open(c), io.fds[c].in \in ReadyToRead
                   PROVE  fromBack[c] # <<>> \/ ~be[c].up
      OBVIOUS
    <3>2. PipesOf(c, io.file, io.fds[c])
      BY <3>1 DEF KeptInv, Keeps
    <3>3. io.file[io.fds[c].in].of = c
      BY <3>2 DEF PipesOf
    <3> QED
      BY <3>1, <3>3 DEF ReadyToRead, Readable
  <2>4. Drained(c)'
    BY <1>0, <2>1 DEF Drained
  <2> QED
    BY <2>1, <2>3, <2>4, WatchStill
<1>4. CASE Return \/ Abort
  <2>1. /\ loop'.pc \in {"returned", "aborted"} /\ loop.pc \in {"select", "read"}
        /\ UNCHANGED <<conn, io, toBack, fromBack, be>>
    BY <1>4, GoFields DEF Return, Abort, At
  <2>2. Ahead
    BY <2>1 DEF Ahead, Awaits
  <2> QED
    BY <1>0, <1>1, <2>1, <2>2 DEF Drained
<1>5. CASE Read
  BY <1>5, WatchRead
<1>6. CASE ProcessLine
  BY <1>6, WatchLine
<1>7. CASE Write
  BY <1>7, WatchWrite
<1>8. CASE Poll
  <2>1. CASE loop.next = 0
    BY <1>8, <2>1, WatchPoll
  <2>2. CASE loop.next # 0
    <3>1. /\ loop'.pc = "select" /\ loop.pc = "poll"
          /\ UNCHANGED <<conn, io, toBack, fromBack, be>>
      BY <1>8, <2>2, GoFields DEF Poll, At
    <3>2. Ahead
      BY <3>1 DEF Ahead, Awaits
    <3> QED
      BY <1>0, <1>1, <3>1, <3>2 DEF Drained
  <2> QED
    BY <2>1, <2>2
<1>9. CASE Tick
  <2>1. /\ loop'.pc = "select" /\ loop.pc = "select" /\ UNCHANGED <<io, toBack, fromBack, be>>
    BY <1>9, Fields DEF Tick, At, Loops
  <2>2. SUFFICES ASSUME NEW c \in Conns PROVE Watches(c)' /\ Ready(c)'
    BY DEF WatchInv
  <2>3. /\ conn'[c].state = conn[c].state /\ conn'[c].bin = conn[c].bin
        /\ conn'[c].bout = conn[c].bout
    BY <1>9, TickFields
  <2>4. ~Awaits(c)' /\ Drained(c)'
    BY <1>0, <2>1, <2>3 DEF Awaits, Drained
  <2> QED
    BY <2>1, <2>3, <2>4, WatchStill
<1>10. ASSUME NEW d \in Conns, BackStep(d) PROVE WatchInv'
  <2>1. BackEndStep(d) /\ UNCHANGED <<conn, io, loop>> /\ BackTypeOK
    BY <1>10 DEF BackStep, TypeInv, TypeOK
  <2>2. SUFFICES ASSUME NEW c \in Conns PROVE Watches(c)' /\ Ready(c)'
    BY DEF WatchInv
  <2>3. Drained(c)'
    BY <1>0, <2>1 DEF Drained, Open
  <2>4. Awaits(c)' => Awaits(c) /\ loop'.r = loop.r
    BY <2>1 DEF Awaits
  <2>5. CASE c = d
    <3>1. be[c].up /\ (fromBack'[c] = fromBack[c] \/ fromBack'[c] # <<>>)
      BY <2>1, <2>5, BackEndSays
    <3>2. Open(c)
      BY <3>1 DEF WatchInv, Watches, Abandoned, Idle, Gone
    <3> QED
      BY <2>1, <2>3, <2>4, <3>1, <3>2, WatchStill
  <2>6. CASE c # d
    <3>1. toBack'[c] = toBack[c] /\ fromBack'[c] = fromBack[c] /\ be'[c] = be[c]
      BY <2>1, <2>6, BackEndOthers
    <3> QED
      BY <2>1, <2>3, <2>4, <3>1, WatchStill
  <2> QED
    BY <2>5, <2>6
<1>11. CASE UNCHANGED vars
  <2>1. UNCHANGED <<conn, io, toBack, fromBack, be>> /\ UNCHANGED loop
    BY <1>11 DEF vars
  <2>2. Ahead /\ \A c \in Conns : Drained(c)'
    BY <1>0, <2>1 DEF Ahead, Awaits, Drained, Open
  <2> QED
    BY <1>1, <2>1, <2>2
<1> QED
  BY <1>2, <1>3, <1>4, <1>5, <1>6, <1>7, <1>8, <1>9, <1>10, <1>11 DEF Next, LoopStep

LEMMA WatchInvariant ==
  ASSUME Conns # {}, OneFails PROVE Spec => [](TypeInv /\ KeptInv /\ WatchInv)
<1>1. Init => WatchInv
  BY WatchInit
<1>2. TypeInv /\ KeptInv /\ WatchInv /\ [Next]_vars => WatchInv'
  BY WatchKept
<1>3. Spec => [](TypeInv /\ KeptInv)
  BY FailsCloses, KeptInvariant
<1> QED
  BY <1>1, <1>2, <1>3, PTL DEF Spec

(* While only one connection has trouble, select is asked in each          *)
(* iteration for exactly the descriptors the open connections need, each   *)
(* still its own and below maxfd: no connection misses a line, or waits to *)
(* be written to without need, because of what became of another's numbers *)
(* (gui_text.c:97-133, proto.c:275-294).                                   *)
THEOREM TextWatchedServed ==
  ASSUME Conns # {}, OneFails PROVE Spec => []WatchedServed
<1>1. TypeInv /\ KeptInv /\ WatchInv => WatchedServed
  <2> SUFFICES ASSUME TypeInv, KeptInv, WatchInv, NEW c \in Conns, Open(c)
               PROVE  LET f == io.fds[c]
                      IN  /\ io.file[f.in] = [of |-> c, end |-> "in"]
                          /\ io.file[f.out] = [of |-> c, end |-> "out"]
                          /\ f.in \in io.rfds /\ f.in < io.maxfd
                          /\ f.out \in io.wfds <=> conn[c].bout # <<>>
                          /\ f.out \in io.wfds => f.out < io.maxfd
    BY DEF WatchedServed
  <2>1. PipesOf(c, io.file, io.fds[c]) /\ SetsInv
    BY DEF KeptInv, Keeps
  <2>2. Looked(c)
    BY DEF WatchInv, Watches
  <2> QED
    BY <2>1, <2>2 DEF PipesOf, SetsInv, Looked
<1> QED
  BY <1>1, WatchInvariant, PTL

(* The thread does not stop in a read while other connections wait: what   *)
(* select found is there when the connection's turn comes, although others *)
(* were read, closed and opened in between (gui_text.c:143-155).           *)
THEOREM TextNeverBlocks == ASSUME Conns # {}, OneFails PROVE Spec => []NeverBlocks
<1>1. OneFails /\ TypeInv /\ KeptInv /\ WatchInv => NeverBlocks
  <2> SUFFICES ASSUME OneFails, TypeInv, KeptInv, WatchInv,
                      At("read"), io.fds[loop.i].in \in loop.r
               PROVE  LET e == io.file[io.fds[loop.i].in]
                      IN  e.end = "in" => fromBack[e.of] # <<>> \/ ~be[e.of].up
    BY DEF NeverBlocks
  <2> DEFINE i == loop.i
  <2>1. i \in Conns /\ Open(i)
    BY Fields, ReadOpen
  <2>2. io.file[io.fds[i].in].of = i
    <3>1. PipesOf(i, io.file, io.fds[i])
      BY <2>1 DEF KeptInv, Keeps
    <3> QED
      BY <3>1 DEF PipesOf
  <2>3. Awaits(i)
    <3>1. \A k \in Nat : k >= k
      OBVIOUS
    <3> QED
      BY <2>1, <3>1, ConnsNumbers DEF Awaits, At
  <2> QED
    BY <2>1, <2>2, <2>3 DEF WatchInv, Ready
<1> QED
  BY <1>1, WatchInvariant, PTL

(* Nor is a connection served after it was closed: what select found at    *)
(* its numbers is not taken for something of the connection that has them  *)
(* now.  With two that fail it is (gui_text.c:147, 153).                   *)
THEOREM TextClosedNotServed == ASSUME Conns # {}, OneFails PROVE Spec => []ClosedNotServed
<1>1. OneFails /\ TypeInv /\ KeptInv /\ WatchInv => ClosedNotServed
  <2> SUFFICES ASSUME OneFails, TypeInv, KeptInv, WatchInv PROVE ClosedNotServed
    OBVIOUS
  <2>1. At("read") /\ io.fds[loop.i].in \in loop.r => Open(loop.i)
    BY ReadOpen
  <2>2. io.fds[loop.i].out \in loop.w /\ ~Open(loop.i) => io.file[io.fds[loop.i].out] = Free
    BY Fields, Stale
  <2> QED
    BY <2>1, <2>2 DEF ClosedNotServed
<1> QED
  BY <1>1, WatchInvariant, PTL

-------------------------------------------------------------------------------
(* The loop implements Frontend *)

(* All lines of a chunk count as read.                                     *)
Whole(s) == [s EXCEPT !.watch = Needs(s)]

LEMMA WholeIsView == \A s \in ConnRecords : Whole(s) = View(s, s.bin)
BY DEF Whole, View, With, ConnRecords

LEMMA WholeFields ==
  ASSUME NEW s \in ConnRecords
  PROVE  /\ Whole(s) \in ConnRecords /\ Whole(s).watch = Needs(s)
         /\ Whole(s).state = s.state /\ Whole(s).pending = s.pending /\ Whole(s).wait = s.wait
         /\ Whole(s).bin = s.bin /\ Whole(s).bout = s.bout
<1>1. s.bin \in Seq(Lines)
  BY DEF ConnRecords
<1> QED
  BY <1>1, WholeIsView, ViewFields

LEMMA WholeBin ==
  ASSUME NEW s \in ConnRecords, NEW q
  PROVE  Whole([s EXCEPT !.bin = q]) = [Whole(s) EXCEPT !.bin = q]
BY DEF Whole, Needs, ConnRecords

LEMMA WholeCloses ==
  ASSUME NEW s \in ConnRecords, NEW q
  PROVE  /\ Whole(connection_close(s)) = connection_close(s)
         /\ connection_close(Whole(s)) = connection_close(s)
         /\ connection_close([Whole(s) EXCEPT !.bin = q]) = connection_close(s)
<1>1. connection_close(s).watch = {} /\ connection_close(s).state = "PENALTY_BOX"
  BY DEF connection_close, ConnRecords
<1>2. Whole(connection_close(s)) = connection_close(s)
  BY <1>1 DEF Whole, Needs, connection_close, ConnRecords
<1> QED
  BY <1>2, ZenonT(60) DEF Whole, connection_close, ConnRecords

LEMMA WholeAges ==
  ASSUME NEW s \in ConnRecords
  PROVE  Whole([s EXCEPT !.wait = IF @ > 0 THEN @ - 1 ELSE 0])
           = [Whole(s) EXCEPT !.wait = IF @ > 0 THEN @ - 1 ELSE 0]
<1> DEFINE w == IF s.wait > 0 THEN s.wait - 1 ELSE 0
<1>1. w \in Nat /\ Whole(s).wait = s.wait
  BY WholeFields DEF ConnRecords
<1> HIDE DEF w
<1>2. Whole([s EXCEPT !.wait = w]) = [Whole(s) EXCEPT !.wait = w]
  BY <1>1 DEF Whole, Needs, ConnRecords
<1> QED
  BY <1>1, <1>2 DEF w

LEMMA WholeOpens ==
  ASSUME NEW s \in ConnRecords, s.state = "PENALTY_BOX", s.bout = <<>>
  PROVE  Whole(Muted(proto_init_conn(s))) = proto_init_conn(Whole(s))
<1> DEFINE r == Muted(proto_init_conn(s))
<1>1. r \in ConnRecords /\ r.bin = s.bin
  BY DEF Muted, proto_init_conn, ConnRecords, CStates
<1>2. View(r, s.bin) = proto_init_conn(View(s, s.bin))
  BY InitViews
<1> HIDE DEF r
<1> QED
  BY <1>1, <1>2, WholeIsView DEF r

LEMMA WholeWrites ==
  ASSUME NEW s \in ConnRecords, s.state # "PENALTY_BOX", NEW n \in 1 .. Len(s.bout)
  PROVE  Whole(Written(s, n)) = Written(Whole(s), n)
<1>1. s.bin \in Seq(Lines)
  BY DEF ConnRecords
<1>2. Written(s, n).bin = s.bin
  BY DEF Written, ConnRecords
<1> DEFINE rest == SubSeq(s.bout, n + 1, Len(s.bout))
           w == IF rest = <<>> THEN s.watch \ {"write"} ELSE s.watch
<1>3. Written(s, n) \in ConnRecords
  <2>1. s.bout \in Seq(Commands) /\ s.watch \in SUBSET {"read", "write"}
    BY DEF ConnRecords
  <2>2. rest \in Seq(Commands)
    BY <2>1, CutCommands
  <2>3. w \in SUBSET {"read", "write"}
    BY <2>1
  <2>4. Written(s, n) = [s EXCEPT !.bout = rest, !.watch = w]
    BY DEF Written
  <2> HIDE DEF rest, w
  <2> QED
    BY <2>2, <2>3, <2>4 DEF ConnRecords
<1> QED
  BY <1>1, <1>2, <1>3, WholeIsView, WrittenViews

LEMMA WholePolls ==
  ASSUME NEW s \in ConnRecords, s.watch = {}
  PROVE  Whole(Muted(PollOf(s))) = PollOf(Whole(s))
<1>1. s.bin \in Seq(Lines)
  BY DEF ConnRecords
<1>2. PollOf(s) \in ConnRecords /\ PollOf(s).bin = s.bin
  BY PollFields DEF PollOf
<1>3. Muted(PollOf(s)) \in ConnRecords /\ Muted(PollOf(s)).bin = s.bin
  BY <1>2, MutedFields
<1> QED
  BY <1>1, <1>3, WholeIsView, PolledViews

LEMMA WholeLines ==
  ASSUME NEW c \in Conns, NEW s, Shape(c, s), s.watch = {}, s.state # "PENALTY_BOX",
         NEW line \in Lines, NEW have \in BOOLEAN, ~Closes(s, line)
  PROVE  Whole(Muted(proto_process_line(c, s, line, have)))
           = proto_process_line(c, Whole(s), line, have)
<1> DEFINE r == proto_process_line(c, s, line, have)
<1>1. s \in ConnRecords /\ s.bin \in Seq(Lines)
  BY DEF Shape, ConnRecords
<1>2. r \in ConnRecords /\ r.bin = s.bin
  BY LineEffect DEF Shape
<1>3. View(Muted(r), s.bin) = proto_process_line(c, View(s, s.bin), line, have)
  BY <1>1, LineViews
<1> HIDE DEF r
<1>4. Muted(r) \in ConnRecords /\ Muted(r).bin = s.bin
  BY <1>2, MutedFields
<1> QED
  BY <1>1, <1>3, <1>4, WholeIsView DEF r

LEMMA SeenIsWhole == WatchInv => \A c \in Conns : Seen(c) = Whole(conn[c])
<1> SUFFICES ASSUME WatchInv, NEW c \in Conns PROVE Seen(c) = Whole(conn[c])
  OBVIOUS
<1> DEFINE w == IF ~Open(c) THEN {}
                ELSE {t \in {"read", "write"} :
                        IF t = "read" THEN io.fds[c].in \in io.rfds ELSE io.fds[c].out \in io.wfds}
<1>1. Looked(c)
  BY DEF WatchInv, Watches
<1>2. w = Needs(conn[c])
  BY <1>1 DEF Looked, Open, Needs
<1>3. Seen(c) = [conn[c] EXCEPT !.watch = w]
  BY DEF Seen
<1> HIDE DEF w
<1> QED
  BY <1>2, <1>3 DEF Whole

(* The operators on records are the same seen from Frontend.               *)
LEMMA SameConnection ==
  /\ F!connection_init = connection_init
  /\ F!NoArg = NoArg
  /\ \A v, f : F!Command(v, f) = Command(v, f) /\ F!Line(v, f) = Line(v, f)
  /\ \A s : F!connection_close(s) = connection_close(s)
  /\ \A c, s, f : /\ F!connection_do_update(c, s, f) = connection_do_update(c, s, f)
                  /\ F!connection_do_reset(c, s, f) = connection_do_reset(c, s, f)
<1>1. \A n : F!Doubled(n) = Doubled(n)
  BY DEF F!Doubled, Doubled
<1>2. \A acts : F!FlagSteps(acts) = FlagSteps(acts)
  BY DEF F!FlagSteps, FlagSteps
<1>3. \A flag, acts : F!Performed(flag, acts) = Performed(flag, acts)
  BY <1>2 DEF F!Performed, Performed
<1>4. \A c, f : F!FirstMatch(c, f) = FirstMatch(c, f)
  BY DEF F!FirstMatch, FirstMatch, F!Matches, Matches
<1>5. \A c, s, f : F!ResetFires(c, s, f) <=> ResetFires(c, s, f)
  BY <1>4 DEF F!ResetFires, ResetFires
<1>6. \A c, s, f : F!connection_do_update(c, s, f) = connection_do_update(c, s, f)
  BY <1>3, <1>4 DEF F!connection_do_update, connection_do_update
<1>7. \A c, s, f : F!connection_do_reset(c, s, f) = connection_do_reset(c, s, f)
  BY <1>3, <1>4, <1>5 DEF F!connection_do_reset, connection_do_reset
<1>8. \A s : F!connection_close(s) = connection_close(s)
  BY <1>1 DEF F!connection_close, connection_close
<1>9. F!NoArg = NoArg
  BY DEF F!NoArg, NoArg
<1>10. \A v, f : F!Command(v, f) = Command(v, f) /\ F!Line(v, f) = Line(v, f)
  BY DEF F!Command, Command, F!Line, Line
<1>11. F!connection_init = connection_init
  BY DEF F!connection_init, connection_init
<1> QED
  BY <1>6, <1>7, <1>8, <1>9, <1>10, <1>11

LEMMA SameProto ==
  /\ \A s : /\ F!proto_init_conn(s) = proto_init_conn(s)
            /\ F!proto_poll_conn(s) = proto_poll_conn(s)
            /\ F!WantsPoll(s) <=> WantsPoll(s)
            /\ F!WantsRetry(s) <=> WantsRetry(s)
  /\ \A s, line : F!Closes(s, line) <=> Closes(s, line)
  /\ \A s, n : F!Written(s, n) = Written(s, n)
  /\ \A c, s, line, have :
       F!proto_process_line(c, s, line, have) = proto_process_line(c, s, line, have)
<1>1. \A s, cmd : F!Send(s, cmd) = Send(s, cmd)
  BY DEF F!Send, Send
<1>2. \A s : F!proto_poll_conn(s) = proto_poll_conn(s)
  BY <1>1, SameConnection DEF F!proto_poll_conn, proto_poll_conn
<1>3. \A c, s : F!proto_add_next_folder(c, s) = proto_add_next_folder(c, s)
  BY <1>1, <1>2, SameConnection DEF F!proto_add_next_folder, proto_add_next_folder
<1>4. \A s : F!ProcessStatus(s) = ProcessStatus(s)
  BY DEF F!ProcessStatus, ProcessStatus
<1>5. \A c, s : F!ProcessOk(c, s) = ProcessOk(c, s)
  BY <1>3, <1>4 DEF F!ProcessOk, ProcessOk, F!ProcessHello, ProcessHello,
                    F!ProcessFolderOk, ProcessFolderOk
<1>6. \A s : F!ProcessNo(s) = ProcessNo(s)
  BY <1>4, SameConnection DEF F!ProcessNo, ProcessNo
<1>7. \A s, have : F!ProcessDataRequest(s, have) = ProcessDataRequest(s, have)
  BY <1>1, SameConnection DEF F!ProcessDataRequest, ProcessDataRequest, F!Respond, Respond
<1>8. ASSUME NEW c, NEW s, NEW line, NEW have
      PROVE  F!proto_process_line(c, s, line, have) = proto_process_line(c, s, line, have)
  BY <1>5, <1>6, <1>7, SameConnection DEF F!proto_process_line, proto_process_line
<1>9. \A s, line : F!Closes(s, line) <=> Closes(s, line)
  BY DEF F!Closes, Closes
<1>10. \A s, n : F!Written(s, n) = Written(s, n)
  BY DEF F!Written, Written
<1>11. \A s : /\ F!proto_init_conn(s) = proto_init_conn(s)
              /\ F!WantsPoll(s) <=> WantsPoll(s)
              /\ F!WantsRetry(s) <=> WantsRetry(s)
  BY DEF F!proto_init_conn, proto_init_conn, F!WantsPoll, WantsPoll, F!WantsRetry, WantsRetry
<1> QED
  BY <1>2, <1>8, <1>9, <1>10, <1>11

LEMMA SameBackEnd ==
  /\ F!Gone = Gone /\ F!Fresh = Fresh
  /\ F!BackInit <=> BackInit
  /\ \A c : F!BackEndStep(c) <=> BackEndStep(c)
<1>1. F!Gone = Gone
  BY DEF F!Gone, Gone
<1>2. F!Fresh = Fresh
  BY <1>1 DEF F!Fresh, Fresh
<1>3. F!BackInit <=> BackInit
  BY <1>1 DEF F!BackInit, BackInit
<1>4. ASSUME NEW c PROVE F!BackEndStep(c) <=> BackEndStep(c)
  <2>1. \A line : F!Say(c, line) <=> Say(c, line)
    BY DEF F!Say, Say
  <2>2. F!Greet(c) <=> Greet(c)
    BY <2>1, SameConnection DEF F!Greet, Greet
  <2>3. F!Answer(c) <=> Answer(c)
    BY <2>1, SameConnection DEF F!Answer, Answer
  <2>4. F!Notify(c) <=> Notify(c)
    BY <2>1, SameConnection DEF F!Notify, Notify, F!Spoken, Spoken
  <2>5. F!Ask(c) <=> Ask(c)
    BY <2>1, SameConnection DEF F!Ask, Ask
  <2>6. F!Chatter(c) <=> Chatter(c)
    BY <2>1, SameConnection DEF F!Chatter, Chatter
  <2>7. F!Exit(c) <=> Exit(c)
    BY DEF F!Exit, Exit
  <2> QED
    BY <2>2, <2>3, <2>4, <2>5, <2>6, <2>7 DEF F!BackEndStep, BackEndStep
<1> QED
  BY <1>1, <1>2, <1>3, <1>4

(* The loop's connections as Frontend sees them.                           *)
Front == [c \in Conns |-> Whole(conn[c])]

LEMMA FrontIsSeen ==
  ASSUME WatchInv, WatchInv'
  PROVE  /\ [c \in Conns |-> Seen(c)] = Front
         /\ [c \in Conns |-> Seen(c)]' = Front'
<1>1. \A c \in Conns : Seen(c) = Whole(conn[c])
  BY SeenIsWhole
<1>2. (\A c \in Conns : Seen(c) = Whole(conn[c]))'
  BY SeenIsWhole, PTL
<1> QED
  BY <1>1, <1>2 DEF Front

LEMMA FrontInit == ASSUME Init PROVE F!Init
<1>1. \A c \in Conns : conn[c] = connection_init /\ BackInit
  BY DEF Init
<1>2. Whole(connection_init) = connection_init
  <2>1. Needs(connection_init) = {} /\ connection_init.watch = {}
    BY InitRecord DEF Needs, connection_init
  <2> QED
    BY <2>1, InitRecord DEF Whole, ConnRecords
<1>3. WatchInv
  BY WatchInit
<1>4. \A c \in Conns : Seen(c) = connection_init
  BY <1>1, <1>2, <1>3, SeenIsWhole
<1> QED
  BY <1>1, <1>4, SameConnection, SameBackEnd DEF F!Init, Init

(* Outside the loop over the lines of a chunk the thread is free.          *)
LEMMA NotBusy ==
  ASSUME TypeInv, WatchInv, loop.pc # "line"
  PROVE  \A c \in Conns : Front[c].bin = <<>>
BY Fields, WholeFields DEF Front, WatchInv, Watches, Drained

LEMMA FrontRetry ==
  ASSUME TypeInv, KeptInv, WatchInv, WatchInv', Start \/ Retry
  PROVE  F!proto_do_retries \/ UNCHANGED <<Front, toBack, fromBack, be>>
<1>1. proto_do_retries /\ loop.pc # "line"
  BY DEF Start, Retry, At
<1>2. PICK started : Starts(started)
  BY <1>1, RetryOpens
<1>3. /\ started \in SUBSET (Conns \ OpenIn(conn))
      /\ \A c \in started : WantsRetry(conn[c]) /\ conn'[c] = Muted(proto_init_conn(conn[c]))
      /\ \A c \in Conns \ started : WantsRetry(conn[c]) => "refuse" \in Faults[c]
      /\ \A c \in Conns \ started : conn'[c] = conn[c]
      /\ be' = [c \in Conns |-> IF c \in started THEN Fresh ELSE be[c]]
      /\ UNCHANGED <<toBack, fromBack>>
  BY <1>2 DEF Starts
<1>4. \A c \in Conns : Front'[c] = IF c \in started THEN proto_init_conn(Front[c]) ELSE Front[c]
  <2> SUFFICES ASSUME NEW c \in Conns
               PROVE  Whole(conn'[c]) = IF c \in started THEN proto_init_conn(Whole(conn[c])) ELSE Whole(conn[c])
    BY DEF Front
  <2>1. CASE c \in started
    <3>1. conn[c] \in ConnRecords /\ conn[c].state = "PENALTY_BOX" /\ conn[c].bout = <<>>
      BY <1>3, <2>1, Fields DEF WantsRetry, KeptInv, Keeps, Open
    <3> QED
      BY <1>3, <2>1, <3>1, WholeOpens
  <2>2. CASE c \notin started
    BY <1>3, <2>2
  <2> QED
    BY <2>1, <2>2
<1>5. CASE started = {}
  <2>1. \A c \in Conns : be'[c] = be[c] /\ Front'[c] = Front[c]
    BY <1>3, <1>4, <1>5
  <2>2. be' = be
    BY <1>3, <2>1, Fields
  <2>3. Front' = Front
    BY <2>1 DEF Front
  <2> QED
    BY <1>3, <2>2, <2>3
<1>6. CASE started # {}
  <2>1. \A c \in Conns : WantsRetry(Front[c]) <=> WantsRetry(conn[c])
    BY Fields, WholeFields DEF Front, WantsRetry
  <2>2. started \in SUBSET {c \in Conns : WantsRetry(Front[c])}
    BY <1>3, <2>1
  <2>3. \A c \in Conns : WantsRetry(Front[c]) /\ c \notin started => "refuse" \in Faults[c]
    BY <1>3, <2>1
  <2>4. \A c \in Conns : Front[c].bin = <<>>
    BY <1>1, NotBusy
  <2>5. Front' = [c \in Conns |-> IF c \in started THEN proto_init_conn(Front[c]) ELSE Front[c]]
    BY <1>4 DEF Front
  <2>6. [c \in Conns |-> Seen(c)] = Front /\ [c \in Conns |-> Seen(c)]' = Front'
    BY FrontIsSeen
  <2> HIDE DEF Front
  <2>7. F!proto_do_retries
    BY <1>3, <1>6, <2>2, <2>3, <2>4, <2>5, <2>6, SameProto, SameBackEnd
       DEF F!proto_do_retries, F!Busy
  <2> QED
    BY <2>7
<1> QED
  BY <1>5, <1>6

(* One connection is closed: its pipes are gone, the others' are as before.*)
LEMMA FrontCloses ==
  ASSUME TypeInv, TypeInv', KeptInv, WatchInv, WatchInv', NEW c \in Conns, Closing(c)
  PROVE  /\ Front' = [Front EXCEPT ![c] = connection_close(conn[c])]
         /\ F!Disconnect(c)
<1>1. Close(c) /\ Open(c) /\ conn[c] \in ConnRecords
  BY Fields DEF Closing
<1>2. conn'[c] = connection_close(conn[c]) /\ ~Open(c)' /\ \A d \in Conns \ {c} : conn'[d] = conn[d]
  BY <1>1, CloseFacts DEF Open
<1>3. Whole(connection_close(conn[c])) = connection_close(conn[c])
  BY <1>1, WholeCloses
<1>4. Front' = [Front EXCEPT ![c] = connection_close(conn[c])]
  BY <1>2, <1>3 DEF Front
<1>5. Idle(c)'
  BY <1>2 DEF WatchInv, Watches, Abandoned
<1>6. ASSUME NEW d \in Conns \ {c}
      PROVE  toBack'[d] = toBack[d] /\ fromBack'[d] = fromBack[d] /\ be'[d] = be[d]
  <2>1. \/ toBack'[d] = toBack[d] /\ fromBack'[d] = fromBack[d] /\ be'[d] = be[d]
        \/ toBack'[d] = <<>> /\ fromBack'[d] = <<>> /\ be'[d] = Gone
    BY ClosingFacts
  <2>2. Open(d) => toBack'[d] = toBack[d] /\ fromBack'[d] = fromBack[d] /\ be'[d] = be[d]
    BY ClosingFacts
  <2>3. ~Open(d) => Idle(d)
    BY DEF WatchInv, Watches, Abandoned
  <2> QED
    BY <2>1, <2>2, <2>3 DEF Idle
<1>7. /\ toBack' \in [Conns -> Seq(Commands)] /\ fromBack' \in [Conns -> Seq(Lines)]
      /\ be' \in [Conns -> BackEnds]
  BY DEF TypeInv, TypeOK, BackTypeOK
<1>8. F!Disconnect(c)
  BY <1>5, <1>6, <1>7, Fields, SameBackEnd DEF F!Disconnect, Idle
<1> QED
  BY <1>4, <1>8

LEMMA FrontRead ==
  ASSUME OneFails, TypeInv, TypeInv', KeptInv, WatchInv, WatchInv', Read
  PROVE  F!Next \/ UNCHANGED <<Front, toBack, fromBack, be>>
<1> DEFINE i == loop.i
           x == io.fds[i].in
<1>1. i \in Conns /\ loop.pc = "read" /\ At("read")
  BY Fields DEF Read, At
<1>2. [c \in Conns |-> Seen(c)] = Front /\ [c \in Conns |-> Seen(c)]' = Front'
  BY FrontIsSeen
<1>3. \A c \in Conns : Front[c].bin = <<>>
  BY <1>1, NotBusy
<1>4. CASE UNCHANGED <<conn, io, toBack, fromBack, be>>
  BY <1>4 DEF Front
<1>5. ASSUME x \in loop.r
      PROVE  /\ Open(i) /\ io.file[x].end = "in" /\ io.file[x].of = i
             /\ "read" \in Front[i].watch
  <2>1. Open(i)
    BY <1>1, <1>5, ReadOpen
  <2>2. PipesOf(i, io.file, io.fds[i])
    BY <1>1, <2>1 DEF KeptInv, Keeps
  <2>3. io.file[x].end = "in" /\ io.file[x].of = i
    BY <2>2 DEF PipesOf
  <2>4. Whole(conn[i]).watch = Needs(conn[i])
    BY <1>1, Fields, WholeFields
  <2> QED
    BY <1>1, <2>1, <2>3, <2>4 DEF Front, Needs, Open
<1>6. ASSUME x \in loop.r, NEW n \in 1 .. Len(fromBack[i]),
             conn' = [conn EXCEPT ![i].bin = SubSeq(fromBack[i], 1, n)],
             fromBack' = [fromBack EXCEPT ![i] = SubSeq(@, n + 1, Len(@))],
             UNCHANGED <<toBack, be>>
      PROVE  F!proto_do_conn_input(i)
  <2> DEFINE q == SubSeq(fromBack[i], 1, n)
  <2>1. conn' = [conn EXCEPT ![i] = [conn[i] EXCEPT !.bin = q]]
    BY <1>6
  <2> HIDE DEF q
  <2>2. conn[i] \in ConnRecords
    BY <1>1, Fields
  <2>3. Whole([conn[i] EXCEPT !.bin = q]) = [Whole(conn[i]) EXCEPT !.bin = q]
    BY <2>2, WholeBin
  <2>4. Front' = [Front EXCEPT ![i].bin = q]
    BY <1>1, <2>1, <2>3, Fields DEF Front
  <2> HIDE DEF Front, i
  <2> QED
    BY <1>1, <1>2, <1>3, <1>5, <1>6, <2>4 DEF F!proto_do_conn_input, F!Busy, q
<1>7. ASSUME x \in loop.r, Close(i), Go("write"),
             fromBack[i] = <<>> /\ ~be[i].up
      PROVE  F!Hangup(i)
  <2>1. MayClose(i) /\ Open(i)
    BY <1>1, <1>5, <1>7, FailsCloses, ReadCloses
  <2>2. Closing(i)
    BY <1>1, <1>7, <2>1 DEF Closing
  <2>3. Front' = [Front EXCEPT ![i] = connection_close(conn[i])] /\ F!Disconnect(i)
    BY <1>1, <2>2, FrontCloses
  <2>4. connection_close(Front[i]) = connection_close(conn[i])
    BY <1>1, Fields, WholeCloses DEF Front
  <2> HIDE DEF Front, i
  <2> QED
    BY <1>1, <1>2, <1>3, <1>5, <1>7, <2>3, <2>4, SameConnection DEF F!Hangup, F!Busy, F!Close
<1>8. F!proto_do_conn_input(i) \/ F!Hangup(i) => F!Next
  BY <1>1 DEF F!Next, F!FrontEndStep
<1>9. CASE x \in loop.r
  BY <1>4, <1>5, <1>6, <1>7, <1>8, <1>9 DEF Read
<1>10. CASE x \notin loop.r
  BY <1>4, <1>10 DEF Read
<1> QED
  BY <1>9, <1>10

LEMMA FrontLine ==
  ASSUME OneFails, TypeInv, TypeInv', KeptInv, WatchInv, WatchInv', ProcessLine
  PROVE  F!Next
<1> DEFINE i == loop.i
           line == Head(conn[i].bin)
           s == [Front[i] EXCEPT !.bin = Tail(@)]
<1>1. /\ i \in Conns /\ conn[i].bin # <<>> /\ loop.pc = "line" /\ Open(i)
      /\ conn[i] \in ConnRecords
  BY LineStep, Fields DEF WatchInv, Watches, Drained
<1>2. [c \in Conns |-> Seen(c)] = Front /\ [c \in Conns |-> Seen(c)]' = Front'
  BY FrontIsSeen
<1>3. Front[i] = Whole(conn[i]) /\ Front[i].bin = conn[i].bin
  BY <1>1, WholeFields DEF Front
<1>4. Closes(s, line) <=> Closes(Rest(i), line)
  <2>1. s.state = conn[i].state
    BY <1>1, <1>3, WholeFields DEF ConnRecords
  <2>2. Rest(i).state = conn[i].state
    BY <1>1, ServedLine
  <2> HIDE DEF s, line
  <2> QED
    BY <2>1, <2>2 DEF Closes
<1>5. CASE Closes(Rest(i), line)
  <2>1. MayClose(i) /\ Close(i)
    BY <1>1, <1>5, LineStep, LineCloses
  <2>2. Closing(i)
    <3>1. Go("write")
      BY <1>1, <2>1, LineStep, CloseFacts
    <3> QED
      BY <1>1, <2>1, <3>1 DEF Closing
  <2>3. Front' = [Front EXCEPT ![i] = connection_close(conn[i])] /\ F!Disconnect(i)
    BY <1>1, <2>2, FrontCloses
  <2>4. connection_close(s) = connection_close(conn[i])
    <3> DEFINE q == Tail(conn[i].bin)
    <3>1. s = [Whole(conn[i]) EXCEPT !.bin = q]
      BY <1>1, <1>3
    <3> HIDE DEF q, s
    <3> QED
      BY <1>1, <3>1, WholeCloses
  <2>5. proto_process_line(i, s, line, TRUE) = connection_close(s)
    <3> HIDE DEF s, line
    <3> QED
      BY <1>4, <1>5 DEF Closes, proto_process_line, ProcessNo
  <2>6. F!ProcessLine(i)
    <3>1. /\ Front[i].bin # <<>> /\ line = Head(Front[i].bin)
          /\ Front' = [Front EXCEPT ![i] = proto_process_line(i, s, line, TRUE)]
          /\ Closes(s, line) /\ F!Disconnect(i)
      BY <1>1, <1>3, <1>4, <1>5, <2>3, <2>4, <2>5
    <3> HIDE DEF Front, i
    <3> QED
      BY <1>2, <3>1, SameProto DEF F!ProcessLine
  <2> QED
    BY <1>1, <2>6 DEF F!Next, F!FrontEndStep
<1>6. CASE ~Closes(Rest(i), line)
  <2>1. Handled(i, Processed(i)) /\ UNCHANGED <<toBack, fromBack, be>>
    BY <1>1, <1>6, LineStep DEF Processed
  <2>2. Processed(i) \in ConnRecords
    BY <1>1, <1>6, ProcessedFields
  <2>3. conn' = [conn EXCEPT ![i] = Muted(Processed(i))]
    BY <1>1, <2>1, <2>2, HandledFacts, Zenon
  <2>4. Whole(Muted(Processed(i))) = proto_process_line(i, s, line, TRUE)
    <3>1. /\ Rest(i) \in ConnRecords /\ Rest(i).watch = {} /\ Rest(i).state = conn[i].state
          /\ Shape(i, Rest(i)) /\ line \in Lines
      BY <1>1, ServedLine
    <3>2. Rest(i).state # "PENALTY_BOX"
      BY <1>1, <3>1 DEF Open
    <3>3. Whole(Muted(Processed(i))) = proto_process_line(i, Whole(Rest(i)), line, TRUE)
      BY <1>1, <1>6, <3>1, <3>2, WholeLines DEF Processed
    <3> DEFINE q == Tail(conn[i].bin)
    <3>4. s = [Whole(conn[i]) EXCEPT !.bin = q] /\ Rest(i) = [conn[i] EXCEPT !.bin = q]
      BY <1>3 DEF Rest
    <3> HIDE DEF q, s
    <3>5. s = Whole(Rest(i))
      <4>1. conn[i] \in ConnRecords
        BY <1>1, Fields
      <4> QED
        BY <3>4, <4>1, WholeBin
    <3> QED
      BY <3>3, <3>5
  <2>5. Front' = [Front EXCEPT ![i] = proto_process_line(i, s, line, TRUE)]
    <3> HIDE DEF s, line
    <3> QED
      BY <1>1, <2>3, <2>4, Fields DEF Front
  <2>6. F!ProcessLine(i)
    <3>1. /\ Front[i].bin # <<>> /\ line = Head(Front[i].bin)
          /\ ~Closes(s, line)
      BY <1>1, <1>3, <1>4, <1>6
    <3> HIDE DEF Front, i
    <3> QED
      BY <1>2, <2>1, <2>5, <3>1, SameProto DEF F!ProcessLine
  <2> QED
    BY <1>1, <2>6 DEF F!Next, F!FrontEndStep
<1> QED
  BY <1>5, <1>6

LEMMA FrontWrite ==
  ASSUME OneFails, TypeInv, TypeInv', KeptInv, WatchInv, WatchInv', Write
  PROVE  F!Next \/ UNCHANGED <<Front, toBack, fromBack, be>>
<1> DEFINE i == loop.i
           x == io.fds[i].out
<1>1. i \in Conns /\ loop.pc = "write" /\ conn[i] \in ConnRecords
  BY Fields DEF Write, At
<1>2. [c \in Conns |-> Seen(c)] = Front /\ [c \in Conns |-> Seen(c)]' = Front'
  BY FrontIsSeen
<1>3. /\ \A c \in Conns : Front[c].bin = <<>>
      /\ Front[i] = Whole(conn[i]) /\ Front[i].bout = conn[i].bout
      /\ Front[i].watch = Needs(conn[i])
  BY <1>1, NotBusy, WholeFields DEF Front
<1>4. CASE UNCHANGED <<conn, toBack, fromBack, be>>
  BY <1>4 DEF Front
<1>5. ASSUME conn[i].bout # <<>>
      PROVE  Open(i) /\ io.file[x].end = "out" /\ io.file[x].of = i /\ "write" \in Front[i].watch
  <2>1. Open(i)
    BY <1>1, <1>5 DEF KeptInv, Keeps
  <2>2. PipesOf(i, io.file, io.fds[i])
    BY <1>1, <2>1 DEF KeptInv, Keeps
  <2>3. io.file[x].end = "out" /\ io.file[x].of = i
    BY <2>2 DEF PipesOf
  <2> QED
    BY <1>3, <1>5, <2>1, <2>3 DEF Needs, Open
<1>6. ASSUME NEW n \in 1 .. Len(conn[i].bout),
             conn' = [conn EXCEPT ![i] = Written(conn[i], n)],
             toBack' = [toBack EXCEPT ![io.file[x].of] = @ \o SubSeq(conn[i].bout, 1, n)],
             be[io.file[x].of].up,
             UNCHANGED <<fromBack, be>>
      PROVE  F!proto_do_conn_output(i)
  <2>1. conn[i].bout \in Seq(Commands)
    BY <1>1 DEF ConnRecords
  <2>2. conn[i].bout # <<>>
    BY <2>1, CutMore
  <2>3. Whole(Written(conn[i], n)) = Written(Front[i], n)
    BY <1>1, <1>3, <1>5, <2>2, WholeWrites DEF Open
  <2>4. Front' = [Front EXCEPT ![i] = Written(Front[i], n)]
    BY <1>1, <1>6, <2>3, Fields DEF Front
  <2>5. /\ toBack' = [toBack EXCEPT ![i] = @ \o SubSeq(Front[i].bout, 1, n)] /\ be[i].up
        /\ "write" \in Front[i].watch
    BY <1>3, <1>5, <1>6, <2>2
  <2>6. n \in 0 .. Len(Front[i].bout) /\ n # 0
    <3> DEFINE m == Len(conn[i].bout)
    <3>1. m \in Nat /\ n \in 1 .. m /\ Len(Front[i].bout) = m
      BY <1>3, <2>1, LenProperties
    <3> HIDE DEF m
    <3>2. n \in 0 .. m /\ n # 0
      BY <3>1
    <3> QED
      BY <3>1, <3>2
  <2> HIDE DEF Front, i
  <2> QED
    BY <1>2, <1>3, <1>6, <2>4, <2>5, <2>6, SameProto DEF F!proto_do_conn_output, F!Busy
<1>7. ASSUME conn[i].bout # <<>>, io.file[x].end = "out" => ~be[io.file[x].of].up, Close(i),
             NextConn
      PROVE  F!BrokenPipe(i)
  <2>1. MayClose(i) /\ Open(i)
    BY <1>1, <1>7, WriteCloses
  <2>2. Closing(i)
    BY <1>1, <1>7, <2>1 DEF Closing
  <2>3. Front' = [Front EXCEPT ![i] = connection_close(conn[i])] /\ F!Disconnect(i)
    BY <1>1, <2>2, FrontCloses
  <2>4. connection_close(Front[i]) = connection_close(conn[i])
    BY <1>1, WholeCloses DEF Front
  <2>5. ~be[i].up /\ "write" \in Front[i].watch /\ Front[i].bout # <<>>
    BY <1>3, <1>5, <1>7
  <2> HIDE DEF Front, i
  <2> QED
    BY <1>1, <1>2, <1>3, <2>3, <2>4, <2>5, SameConnection DEF F!BrokenPipe, F!Busy, F!Close
<1>8. F!proto_do_conn_output(i) \/ F!BrokenPipe(i) => F!Next
  BY <1>1 DEF F!Next, F!FrontEndStep
<1> QED
  BY <1>4, <1>6, <1>7, <1>8 DEF Write

LEMMA FrontPoll ==
  ASSUME TypeInv, WatchInv, WatchInv', Poll
  PROVE  F!Next \/ UNCHANGED <<Front, toBack, fromBack, be>>
<1>1. loop.pc = "poll" /\ UNCHANGED <<toBack, fromBack, be>>
  BY DEF Poll, At
<1>2. [c \in Conns |-> Seen(c)] = Front /\ [c \in Conns |-> Seen(c)]' = Front'
  BY FrontIsSeen
<1>3. CASE loop.next # 0
  <2>1. conn' = conn
    BY <1>3 DEF Poll
  <2> QED
    BY <1>1, <2>1 DEF Front
<1>4. CASE loop.next = 0
  <2>1. \A c \in Conns : conn'[c] = Muted(Polled(c))
    BY <1>4, PollFacts
  <2>2. ASSUME NEW c \in Conns
        PROVE  Front'[c] = IF WantsPoll(Front[c]) THEN proto_poll_conn(Front[c]) ELSE Front[c]
    <3>1. Polled(c) = PollOf(conn[c])
      BY DEF Polled, PollOf
    <3>2. Whole(Muted(Polled(c))) = PollOf(Whole(conn[c]))
      BY <3>1, Fields, WholePolls
    <3> QED
      BY <2>1, <3>2 DEF Front, PollOf
  <2>3. Front' = [c \in Conns |-> IF WantsPoll(Front[c]) THEN proto_poll_conn(Front[c]) ELSE Front[c]]
    BY <2>2 DEF Front
  <2>4. CASE \E c \in Conns : WantsPoll(Front[c])
    <3>1. \A c \in Conns : Front[c].bin = <<>>
      BY <1>1, NotBusy
    <3> HIDE DEF Front
    <3>2. F!proto_do_poll
      BY <1>1, <1>2, <2>3, <2>4, <3>1, SameProto DEF F!proto_do_poll, F!Busy
    <3> QED
      BY <3>2 DEF F!Next
  <2>5. CASE ~\E c \in Conns : WantsPoll(Front[c])
    <3>1. Front' = Front
      BY <2>3, <2>5 DEF Front
    <3> QED
      BY <1>1, <3>1
  <2> QED
    BY <2>4, <2>5
<1> QED
  BY <1>3, <1>4

LEMMA FrontTick ==
  ASSUME TypeInv, WatchInv, WatchInv', Tick
  PROVE  F!Next \/ UNCHANGED <<Front, toBack, fromBack, be>>
<1>1. /\ conn' = [c \in Conns |-> [conn[c] EXCEPT !.wait = IF @ > 0 THEN @ - 1 ELSE 0]]
      /\ UNCHANGED <<toBack, fromBack, be>>
  BY DEF Tick
<1>2. [c \in Conns |-> Seen(c)] = Front /\ [c \in Conns |-> Seen(c)]' = Front'
  BY FrontIsSeen
<1>3. ASSUME NEW c \in Conns
      PROVE  Front'[c] = [Front[c] EXCEPT !.wait = IF @ > 0 THEN @ - 1 ELSE 0]
  <2>1. Whole(conn'[c]) = [Whole(conn[c]) EXCEPT !.wait = IF @ > 0 THEN @ - 1 ELSE 0]
    BY <1>1, Fields, WholeAges
  <2> QED
    BY <2>1 DEF Front
<1>4. Front' = [c \in Conns |-> [Front[c] EXCEPT !.wait = IF @ > 0 THEN @ - 1 ELSE 0]]
  BY <1>3 DEF Front
<1>5. CASE \E c \in Conns : Front[c].wait > 0
  <2> HIDE DEF Front
  <2>1. F!Tick
    BY <1>1, <1>2, <1>4, <1>5 DEF F!Tick
  <2> QED
    BY <2>1 DEF F!Next
<1>6. CASE ~\E c \in Conns : Front[c].wait > 0
  <2>1. ASSUME NEW c \in Conns PROVE Front'[c] = Front[c]
    <3> DEFINE s == Whole(conn[c])
    <3>1. s \in ConnRecords /\ Front[c] = s
      BY Fields, WholeFields DEF Front
    <3>2. Front'[c] = [s EXCEPT !.wait = IF @ > 0 THEN @ - 1 ELSE 0] /\ ~(s.wait > 0)
      BY <1>3, <1>6, <3>1
    <3> HIDE DEF s
    <3>3. s.wait = 0
      BY <3>1, <3>2, PenaltyAssumption DEF ConnRecords
    <3> QED
      BY <3>1, <3>2, <3>3 DEF ConnRecords
  <2>2. Front' = Front
    BY <2>1 DEF Front
  <2> QED
    BY <1>1, <2>2
<1> QED
  BY <1>5, <1>6

LEMMA FrontBack ==
  ASSUME WatchInv, WatchInv', NEW c \in Conns, BackStep(c)
  PROVE  F!Next
<1>1. BackEndStep(c) /\ conn' = conn
  BY DEF BackStep
<1>2. [d \in Conns |-> Seen(d)] = Front /\ [d \in Conns |-> Seen(d)]' = Front'
  BY FrontIsSeen
<1>3. Front' = Front
  BY <1>1 DEF Front
<1> HIDE DEF Front
<1> QED
  BY <1>1, <1>2, <1>3, SameBackEnd DEF F!Next

(* While only one connection has trouble the select loop, with its numbers,*)
(* its sets and what select found some time ago, is the front end that     *)
(* Frontend describes: each step serves one connection as the contract of  *)
(* the file GUI has it, or changes nothing a connection could tell.  What  *)
(* is proved of Frontend holds of the text interface then (gui_text.c).    *)
THEOREM TextImplementsFrontend ==
  ASSUME Conns # {}, OneFails PROVE Spec => FrontendRefined
<1>1. Init => F!Init
  BY FrontInit
<1>2. /\ TypeInv /\ KeptInv /\ WatchInv /\ TypeInv' /\ KeptInv' /\ WatchInv' /\ [Next]_vars
      => [F!Next]_F!vars
  <2> SUFFICES ASSUME TypeInv, KeptInv, WatchInv, TypeInv', KeptInv', WatchInv', [Next]_vars
               PROVE  F!Next \/ UNCHANGED F!vars
    OBVIOUS
  <2>1. UNCHANGED <<Front, toBack, fromBack, be>> => UNCHANGED F!vars
    BY FrontIsSeen DEF F!vars
  <2>2. UNCHANGED <<conn, toBack, fromBack, be>> => UNCHANGED <<Front, toBack, fromBack, be>>
    BY DEF Front
  <2>3. CASE Start \/ Retry
    BY <2>1, <2>3, FrontRetry DEF F!Next
  <2>4. CASE Select \/ Return \/ Abort
    BY <2>1, <2>2, <2>4 DEF Select, Return, Abort
  <2>5. CASE Read
    BY <2>1, <2>5, FrontRead
  <2>6. CASE ProcessLine
    BY <2>6, FrontLine
  <2>7. CASE Write
    BY <2>1, <2>7, FrontWrite
  <2>8. CASE Poll
    BY <2>1, <2>8, FrontPoll
  <2>9. CASE Tick
    BY <2>1, <2>9, FrontTick
  <2>10. CASE \E c \in Conns : BackStep(c)
    BY <2>10, FrontBack
  <2>11. CASE UNCHANGED vars
    BY <2>1, <2>2, <2>11 DEF vars
  <2> QED
    BY <2>3, <2>4, <2>5, <2>6, <2>7, <2>8, <2>9, <2>10, <2>11 DEF Next, LoopStep
<1> QED
  BY <1>1, <1>2, WatchInvariant, PTL DEF Spec, FrontendRefined, F!Spec
===============================================================================
