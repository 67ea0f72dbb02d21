----------------------------- MODULE FrontendProof -----------------------------
(***************************************************************************)
(* Proofs about Frontend for every set of connections, every configuration *)
(* and every bound: that statuses are counted right, the flags are, a back *)
(* end is polled only once it knows every folder, each connection is a     *)
(* session as Session describes it, and the front end comes to show what   *)
(* the back ends report.                                                   *)
(***************************************************************************)
EXTENDS Frontend, ProtoProof

-------------------------------------------------------------------------------
(* Counting statuses in a sequence of lines *)

(* StatusAt is a finite set of positions, so that its size is a number.    *)
LEMMA StatusAtFinite ==
  ASSUME NEW s \in Seq(Lines)
  PROVE  /\ StatusAt(s) \subseteq 1 .. Len(s)
         /\ IsFiniteSet(StatusAt(s))
         /\ Cardinality(StatusAt(s)) \in Nat
<1>1. Len(s) \in Nat /\ DOMAIN s = 1 .. Len(s)
  BY LenProperties
<1>2. StatusAt(s) \subseteq 1 .. Len(s)
  BY <1>1 DEF StatusAt
<1>3. IsFiniteSet(1 .. Len(s))
  BY <1>1, FS_Interval
<1>4. IsFiniteSet(StatusAt(s))
  BY <1>2, <1>3, FS_Subset
<1> QED
  BY <1>2, <1>4, FS_CardinalityType

(* No line, no status.                                                     *)
LEMMA StatusAtEmpty == Cardinality(StatusAt(<<>>)) = 0
<1>1. StatusAt(<<>>) = {}
  BY DEF StatusAt
<1> QED
  BY <1>1, FS_EmptySet

(* A line put at the end adds its own status and nothing else.             *)
LEMMA StatusAtAppend ==
  ASSUME NEW s \in Seq(Lines), NEW e \in Lines
  PROVE  /\ e.tag \in Statuses =>
              Cardinality(StatusAt(Append(s, e))) = Cardinality(StatusAt(s)) + 1
         /\ e.tag \notin Statuses =>
              Cardinality(StatusAt(Append(s, e))) = Cardinality(StatusAt(s))
<1>1. Len(s) \in Nat /\ DOMAIN s = 1 .. Len(s)
  BY LenProperties
<1>2. /\ Append(s, e) \in Seq(Lines)
      /\ Len(Append(s, e)) = Len(s) + 1
      /\ \A i \in 1 .. Len(s) : Append(s, e)[i] = s[i]
      /\ Append(s, e)[Len(s) + 1] = e
  BY AppendProperties
<1>3. DOMAIN Append(s, e) = 1 .. Len(s) + 1
  BY <1>2, LenProperties
<1>4. StatusAt(Append(s, e))
        = StatusAt(s) \cup (IF e.tag \in Statuses THEN {Len(s) + 1} ELSE {})
  BY <1>1, <1>2, <1>3 DEF StatusAt
<1>5. Len(s) + 1 \notin StatusAt(s)
  BY <1>1, StatusAtFinite
<1>6. CASE e.tag \in Statuses
  BY <1>4, <1>5, <1>6, StatusAtFinite, FS_AddElement
<1>7. CASE e.tag \notin Statuses
  <2>1. StatusAt(Append(s, e)) = StatusAt(s)
    BY <1>4, <1>7
  <2> QED
    BY <2>1, <1>7, StatusAtFinite
<1> QED
  BY <1>6, <1>7

(* Cutting a sequence in two loses no status and invents none.             *)
LEMMA StatusAtSplit ==
  ASSUME NEW s \in Seq(Lines), NEW n \in 0 .. Len(s)
  PROVE  /\ SubSeq(s, 1, n) \in Seq(Lines)
         /\ SubSeq(s, n + 1, Len(s)) \in Seq(Lines)
         /\ Cardinality(StatusAt(s))
              = Cardinality(StatusAt(SubSeq(s, 1, n)))
                  + Cardinality(StatusAt(SubSeq(s, n + 1, Len(s))))
<1> DEFINE p == SubSeq(s, 1, n)
           q == SubSeq(s, n + 1, Len(s))
           L == {i \in StatusAt(s) : i <= n}
           R == {i \in StatusAt(s) : i > n}
           shift == [i \in StatusAt(q) |-> i + n]
<1>1. Len(s) \in Nat /\ DOMAIN s = 1 .. Len(s) /\ n \in Nat /\ n <= Len(s)
  BY LenProperties
<1>0. \A i \in 1 .. Len(s) : s[i] \in Lines
  BY ElementOfSeq
<1>2. /\ p \in Seq(Lines) /\ Len(p) = n
      /\ \A i \in 1 .. n : p[i] = s[i]
  BY <1>0, <1>1, SubSeqProperties
<1>3. /\ q \in Seq(Lines) /\ Len(q) = Len(s) - n
      /\ \A i \in 1 .. Len(s) - n : q[i] = s[i + n]
  <2>1. /\ q \in Seq(Lines)
        /\ Len(q) = IF n + 1 <= Len(s) THEN Len(s) - (n + 1) + 1 ELSE 0
        /\ \A i \in 1 .. Len(s) - (n + 1) + 1 : q[i] = s[(n + 1) + i - 1]
    BY <1>0, <1>1, SubSeqProperties
  <2>2. Len(s) - (n + 1) + 1 = Len(s) - n
    BY <1>1
  <2> HIDE DEF q
  <2>3. Len(q) = Len(s) - n
    <3>1. n + 1 <= Len(s) => Len(q) = Len(s) - (n + 1) + 1
      BY <2>1, Zenon
    <3>2. ~(n + 1 <= Len(s)) => Len(q) = 0
      BY <2>1, Zenon
    <3>3. ~(n + 1 <= Len(s)) => Len(s) - n = 0
      <4>1. \A k, m \in Nat : k <= m /\ ~(k + 1 <= m) => m - k = 0
        BY SMTT(30)
      <4> QED
        BY <1>1, <4>1
    <3> QED
      BY <2>2, <3>1, <3>2, <3>3, Zenon
  <2>4. ASSUME NEW i \in 1 .. Len(s) - n
        PROVE  q[i] = s[i + n]
    <3>1. (n + 1) + i - 1 = i + n
      BY <1>1
    <3> QED
      BY <2>1, <2>2, <3>1
  <2> QED
    BY <2>1, <2>3, <2>4
<1>4. DOMAIN p = 1 .. n /\ DOMAIN q = 1 .. Len(s) - n
  BY <1>2, <1>3, LenProperties
<1>5. StatusAt(p) = L
  BY <1>1, <1>2, <1>4 DEF StatusAt
<1>6. StatusAt(q) \subseteq 1 .. Len(s) - n
  BY <1>4 DEF StatusAt
<1>7. \A i \in 1 .. Len(s) - n : i \in StatusAt(q) <=> i + n \in R
  <2> SUFFICES ASSUME NEW i \in 1 .. Len(s) - n
               PROVE  i \in StatusAt(q) <=> i + n \in R
    OBVIOUS
  <2>1. i \in DOMAIN q /\ q[i] = s[i + n]
    BY <1>3, <1>4
  <2>2. i + n \in DOMAIN s /\ i + n > n
    BY <1>1
  <2>3. i \in StatusAt(q) <=> s[i + n].tag \in Statuses
    BY <2>1 DEF StatusAt
  <2>4. i + n \in StatusAt(s) <=> s[i + n].tag \in Statuses
    BY <2>2 DEF StatusAt
  <2> QED
    BY <2>2, <2>3, <2>4
<1>8. shift \in Bijection(StatusAt(q), R)
  <2>1. shift \in [StatusAt(q) -> R]
    BY <1>1, <1>6, <1>7
  <2>2. \A a, b \in StatusAt(q) : shift[a] = shift[b] => a = b
    BY <1>1, <1>6
  <2>3. \A r \in R : \E i \in StatusAt(q) : shift[i] = r
    <3> SUFFICES ASSUME NEW r \in R
                 PROVE  \E i \in StatusAt(q) : shift[i] = r
      OBVIOUS
    <3>1. r \in 1 .. Len(s) /\ r > n
      BY <1>1 DEF StatusAt
    <3>2. r - n \in 1 .. Len(s) - n /\ (r - n) + n = r
      BY <1>1, <3>1
    <3>3. r - n \in StatusAt(q)
      BY <1>7, <3>2
    <3> QED
      BY <3>2, <3>3
  <2> QED
    BY <2>1, <2>2, <2>3 DEF Bijection, Injection, Surjection, IsInjective
<1>9. IsFiniteSet(StatusAt(q)) /\ IsFiniteSet(L) /\ Cardinality(L) \in Nat
  BY <1>2, <1>3, <1>5, StatusAtFinite
<1>10. IsFiniteSet(R) /\ Cardinality(R) = Cardinality(StatusAt(q))
  BY <1>8, <1>9, FS_Bijection DEF ExistsBijection
<1>11. StatusAt(s) = L \cup R /\ L \cap R = {}
  BY <1>1, StatusAtFinite
<1>12. Cardinality(StatusAt(s)) = Cardinality(L) + Cardinality(R)
  <2>1. Cardinality(L \cap R) = 0
    BY <1>11, FS_EmptySet
  <2>2. Cardinality(R) \in Nat
    BY <1>10, FS_CardinalityType
  <2> HIDE DEF L, R
  <2>3. Cardinality(L \cup R) = Cardinality(L) + Cardinality(R) - Cardinality(L \cap R)
    BY <1>9, <1>10, FS_Union
  <2> QED
    BY <1>9, <1>11, <2>1, <2>2, <2>3
<1> QED
  BY <1>2, <1>3, <1>5, <1>10, <1>12

(* Taking the first line takes its status.                                 *)
LEMMA StatusAtTail ==
  ASSUME NEW s \in Seq(Lines), s # <<>>
  PROVE  /\ Head(s) \in Lines /\ Tail(s) \in Seq(Lines)
         /\ Head(s).tag \in Statuses =>
              Cardinality(StatusAt(Tail(s))) = Cardinality(StatusAt(s)) - 1
         /\ Head(s).tag \notin Statuses =>
              Cardinality(StatusAt(Tail(s))) = Cardinality(StatusAt(s))
<1>1. Len(s) \in Nat \ {0} /\ 1 \in 0 .. Len(s)
  BY EmptySeq, LenProperties
<1>2. Head(s) \in Lines /\ Tail(s) \in Seq(Lines) /\ Tail(s) = SubSeq(s, 2, Len(s))
  BY HeadTailProperties, TailIsSubSeq
<1>3. SubSeq(s, 1, 1) = Append(<<>>, Head(s))
  <2> DEFINE one == SubSeq(s, 1, 1)
  <2>1. s[1] = Head(s) /\ \A i \in 1 .. 1 : s[i] \in Lines
    BY <1>1, ElementOfSeq
  <2>2. one \in Seq(Lines) /\ Len(one) = 1 /\ one[1] = Head(s)
    BY <2>1, SubSeqProperties
  <2>3. <<>> \in Seq(Lines) /\ Len(<<>>) = 0
    BY EmptySeq
  <2>4. /\ Append(<<>>, Head(s)) \in Seq(Lines)
        /\ Len(Append(<<>>, Head(s))) = 1
        /\ Append(<<>>, Head(s))[1] = Head(s)
    BY <1>2, <2>3, AppendProperties
  <2> HIDE DEF one
  <2>5. one = Append(<<>>, Head(s))
    BY <2>2, <2>4, SeqEqual
  <2> QED
    BY <2>5 DEF one
<1>4. /\ Head(s).tag \in Statuses => Cardinality(StatusAt(SubSeq(s, 1, 1))) = 1
      /\ Head(s).tag \notin Statuses => Cardinality(StatusAt(SubSeq(s, 1, 1))) = 0
  <2>1. <<>> \in Seq(Lines)
    BY EmptySeq
  <2>2. /\ Head(s).tag \in Statuses => Cardinality(StatusAt(SubSeq(s, 1, 1))) = 0 + 1
        /\ Head(s).tag \notin Statuses => Cardinality(StatusAt(SubSeq(s, 1, 1))) = 0
    BY <1>2, <1>3, <2>1, StatusAtAppend, StatusAtEmpty, Zenon
  <2> QED
    BY <2>2
<1>5. Cardinality(StatusAt(s))
        = Cardinality(StatusAt(SubSeq(s, 1, 1))) + Cardinality(StatusAt(SubSeq(s, 2, Len(s))))
  BY <1>1, 1 + 1 = 2, StatusAtSplit
<1>6. Cardinality(StatusAt(Tail(s))) \in Nat
  BY <1>2, StatusAtFinite
<1>7. Cardinality(StatusAt(s))
        = Cardinality(StatusAt(SubSeq(s, 1, 1))) + Cardinality(StatusAt(Tail(s)))
  BY <1>2, <1>5, Zenon
<1> QED
  BY <1>2, <1>4, <1>6, <1>7

-------------------------------------------------------------------------------
(* Types *)

(* Every record has the shape its operations keep.                         *)
TypeInv == /\ TypeOK
           /\ \A c \in Conns : Shape(c, conn[c])

LEMMA TypeInit == Init => TypeInv
<1> SUFFICES ASSUME Init PROVE TypeInv
  OBVIOUS
<1>1. <<>> \in Seq(Lines) /\ <<>> \in Seq(Commands)
  BY EmptySeq
<1>2. connection_init \in ConnRecords
  BY <1>1, PenaltyAssumption DEF connection_init, ConnRecords, CStates
<1>3. connection_init.added = 0 /\ connection_init.state = "PENALTY_BOX"
  BY DEF connection_init
<1>4. ASSUME NEW c \in Conns PROVE Shape(c, connection_init)
  <2>1. Len(Folders[c]) \in Nat
    BY FoldersType
  <2> HIDE DEF connection_init
  <2> QED
    BY <1>2, <1>3, <2>1 DEF Shape
<1>5. Gone \in BackEnds
  BY DEF Gone, BackEnds
<1>6. TypeOK
  BY <1>1, <1>2, <1>5 DEF Init, BackInit, TypeOK, BackTypeOK
<1> QED
  BY <1>4, <1>6 DEF Init, BackInit, TypeInv

(* The record of one connection is replaced by one of its shape.           *)
LEMMA ConnExcept ==
  ASSUME TypeInv, NEW c \in Conns, NEW r, Shape(c, r),
         conn' = [conn EXCEPT ![c] = r]
  PROVE  /\ conn' \in [Conns -> ConnRecords]
         /\ \A d \in Conns : Shape(d, conn'[d])
BY DEF TypeInv, TypeOK, BackTypeOK, Shape

LEMMA DisconnectTypes ==
  ASSUME TypeInv, NEW c \in Conns, Disconnect(c)
  PROVE  /\ toBack' \in [Conns -> Seq(Commands)]
         /\ fromBack' \in [Conns -> Seq(Lines)]
         /\ be' \in [Conns -> BackEnds]
<1>1. <<>> \in Seq(Lines) /\ <<>> \in Seq(Commands) /\ Gone \in BackEnds
  BY EmptySeq DEF Gone, BackEnds
<1> QED
  BY <1>1 DEF Disconnect, TypeInv, TypeOK, BackTypeOK

LEMMA TypeStep == TypeInv /\ [Next]_vars => TypeInv'
<1> SUFFICES ASSUME TypeInv, [Next]_vars PROVE TypeInv'
  OBVIOUS
<1>0. /\ conn \in [Conns -> ConnRecords]
      /\ toBack \in [Conns -> Seq(Commands)]
      /\ fromBack \in [Conns -> Seq(Lines)]
      /\ be \in [Conns -> BackEnds]
      /\ \A c \in Conns : Shape(c, conn[c])
  BY DEF TypeInv, TypeOK, BackTypeOK
<1> DEFINE ConnGoal == /\ conn' \in [Conns -> ConnRecords]
                       /\ \A c \in Conns : Shape(c, conn'[c])
           PipeGoal == /\ toBack' \in [Conns -> Seq(Commands)]
                       /\ fromBack' \in [Conns -> Seq(Lines)]
                       /\ be' \in [Conns -> BackEnds]
<1>1. CASE proto_do_retries
  <2>1. \A c \in Conns : Shape(c, conn[c]) /\ WantsRetry(conn[c])
                           => Shape(c, proto_init_conn(conn[c]))
    BY <1>0 DEF Shape, WantsRetry, proto_init_conn, ConnRecords, CStates
  <2>2. Fresh \in BackEnds
    BY DEF Fresh, Gone, BackEnds
  <2>3. PICK started \in SUBSET {c \in Conns : WantsRetry(conn[c])} :
           /\ conn' = [c \in Conns |-> IF c \in started THEN proto_init_conn(conn[c])
                                                        ELSE conn[c]]
           /\ be' = [c \in Conns |-> IF c \in started THEN Fresh ELSE be[c]]
           /\ UNCHANGED <<toBack, fromBack>>
    BY <1>1 DEF proto_do_retries
  <2>4. \A c \in Conns : Shape(c, conn'[c])
    BY <1>0, <2>1, <2>3
  <2>5. conn' \in [Conns -> ConnRecords]
    BY <1>0, <2>1, <2>3 DEF Shape
  <2> QED
    BY <1>0, <2>2, <2>3, <2>4, <2>5 DEF TypeInv, TypeOK, BackTypeOK
<1>2. CASE proto_do_poll
  <2>1. \A c \in Conns : WantsPoll(conn[c]) => Shape(c, proto_poll_conn(conn[c]))
    <3> SUFFICES ASSUME NEW c \in Conns, WantsPoll(conn[c])
                 PROVE  Shape(c, proto_poll_conn(conn[c]))
      OBVIOUS
    <3>1. conn[c] \in ConnRecords /\ Shape(c, conn[c]) /\ conn[c].state = "NORMAL"
      BY <1>0 DEF WantsPoll
    <3> QED
      BY <3>1, PollFields DEF Shape
  <2>2. conn' = [c \in Conns |-> IF WantsPoll(conn[c]) THEN proto_poll_conn(conn[c])
                                                       ELSE conn[c]]
    BY <1>2 DEF proto_do_poll
  <2>3. \A c \in Conns : Shape(c, conn'[c])
    BY <1>0, <2>1, <2>2
  <2>4. conn' \in [Conns -> ConnRecords]
    BY <1>0, <2>1, <2>2 DEF Shape
  <2> QED
    BY <1>0, <1>2, <2>3, <2>4 DEF TypeInv, TypeOK, BackTypeOK, proto_do_poll
<1>3. CASE Tick
  <2> DEFINE left(c) == IF conn[c].wait > 0 THEN conn[c].wait - 1 ELSE 0
  <2>1. conn' = [c \in Conns |-> [conn[c] EXCEPT !.wait = left(c)]]
    BY <1>3 DEF Tick
  <2>2. \A c \in Conns : left(c) \in 0 .. 2 * MaxPenalty
    BY <1>0, PenaltyAssumption DEF ConnRecords
  <2> HIDE DEF left
  <2>3. \A c \in Conns : Shape(c, conn'[c])
    <3> SUFFICES ASSUME NEW c \in Conns PROVE Shape(c, conn'[c])
      OBVIOUS
    <3>1. conn'[c] = [conn[c] EXCEPT !.wait = left(c)]
      BY <2>1
    <3>2. Shape(c, conn[c]) /\ left(c) \in 0 .. 2 * MaxPenalty
      BY <1>0, <2>2
    <3> QED
      BY <3>1, <3>2 DEF Shape, ConnRecords
  <2>4. conn' \in [Conns -> ConnRecords]
    BY <2>1, <2>3 DEF Shape
  <2> QED
    BY <1>0, <1>3, <2>3, <2>4 DEF TypeInv, TypeOK, BackTypeOK, Tick
<1>4. ASSUME NEW c \in Conns, proto_do_conn_input(c) PROVE TypeInv'
  <2>1. PICK n \in 1 .. Len(fromBack[c]) :
           /\ conn' = [conn EXCEPT ![c].bin = SubSeq(fromBack[c], 1, n)]
           /\ fromBack' = [fromBack EXCEPT ![c] = SubSeq(@, n + 1, Len(@))]
    BY <1>4 DEF proto_do_conn_input
  <2>2. fromBack[c] \in Seq(Lines) /\ n \in 0 .. Len(fromBack[c])
    BY <1>0
  <2> DEFINE chunk == SubSeq(fromBack[c], 1, n)
             rest == SubSeq(fromBack[c], n + 1, Len(fromBack[c]))
  <2>3. chunk \in Seq(Lines) /\ rest \in Seq(Lines)
    BY <2>2, CutSeq
  <2>4. conn' = [conn EXCEPT ![c] = [conn[c] EXCEPT !.bin = chunk]]
    BY <1>0, <2>1
  <2>5. fromBack' = [fromBack EXCEPT ![c] = rest]
    BY <2>1
  <2> HIDE DEF chunk, rest
  <2>6. Shape(c, [conn[c] EXCEPT !.bin = chunk])
    BY <1>0, <2>3, ShapeBin
  <2>7. ConnGoal
    BY <2>4, <2>6, ConnExcept
  <2> QED
    BY <1>0, <1>4, <2>3, <2>5, <2>7 DEF TypeInv, TypeOK, BackTypeOK, proto_do_conn_input
<1>5. ASSUME NEW c \in Conns, Close(c) PROVE TypeInv'
  <2>1. Shape(c, connection_close(conn[c]))
    BY <1>0, CloseShape
  <2>2. ConnGoal
    BY <1>5, <2>1, ConnExcept DEF Close
  <2> QED
    BY <1>5, <2>2, DisconnectTypes DEF TypeInv, TypeOK, BackTypeOK, Close
<1>6. ASSUME NEW c \in Conns, ProcessLine(c) PROVE TypeInv'
  <2> DEFINE line == Head(conn[c].bin)
             s    == [conn[c] EXCEPT !.bin = Tail(@)]
  <2>1. conn[c].bin \in Seq(Lines) /\ conn[c].bin # <<>>
    BY <1>0, <1>6 DEF ProcessLine, ConnRecords
  <2>2. line \in Lines /\ Tail(conn[c].bin) \in Seq(Lines)
    BY <2>1, HeadTailProperties
  <2>3. Shape(c, s)
    BY <1>0, <2>2, ShapeBin
  <2>4. PICK have \in BOOLEAN : conn' = [conn EXCEPT ![c] = proto_process_line(c, s, line, have)]
    BY <1>6 DEF ProcessLine
  <2>5. CASE Closes(s, line)
    <3>1. Disconnect(c)
      BY <1>6, <2>5 DEF ProcessLine
    <3> HIDE DEF s, line
    <3>2. proto_process_line(c, s, line, have) = connection_close(s)
      BY <2>3, <2>5 DEF Closes, proto_process_line, ProcessNo
    <3>3. Shape(c, connection_close(s))
      BY <2>3, CloseShape DEF Shape
    <3>4. ConnGoal
      BY <2>4, <3>2, <3>3, ConnExcept
    <3> QED
      BY <3>1, <3>4, DisconnectTypes DEF TypeInv, TypeOK, BackTypeOK
  <2>6. CASE ~Closes(s, line)
    <3>1. UNCHANGED <<toBack, fromBack, be>>
      BY <1>6, <2>6 DEF ProcessLine
    <3> HIDE DEF s, line
    <3>2. Shape(c, proto_process_line(c, s, line, have))
      BY <2>2, <2>3, <2>6, LineEffect
    <3>3. ConnGoal
      BY <2>4, <3>2, ConnExcept
    <3> QED
      BY <1>0, <3>1, <3>3 DEF TypeInv, TypeOK, BackTypeOK
  <2> QED
    BY <2>5, <2>6
<1>7. ASSUME NEW c \in Conns, proto_do_conn_output(c) PROVE TypeInv'
  <2>1. PICK n \in 0 .. Len(conn[c].bout) :
           /\ conn' = [conn EXCEPT ![c] = Written(@, n)]
           /\ toBack' = [toBack EXCEPT ![c] = @ \o SubSeq(conn[c].bout, 1, n)]
    BY <1>7 DEF proto_do_conn_output
  <2>2. conn[c].bout \in Seq(Commands) /\ toBack[c] \in Seq(Commands)
    BY <1>0 DEF ConnRecords
  <2> DEFINE gone == SubSeq(conn[c].bout, 1, n)
             rest == SubSeq(conn[c].bout, n + 1, Len(conn[c].bout))
             w == IF rest = <<>> THEN conn[c].watch \ {"write"} ELSE conn[c].watch
  <2>3. gone \in Seq(Commands) /\ rest \in Seq(Commands)
    BY <2>2, CutCommands
  <2>4. toBack[c] \o gone \in Seq(Commands)
    BY <2>2, <2>3, ConcatProperties
  <2>5. Written(conn[c], n) = [conn[c] EXCEPT !.bout = rest, !.watch = w]
    BY DEF Written
  <2>6. w \in SUBSET {"read", "write"}
    BY <1>0 DEF ConnRecords
  <2> HIDE DEF rest, w
  <2>7. Shape(c, Written(conn[c], n))
    <3>1. conn[c] \in ConnRecords /\ Shape(c, conn[c])
      BY <1>0
    <3>2. Written(conn[c], n) \in ConnRecords
      BY <2>3, <2>5, <2>6, <3>1 DEF ConnRecords
    <3>3. /\ Written(conn[c], n).state = conn[c].state
          /\ Written(conn[c], n).added = conn[c].added
      BY <2>5, <3>1 DEF ConnRecords
    <3> QED
      BY <3>1, <3>2, <3>3 DEF Shape
  <2>8. ConnGoal
    BY <1>0, <2>1, <2>7, ConnExcept
  <2> QED
    BY <1>0, <1>7, <2>1, <2>4, <2>8 DEF TypeInv, TypeOK, BackTypeOK, proto_do_conn_output
<1>8. ASSUME NEW c \in Conns, BackEndStep(c), UNCHANGED conn PROVE TypeInv'
  BY <1>8, BackEndTypes DEF TypeInv, TypeOK
<1>9. CASE UNCHANGED vars
  BY <1>0, <1>9 DEF vars, TypeInv, TypeOK, BackTypeOK
<1> QED
  BY <1>1, <1>2, <1>3, <1>4, <1>5, <1>6, <1>7, <1>8, <1>9
     DEF Next, FrontEndStep, Hangup, BrokenPipe

LEMMA TypeInvariant == Spec => []TypeInv
BY TypeInit, TypeStep, PTL DEF Spec

(* Every variable keeps its type; with TypeInvariant, the folder counter   *)
(* of a connection never runs past its folders, whatever back ends send.   *)
THEOREM TypeCorrect == Spec => []TypeOK
<1>1. TypeInv => TypeOK
  BY DEF TypeInv
<1> QED
  BY <1>1, TypeInvariant, PTL

-------------------------------------------------------------------------------
(* The accounting of statuses.  The invariant is stated over values - a    *)
(* record, its back end and the two pipes - so that each operation can be  *)
(* looked at on its own.                                                   *)

Unsent(b) == IF b.greeted THEN 0 ELSE 1
Queued(s) == Len(s.bout)
Unprocessed(s) == Cardinality(StatusAt(s.bin))
Count(fb) == Cardinality(StatusAt(fb))

Debt(s, b, tb, fb) == Unsent(b) + Queued(s) + Len(tb) + Count(fb) + Unprocessed(s)

Idle(s, b, tb, fb) == /\ s.bin = <<>> /\ s.bout = <<>>
                      /\ tb = <<>> /\ fb = <<>>
                      /\ s.pending = 0
                      /\ ~b.up

(* StatusAccounting, and that nobody talks on a closed connection.         *)
Balanced(s, b, tb, fb) ==
    /\ s.state = "PENALTY_BOX" => Idle(s, b, tb, fb)
    /\ s.state \in {"WAIT_HELLO", "ADDING_FOLDERS"} =>
         Debt(s, b, tb, fb) = 1 /\ s.pending = 0
    /\ s.state = "NORMAL" => s.pending = Debt(s, b, tb, fb)

Typed(s, b, tb, fb) == /\ s \in ConnRecords /\ b \in BackEnds
                       /\ tb \in Seq(Commands) /\ fb \in Seq(Lines)

AccountInv == \A c \in Conns : Balanced(conn[c], be[c], toBack[c], fromBack[c])

LEMMA DebtTypes ==
  ASSUME NEW s, NEW b, NEW tb, NEW fb, Typed(s, b, tb, fb)
  PROVE  /\ Unsent(b) \in 0 .. 1 /\ Queued(s) \in Nat /\ Len(tb) \in Nat
         /\ Count(fb) \in Nat /\ Unprocessed(s) \in Nat
         /\ s.pending \in Nat /\ s.state \in CStates
<1>1. s.bin \in Seq(Lines) /\ s.bout \in Seq(Commands) /\ s.pending \in Nat /\ s.state \in CStates
  BY DEF Typed, ConnRecords
<1>2. Unsent(b) \in 0 .. 1
  BY DEF Unsent
<1>3. Queued(s) \in Nat /\ Len(tb) \in Nat
  BY <1>1, LenProperties DEF Typed, Queued
<1>4. Count(fb) \in Nat /\ Unprocessed(s) \in Nat
  BY <1>1, StatusAtFinite DEF Typed, Count, Unprocessed
<1> QED
  BY <1>1, <1>2, <1>3, <1>4

(* The balance depends on the debt, not on where the parts of it are.      *)
LEMMA BalanceMoves ==
  ASSUME NEW s, NEW b, NEW tb, NEW fb, Balanced(s, b, tb, fb),
         NEW s1, NEW b1, NEW tb1, NEW fb1,
         s.state # "PENALTY_BOX", s1.state = s.state, s1.pending = s.pending,
         Debt(s1, b1, tb1, fb1) = Debt(s, b, tb, fb)
  PROVE  Balanced(s1, b1, tb1, fb1)
BY Zenon DEF Balanced

LEMMA EmptyParts ==
  ASSUME NEW s, NEW b, NEW tb, NEW fb, Idle(s, b, tb, fb)
  PROVE  Queued(s) = 0 /\ Len(tb) = 0 /\ Count(fb) = 0 /\ Unprocessed(s) = 0
BY StatusAtEmpty, EmptySeq DEF Idle, Queued, Count, Unprocessed

(* A fresh back end owes its greeting.                                     *)
LEMMA OpenBalanced ==
  ASSUME NEW s, NEW b, NEW tb, NEW fb, Typed(s, b, tb, fb),
         Balanced(s, b, tb, fb), WantsRetry(s)
  PROVE  Balanced(proto_init_conn(s), Fresh, tb, fb)
<1> DEFINE r == proto_init_conn(s)
<1>1. Idle(s, b, tb, fb)
  BY DEF Balanced, WantsRetry
<1>2. /\ r.state = "WAIT_HELLO" /\ r.pending = 0
      /\ r.bin = s.bin /\ r.bout = s.bout
  BY <1>1 DEF proto_init_conn, Typed, ConnRecords, Idle
<1>3. Unsent(Fresh) = 1
  BY DEF Unsent, Fresh, Gone
<1>4. Queued(r) = 0 /\ Len(tb) = 0 /\ Count(fb) = 0 /\ Unprocessed(r) = 0
  BY <1>1, <1>2, EmptyParts DEF Queued, Unprocessed
<1> HIDE DEF r
<1>5. Debt(r, Fresh, tb, fb) = 1
  BY <1>3, <1>4 DEF Debt
<1>6. Balanced(r, Fresh, tb, fb)
  BY <1>2, <1>5 DEF Balanced
<1> QED
  BY <1>6 DEF r

(* A poll queued is a poll counted.                                        *)
LEMMA PollBalanced ==
  ASSUME NEW s, NEW b, NEW tb, NEW fb, Typed(s, b, tb, fb),
         Balanced(s, b, tb, fb), s.state = "NORMAL"
  PROVE  Balanced(proto_poll_conn(s), b, tb, fb)
<1> DEFINE r == proto_poll_conn(s)
           cmd == Command("POLL", NoArg)
<1>1. s \in ConnRecords /\ s.bout \in Seq(Commands) /\ cmd \in Commands
  BY DEF Typed, ConnRecords, Command, Commands
<1>2. /\ r.bout = Append(s.bout, cmd) /\ r.bin = s.bin
      /\ r.state = "NORMAL" /\ r.pending = s.pending + 1
  BY <1>1, PollFields
<1> HIDE DEF r, cmd
<1>3. Queued(r) = Queued(s) + 1
  BY <1>1, <1>2, AppendProperties DEF Queued
<1>4. Unprocessed(r) = Unprocessed(s)
  BY <1>2 DEF Unprocessed
<1>5. s.pending = Debt(s, b, tb, fb)
  BY DEF Balanced
<1>6. /\ Unsent(b) \in Nat /\ Queued(s) \in Nat /\ Len(tb) \in Nat
      /\ Count(fb) \in Nat /\ Unprocessed(s) \in Nat
  BY DebtTypes
<1>7. Debt(r, b, tb, fb) = Debt(s, b, tb, fb) + 1
  BY <1>3, <1>4, <1>6 DEF Debt
<1>8. Balanced(r, b, tb, fb)
  BY <1>2, <1>5, <1>7 DEF Balanced
<1> QED
  BY <1>8 DEF r

LEMMA CloseBalanced ==
  ASSUME NEW s \in ConnRecords
  PROVE  Balanced(connection_close(s), Gone, <<>>, <<>>)
<1>1. /\ connection_close(s).state = "PENALTY_BOX" /\ connection_close(s).pending = 0
      /\ connection_close(s).bin = <<>> /\ connection_close(s).bout = <<>>
  BY DEF connection_close, ConnRecords
<1>2. ~Gone.up
  BY DEF Gone
<1> QED
  BY <1>1, <1>2 DEF Balanced, Idle

(* Reading moves statuses from the pipe to bin.                            *)
LEMMA InputBalanced ==
  ASSUME NEW s, NEW b, NEW tb, NEW fb, Typed(s, b, tb, fb),
         Balanced(s, b, tb, fb), s.bin = <<>>, NEW n \in 1 .. Len(fb)
  PROVE  Balanced([s EXCEPT !.bin = SubSeq(fb, 1, n)], b, tb,
                  SubSeq(fb, n + 1, Len(fb)))
<1> DEFINE chunk == SubSeq(fb, 1, n)
           rest == SubSeq(fb, n + 1, Len(fb))
           r == [s EXCEPT !.bin = chunk]
<1>1. fb \in Seq(Lines) /\ n \in 0 .. Len(fb)
  BY DEF Typed
<1>2. /\ chunk \in Seq(Lines) /\ rest \in Seq(Lines)
      /\ Cardinality(StatusAt(fb)) = Cardinality(StatusAt(chunk)) + Cardinality(StatusAt(rest))
  BY <1>1, StatusAtSplit
<1> HIDE DEF chunk, rest
<1>3. /\ r.bin = chunk /\ r.bout = s.bout
      /\ r.state = s.state /\ r.pending = s.pending
  BY DEF Typed, ConnRecords
<1> HIDE DEF r
<1>4. Unprocessed(s) = 0 /\ Unprocessed(r) = Cardinality(StatusAt(chunk)) /\ Queued(r) = Queued(s)
  BY <1>3, StatusAtEmpty DEF Unprocessed, Queued
<1>5. Count(fb) = Count(rest) + Unprocessed(r)
  <2>1. Count(rest) \in Nat /\ Unprocessed(r) \in Nat
    BY <1>2, <1>4, StatusAtFinite DEF Count
  <2> QED
    BY <1>2, <1>4, <2>1 DEF Count
<1>6. Debt(r, b, tb, rest) = Debt(s, b, tb, fb)
  <2>1. Count(rest) \in Nat /\ Unprocessed(r) \in Nat
    BY <1>2, <1>4, StatusAtFinite DEF Count
  <2> QED
    BY <1>4, <1>5, <2>1, DebtTypes DEF Debt
<1>7. s.state # "PENALTY_BOX"
  <2>1. fb # <<>>
    BY EmptySeq
  <2> QED
    BY <2>1 DEF Balanced, Idle
<1>8. Balanced(r, b, tb, rest)
  BY <1>3, <1>6, <1>7, BalanceMoves
<1> QED
  BY <1>8 DEF r, chunk, rest

(* Writing moves requests from bout to the pipe.                           *)
LEMMA OutputBalanced ==
  ASSUME NEW s, NEW b, NEW tb, NEW fb, Typed(s, b, tb, fb),
         Balanced(s, b, tb, fb), NEW n \in 0 .. Len(s.bout), b.up
  PROVE  Balanced(Written(s, n), b, tb \o SubSeq(s.bout, 1, n), fb)
<1> DEFINE gone == SubSeq(s.bout, 1, n)
           rest == SubSeq(s.bout, n + 1, Len(s.bout))
           r == Written(s, n)
           tb1 == tb \o gone
<1>1. s.bout \in Seq(Commands) /\ tb \in Seq(Commands)
  BY DEF Typed, ConnRecords
<1>2. /\ gone \in Seq(Commands) /\ Len(gone) = n
      /\ rest \in Seq(Commands) /\ Len(rest) = Len(s.bout) - n
  BY <1>1, CutCommands
<1>3. /\ r.bout = rest /\ r.bin = s.bin
      /\ r.state = s.state /\ r.pending = s.pending
  <2> HIDE DEF rest
  <2> QED
    BY DEF Typed, ConnRecords, Written, rest
<1> HIDE DEF gone, rest, r
<1>4. Len(tb1) = Len(tb) + n
  BY <1>1, <1>2, ConcatProperties
<1> HIDE DEF tb1
<1>5. Queued(r) = Queued(s) - n /\ Unprocessed(r) = Unprocessed(s)
  BY <1>2, <1>3 DEF Queued, Unprocessed
<1>6. n \in Nat
  OBVIOUS
<1>7. Debt(r, b, tb1, fb) = Debt(s, b, tb, fb)
  BY <1>4, <1>5, <1>6, DebtTypes DEF Debt
<1>8. s.state # "PENALTY_BOX"
  BY DEF Balanced, Idle
<1>9. Balanced(r, b, tb1, fb)
  BY <1>3, <1>7, <1>8, BalanceMoves
<1> QED
  BY <1>9 DEF r, tb1, gone

(* A status processed was counted, and what it lets the front end send is  *)
(* counted in its turn.                                                    *)
LEMMA LineBalanced ==
  ASSUME NEW c \in Conns, NEW p, NEW b, NEW tb, NEW fb, Typed(p, b, tb, fb),
         Shape(c, p), Balanced(p, b, tb, fb), p.bin # <<>>, NEW have \in BOOLEAN,
         ~Closes([p EXCEPT !.bin = Tail(p.bin)], Head(p.bin))
  PROVE  Balanced(proto_process_line(c, [p EXCEPT !.bin = Tail(p.bin)], Head(p.bin), have),
                  b, tb, fb)
<1> DEFINE line == Head(p.bin)
           s == [p EXCEPT !.bin = Tail(p.bin)]
           r == proto_process_line(c, s, line, have)
<1> SUFFICES Balanced(r, b, tb, fb)
  OBVIOUS
<1>1. p.bin \in Seq(Lines)
  BY DEF Typed, ConnRecords
<1>2. /\ line \in Lines /\ Tail(p.bin) \in Seq(Lines)
      /\ line.tag \in Statuses =>
           Cardinality(StatusAt(Tail(p.bin))) = Cardinality(StatusAt(p.bin)) - 1
      /\ line.tag \notin Statuses =>
           Cardinality(StatusAt(Tail(p.bin))) = Cardinality(StatusAt(p.bin))
  BY <1>1, StatusAtTail
<1>3. /\ s \in ConnRecords /\ s.bin = Tail(p.bin) /\ s.bout = p.bout
      /\ s.state = p.state /\ s.pending = p.pending /\ s.added = p.added
  BY <1>2 DEF Typed, ConnRecords
<1>4. Shape(c, s) /\ ~Closes(s, line)
  BY <1>3 DEF Shape
<1> HIDE DEF line, s
<1>5. /\ Unprocessed(s) \in Nat
      /\ line.tag \in Statuses => Unprocessed(p) = Unprocessed(s) + 1
      /\ line.tag \notin Statuses => Unprocessed(p) = Unprocessed(s)
  <2>1. Unprocessed(s) = Cardinality(StatusAt(Tail(p.bin)))
    BY <1>3 DEF Unprocessed
  <2>2. Unprocessed(p) \in Nat /\ Unprocessed(p) = Cardinality(StatusAt(p.bin))
    BY DebtTypes DEF Unprocessed
  <2>3. Unprocessed(s) \in Nat
    BY <1>2, <2>1, StatusAtFinite
  <2> QED
    BY <1>2, <2>1, <2>2, <2>3
<1>6. /\ Shape(c, r) /\ r.bin = s.bin
      /\ \/ Advances(c, s, line, r)
         \/ Settles(s, line, r)
         \/ Responds(s, line, r)
         \/ IsQuiet(s, line, r)
  BY <1>2, <1>4, LineEffect
<1> HIDE DEF r
<1>7. Unprocessed(r) = Unprocessed(s) /\ Queued(s) = Queued(p)
  BY <1>3, <1>6 DEF Unprocessed, Queued
<1>8. p.state # "PENALTY_BOX"
  BY DEF Balanced, Idle
<1>9. \A cmd \in Commands : r.bout = Append(s.bout, cmd) => Queued(r) = Queued(s) + 1
  <2>1. s.bout \in Seq(Commands)
    BY <1>3 DEF ConnRecords
  <2> QED
    BY <2>1, AppendProperties DEF Queued
<1>10. /\ Unsent(b) \in Nat /\ Queued(p) \in Nat /\ Len(tb) \in Nat
       /\ Count(fb) \in Nat /\ Unprocessed(p) \in Nat /\ p.pending \in Nat
  BY DebtTypes
<1>11. CASE Advances(c, s, line, r)
  <2>1. line.tag \in Statuses /\ Queued(r) = Queued(p) + 1
    BY <1>7, <1>9, <1>11 DEF Advances, Statuses
  <2>2. Debt(p, b, tb, fb) = 1 /\ p.pending = 0
    BY <1>3, <1>11 DEF Advances, Balanced
  <2>3. Debt(r, b, tb, fb) = 1
    BY <1>5, <1>7, <1>10, <2>1, <2>2 DEF Debt
  <2> QED
    BY <1>3, <1>11, <2>2, <2>3 DEF Advances, Balanced
<1>12. CASE Settles(s, line, r)
  <2>1. line.tag \in Statuses /\ p.state = "NORMAL"
    BY <1>3, <1>12 DEF Settles
  <2>2. p.pending = Debt(p, b, tb, fb)
    BY <2>1 DEF Balanced
  <2>3. p.pending > 0
    BY <1>5, <1>10, <2>1, <2>2 DEF Debt
  <2>4. r = [s EXCEPT !.pending = p.pending - 1]
    BY <1>3, <1>12, <2>3 DEF Settles, ProcessStatus
  <2>5. r.state = "NORMAL" /\ r.pending = p.pending - 1 /\ r.bout = s.bout
    BY <1>3, <2>1, <2>4 DEF ConnRecords
  <2>6. Queued(r) = Queued(p)
    BY <1>7, <2>5 DEF Queued
  <2>7. Debt(r, b, tb, fb) = Debt(p, b, tb, fb) - 1
    BY <1>5, <1>7, <1>10, <2>1, <2>6 DEF Debt
  <2> QED
    BY <2>2, <2>5, <2>7 DEF Balanced
<1>13. CASE Responds(s, line, r)
  <2>1. /\ line.tag \notin Statuses /\ Queued(r) = Queued(p) + 1
        /\ p.state = "NORMAL" /\ r.state = "NORMAL" /\ r.pending = p.pending + 1
    BY <1>3, <1>7, <1>9, <1>13 DEF Responds
  <2>2. p.pending = Debt(p, b, tb, fb)
    BY <2>1 DEF Balanced
  <2>3. Debt(r, b, tb, fb) = Debt(p, b, tb, fb) + 1
    BY <1>5, <1>7, <1>10, <2>1 DEF Debt
  <2> QED
    BY <2>1, <2>2, <2>3 DEF Balanced
<1>14. CASE IsQuiet(s, line, r)
  <2>1. line.tag \notin Statuses /\ r.state = p.state /\ r.pending = p.pending /\ r.bout = p.bout
    BY <1>3, <1>8, <1>14 DEF IsQuiet
  <2>2. Queued(r) = Queued(p)
    BY <2>1 DEF Queued
  <2>3. Debt(r, b, tb, fb) = Debt(p, b, tb, fb)
    BY <1>5, <1>7, <1>10, <2>1, <2>2 DEF Debt
  <2> QED
    BY <1>8, <2>1, <2>3, BalanceMoves
<1> QED
  BY <1>6, <1>11, <1>12, <1>13, <1>14

(* What a back end says: a status for a request it took or for having      *)
(* started, or a line that is no status.                                   *)
LEMMA SayBalanced ==
  ASSUME NEW s, NEW b, NEW tb, NEW fb, Typed(s, b, tb, fb),
         Balanced(s, b, tb, fb), b.up, NEW line \in Lines,
         NEW b1 \in BackEnds, NEW tb1 \in Seq(Commands),
         \/ line.tag \in Statuses /\ Unsent(b1) = Unsent(b) /\ tb # <<>> /\ tb1 = Tail(tb)
         \/ line.tag \in Statuses /\ ~b.greeted /\ b1.greeted /\ tb1 = tb
         \/ line.tag \notin Statuses /\ Unsent(b1) = Unsent(b) /\ tb1 = tb
  PROVE  Balanced(s, b1, tb1, Append(fb, line))
<1> DEFINE fb1 == Append(fb, line)
<1>1. fb \in Seq(Lines) /\ tb \in Seq(Commands)
  BY DEF Typed
<1>2. /\ line.tag \in Statuses => Count(fb1) = Count(fb) + 1
      /\ line.tag \notin Statuses => Count(fb1) = Count(fb)
  BY <1>1, StatusAtAppend DEF Count
<1> HIDE DEF fb1
<1>3. s.state # "PENALTY_BOX"
  BY DEF Balanced, Idle
<1>4. /\ Unsent(b) \in Nat /\ Queued(s) \in Nat /\ Len(tb) \in Nat
      /\ Count(fb) \in Nat /\ Unprocessed(s) \in Nat
  BY DebtTypes
<1>5. CASE line.tag \in Statuses /\ Unsent(b1) = Unsent(b) /\ tb # <<>> /\ tb1 = Tail(tb)
  <2>1. Len(tb1) = Len(tb) - 1
    BY <1>1, <1>5, HeadTailProperties
  <2>3. Unsent(b1) = Unsent(b) /\ Count(fb1) = Count(fb) + 1
    BY <1>2, <1>5
  <2>2. Debt(s, b1, tb1, fb1) = Debt(s, b, tb, fb)
    BY <1>4, <2>1, <2>3 DEF Debt
  <2> QED
    BY <1>3, <2>2, BalanceMoves DEF fb1
<1>6. CASE line.tag \in Statuses /\ ~b.greeted /\ b1.greeted /\ tb1 = tb
  <2>1. Unsent(b) = 1 /\ Unsent(b1) = 0
    BY <1>6 DEF Unsent
  <2>2. Debt(s, b1, tb1, fb1) = Debt(s, b, tb, fb)
    BY <1>2, <1>4, <1>6, <2>1 DEF Debt
  <2> QED
    BY <1>3, <2>2, BalanceMoves DEF fb1
<1>7. CASE line.tag \notin Statuses /\ Unsent(b1) = Unsent(b) /\ tb1 = tb
  <2>1. Debt(s, b1, tb1, fb1) = Debt(s, b, tb, fb)
    BY <1>2, <1>4, <1>7 DEF Debt
  <2> QED
    BY <1>3, <2>1, BalanceMoves DEF fb1
<1> QED
  BY <1>5, <1>6, <1>7

(* Only the state, the counter, the buffers and what the back end owes     *)
(* enter the balance.                                                      *)
LEMMA SameBalance ==
  ASSUME NEW s, NEW b, NEW tb, NEW fb, Balanced(s, b, tb, fb), NEW s1, NEW b1,
         s1.state = s.state, s1.pending = s.pending,
         s1.bin = s.bin, s1.bout = s.bout,
         b1.greeted = b.greeted, b1.up => b.up
  PROVE  Balanced(s1, b1, tb, fb)
<1>1. Debt(s1, b1, tb, fb) = Debt(s, b, tb, fb)
  BY DEF Debt, Unsent, Queued, Unprocessed
<1>2. Idle(s, b, tb, fb) => Idle(s1, b1, tb, fb)
  BY DEF Idle
<1> QED
  BY <1>1, <1>2, Zenon DEF Balanced

LEMMA AccountInit == Init => AccountInv
<1> SUFFICES ASSUME Init, NEW c \in Conns
             PROVE  Balanced(conn[c], be[c], toBack[c], fromBack[c])
  BY DEF AccountInv
<1>1. /\ conn[c] = connection_init /\ be[c] = Gone
      /\ toBack[c] = <<>> /\ fromBack[c] = <<>>
  BY DEF Init, BackInit
<1> QED
  BY <1>1 DEF connection_init, Gone, Balanced, Idle

LEMMA AccountStep ==
  ASSUME \A c \in Conns : "stray" \notin Faults[c], TypeInv, AccountInv, [Next]_vars
  PROVE  AccountInv'
<1>1. /\ conn \in [Conns -> ConnRecords]
      /\ toBack \in [Conns -> Seq(Commands)]
      /\ fromBack \in [Conns -> Seq(Lines)]
      /\ be \in [Conns -> BackEnds]
      /\ \A d \in Conns : Shape(d, conn[d])
  BY DEF TypeInv, TypeOK, BackTypeOK
<1> SUFFICES ASSUME NEW c \in Conns
             PROVE  Balanced(conn'[c], be'[c], toBack'[c], fromBack'[c])
  BY DEF AccountInv
<1> DEFINE s == conn[c]
           b == be[c]
           tb == toBack[c]
           fb == fromBack[c]
<1>2. Typed(s, b, tb, fb)
  BY <1>1 DEF Typed
<1>3. Balanced(s, b, tb, fb)
  BY DEF AccountInv
<1>4. Shape(c, s)
  BY <1>1
<1>5. CASE proto_do_retries
  <2>1. /\ toBack'[c] = tb /\ fromBack'[c] = fb
        /\ \/ conn'[c] = s /\ be'[c] = b
           \/ WantsRetry(s) /\ conn'[c] = proto_init_conn(s) /\ be'[c] = Fresh
    BY <1>5 DEF proto_do_retries
  <2> HIDE DEF s, b, tb, fb
  <2> QED
    BY <1>2, <1>3, <2>1, OpenBalanced
<1>6. CASE proto_do_poll
  <2>1. /\ toBack'[c] = tb /\ fromBack'[c] = fb /\ be'[c] = b
        /\ \/ conn'[c] = s
           \/ s.state = "NORMAL" /\ conn'[c] = proto_poll_conn(s)
    BY <1>6 DEF proto_do_poll, WantsPoll
  <2> HIDE DEF s, b, tb, fb
  <2> QED
    BY <1>2, <1>3, <2>1, PollBalanced
<1>7. CASE Tick
  <2>1. /\ toBack'[c] = tb /\ fromBack'[c] = fb /\ be'[c] = b
        /\ conn'[c] = [s EXCEPT !.wait = IF @ > 0 THEN @ - 1 ELSE 0]
    BY <1>7 DEF Tick
  <2>2. /\ conn'[c].state = s.state /\ conn'[c].pending = s.pending
        /\ conn'[c].bin = s.bin /\ conn'[c].bout = s.bout
    BY <1>2, <2>1 DEF Typed, ConnRecords
  <2> HIDE DEF s, b, tb, fb
  <2> QED
    BY <1>3, <2>1, <2>2, SameBalance
<1>8. ASSUME NEW d \in Conns, proto_do_conn_input(d)
      PROVE  Balanced(conn'[c], be'[c], toBack'[c], fromBack'[c])
  <2>1. CASE d # c
    <3>1. conn'[c] = s /\ be'[c] = b /\ toBack'[c] = tb /\ fromBack'[c] = fb
      BY <1>1, <1>8, <2>1 DEF proto_do_conn_input
    <3> QED
      BY <1>3, <3>1
  <2>2. CASE d = c
    <3>1. s.bin = <<>>
      BY <1>8, <2>2 DEF proto_do_conn_input, Busy
    <3>2. PICK n \in 1 .. Len(fb) :
             /\ conn'[c] = [s EXCEPT !.bin = SubSeq(fb, 1, n)]
             /\ fromBack'[c] = SubSeq(fb, n + 1, Len(fb))
             /\ be'[c] = b /\ toBack'[c] = tb
      BY <1>1, <1>8, <2>2 DEF proto_do_conn_input
    <3> HIDE DEF s, b, tb, fb
    <3>3. Balanced([s EXCEPT !.bin = SubSeq(fb, 1, n)], b, tb, SubSeq(fb, n + 1, Len(fb)))
      BY <1>2, <1>3, <3>1, InputBalanced
    <3> QED
      BY <3>2, <3>3, Zenon
  <2> QED
    BY <2>1, <2>2
<1>9. ASSUME NEW d \in Conns, Close(d)
      PROVE  Balanced(conn'[c], be'[c], toBack'[c], fromBack'[c])
  <2>1. CASE d # c
    <3>1. conn'[c] = s /\ be'[c] = b /\ toBack'[c] = tb /\ fromBack'[c] = fb
      BY <1>1, <1>9, <2>1 DEF Close, Disconnect
    <3> QED
      BY <1>3, <3>1
  <2>2. CASE d = c
    <3>1. /\ conn'[c] = connection_close(s) /\ be'[c] = Gone
          /\ toBack'[c] = <<>> /\ fromBack'[c] = <<>>
      BY <1>1, <1>9, <2>2 DEF Close, Disconnect
    <3> QED
      BY <1>1, <3>1, CloseBalanced
  <2> QED
    BY <2>1, <2>2
<1>10. ASSUME NEW d \in Conns, ProcessLine(d)
       PROVE  Balanced(conn'[c], be'[c], toBack'[c], fromBack'[c])
  <2>1. CASE d # c
    <3>1. conn'[c] = s /\ be'[c] = b /\ toBack'[c] = tb /\ fromBack'[c] = fb
      BY <1>1, <1>10, <2>1 DEF ProcessLine, Disconnect
    <3> QED
      BY <1>3, <3>1
  <2>2. CASE d = c
    <3> DEFINE t == [s EXCEPT !.bin = Tail(s.bin)]
               line == Head(s.bin)
    <3>1. PICK have \in BOOLEAN :
            /\ s.bin # <<>>
            /\ conn'[c] = proto_process_line(c, t, line, have)
            /\ IF Closes(t, line)
                 THEN be'[c] = Gone /\ toBack'[c] = <<>> /\ fromBack'[c] = <<>>
                 ELSE be'[c] = b /\ toBack'[c] = tb /\ fromBack'[c] = fb
      BY <1>1, <1>10, <2>2 DEF ProcessLine, Disconnect
    <3>2. CASE Closes(t, line)
      <4>1. t \in ConnRecords
        <5>1. Tail(s.bin) \in Seq(Lines)
          BY <1>2, <3>1, HeadTailProperties DEF Typed, ConnRecords
        <5> QED
          BY <1>2, <5>1 DEF Typed, ConnRecords
      <4> HIDE DEF t, line
      <4>2. conn'[c] = connection_close(t)
        BY <3>1, <3>2, <4>1 DEF Closes, proto_process_line, ProcessNo
      <4> QED
        BY <3>1, <3>2, <4>1, <4>2, CloseBalanced
    <3>3. CASE ~Closes(t, line)
      <4> HIDE DEF s, b, tb, fb
      <4> QED
        BY <1>2, <1>3, <1>4, <3>1, <3>3, LineBalanced
    <3> QED
      BY <3>2, <3>3
  <2> QED
    BY <2>1, <2>2
<1>11. ASSUME NEW d \in Conns, proto_do_conn_output(d)
       PROVE  Balanced(conn'[c], be'[c], toBack'[c], fromBack'[c])
  <2>1. CASE d # c
    <3>1. conn'[c] = s /\ be'[c] = b /\ toBack'[c] = tb /\ fromBack'[c] = fb
      BY <1>1, <1>11, <2>1 DEF proto_do_conn_output
    <3> QED
      BY <1>3, <3>1
  <2>2. CASE d = c
    <3>1. PICK n \in 0 .. Len(s.bout) :
            /\ conn'[c] = Written(s, n)
            /\ toBack'[c] = tb \o SubSeq(s.bout, 1, n)
            /\ fromBack'[c] = fb /\ be'[c] = b /\ b.up
      BY <1>1, <1>11, <2>2 DEF proto_do_conn_output
    <3> HIDE DEF s, b, tb, fb
    <3> QED
      BY <1>2, <1>3, <3>1, OutputBalanced
  <2> QED
    BY <2>1, <2>2
<1>12. \A t \in LineTags, f \in Names \cup {NoArg} : Line(t, f) \in Lines /\ Line(t, f).tag = t
  BY DEF Line, Lines
<1>13. ASSUME NEW d \in Conns, Greet(d), UNCHANGED conn
       PROVE  Balanced(conn'[c], be'[c], toBack'[c], fromBack'[c])
  <2>1. CASE d # c
    <3>1. conn'[c] = s /\ be'[c] = b /\ toBack'[c] = tb /\ fromBack'[c] = fb
      BY <1>1, <1>13, <2>1 DEF Greet, Say
    <3> QED
      BY <1>3, <3>1
  <2>2. CASE d = c
    <3>1. PICK status \in Statuses :
            /\ b.up /\ ~b.greeted /\ conn'[c] = s /\ toBack'[c] = tb
            /\ fromBack'[c] = Append(fb, Line(status, NoArg))
            /\ be'[c] = [b EXCEPT !.greeted = TRUE]
      BY <1>1, <1>13, <2>2, RepliesAssumption DEF Greet, Say
    <3>2. be'[c] \in BackEnds /\ be'[c].greeted
      BY <1>2, <3>1 DEF Typed, BackEnds
    <3> DEFINE line == Line(status, NoArg)
               b1 == be'[c]
    <3>3. line \in Lines /\ line.tag \in Statuses
      BY <1>12 DEF LineTags
    <3>4. tb \in Seq(Commands)
      BY <1>1
    <3> HIDE DEF s, b, tb, fb, line, b1
    <3>5. Balanced(s, b1, tb, Append(fb, line))
      BY <1>2, <1>3, <3>1, <3>2, <3>3, <3>4, SayBalanced DEF b1
    <3> QED
      BY <3>1, <3>5 DEF b1, line
  <2> QED
    BY <2>1, <2>2
<1>14. ASSUME NEW d \in Conns, Answer(d), UNCHANGED conn
       PROVE  Balanced(conn'[c], be'[c], toBack'[c], fromBack'[c])
  <2>1. CASE d # c
    <3>1. conn'[c] = s /\ be'[c] = b /\ toBack'[c] = tb /\ fromBack'[c] = fb
      BY <1>1, <1>14, <2>1 DEF Answer, Say
    <3> QED
      BY <1>3, <3>1
  <2>2. CASE d = c
    <3>1. PICK status \in Statuses :
            /\ b.up /\ tb # <<>> /\ conn'[c] = s /\ toBack'[c] = Tail(tb)
            /\ fromBack'[c] = Append(fb, Line(status, NoArg))
      BY <1>1, <1>14, <2>2, RepliesAssumption DEF Answer, Say
    <3>2. be'[c] \in BackEnds
      BY <1>14, TypeStep DEF TypeInv, TypeOK, BackTypeOK, Next, BackEndStep
    <3>3. Unsent(be'[c]) = Unsent(b)
      BY <1>1, <1>14, <2>2 DEF Answer, BackEnds, Unsent
    <3>4. Line(status, NoArg) \in Lines /\ Line(status, NoArg).tag \in Statuses
      BY <1>12 DEF LineTags
    <3>5. Tail(tb) \in Seq(Commands)
      BY <1>1, <3>1, HeadTailProperties
    <3> HIDE DEF s, b, tb, fb
    <3> QED
      BY <1>2, <1>3, <3>1, <3>2, <3>3, <3>4, <3>5, SayBalanced
  <2> QED
    BY <2>1, <2>2
<1>15. ASSUME NEW d \in Conns, Notify(d) \/ Ask(d) \/ Chatter(d), UNCHANGED conn
       PROVE  Balanced(conn'[c], be'[c], toBack'[c], fromBack'[c])
  <2>1. CASE d # c
    <3>1. conn'[c] = s /\ be'[c] = b /\ toBack'[c] = tb /\ fromBack'[c] = fb
      BY <1>1, <1>15, <2>1 DEF Notify, Ask, Chatter, Say
    <3> QED
      BY <1>3, <3>1
  <2>2. CASE d = c
    <3>1. Spoken(c) \subseteq Names
      BY <1>2 DEF Typed, BackEnds, Spoken
    <3>2. PICK t \in LineTags \ Statuses, f \in Names \cup {NoArg} :
            /\ b.up /\ conn'[c] = s /\ toBack'[c] = tb
            /\ fromBack'[c] = Append(fb, Line(t, f))
      <4>1. \A t \in LineTags, f \in Names \cup {NoArg} :
              Say(c, Line(t, f)) => b.up /\ fromBack'[c] = Append(fb, Line(t, f))
        BY <1>1 DEF Say
      <4>2. conn'[c] = s /\ toBack'[c] = tb
        BY <1>1, <1>15, <2>2 DEF Notify, Ask, Chatter
      <4>3. {"UPDATE", "RESET", "DATAREQUEST", "NOTE", "BAD"} \subseteq LineTags \ Statuses
        BY DEF LineTags, Statuses
      <4>4. \E t \in {"UPDATE", "RESET", "DATAREQUEST", "NOTE", "BAD"},
               f \in Names \cup {NoArg} : Say(c, Line(t, f))
        <5>1. CASE Notify(c)
          <6>1. PICK f \in Spoken(c) : Say(c, Line("UPDATE", f)) \/ Say(c, Line("RESET", f))
            BY <5>1 DEF Notify
          <6> QED
            BY <3>1, <6>1
        <5>2. CASE Ask(c)
          BY <5>2 DEF Ask
        <5>3. CASE Chatter(c)
          BY <5>3 DEF Chatter
        <5> QED
          BY <1>15, <2>2, <5>1, <5>2, <5>3
      <4> QED
        BY <4>1, <4>2, <4>3, <4>4
    <3>3. be'[c] \in BackEnds
      BY <1>15, TypeStep DEF TypeInv, TypeOK, BackTypeOK, Next, BackEndStep
    <3>4. Unsent(be'[c]) = Unsent(b)
      <4>1. be'[c].greeted = b.greeted
        <5>1. CASE Notify(c)
          <6>1. \E g \in Spoken(c) : \/ be' = [be EXCEPT ![c].news = @ \cup {g}]
                                   \/ be' = [be EXCEPT ![c].news = @ \ {g}]
            BY <5>1 DEF Notify
          <6> QED
            BY <1>1, <6>1 DEF BackEnds
        <5>2. CASE Ask(c)
          BY <1>1, <5>2 DEF Ask, BackEnds
        <5>3. CASE Chatter(c)
          BY <5>3 DEF Chatter
        <5> QED
          BY <1>15, <2>2, <5>1, <5>2, <5>3
      <4> QED
        BY <4>1 DEF Unsent
    <3>5. Line(t, f) \in Lines /\ Line(t, f).tag \notin Statuses
      BY <1>12
    <3>6. tb \in Seq(Commands)
      BY <1>1
    <3> HIDE DEF s, b, tb, fb
    <3> QED
      BY <1>2, <1>3, <3>2, <3>3, <3>4, <3>5, <3>6, SayBalanced
  <2> QED
    BY <2>1, <2>2
<1>16. ASSUME NEW d \in Conns, Exit(d), UNCHANGED conn
       PROVE  Balanced(conn'[c], be'[c], toBack'[c], fromBack'[c])
  <2>1. /\ conn'[c] = s /\ toBack'[c] = tb /\ fromBack'[c] = fb
        /\ be'[c].greeted = b.greeted
        /\ be'[c].up => b.up
    BY <1>1, <1>16 DEF Exit, BackEnds
  <2> HIDE DEF s, b, tb, fb
  <2> QED
    BY <1>3, <2>1, SameBalance
<1>17. CASE UNCHANGED vars
  BY <1>3, <1>17 DEF vars
<1> QED
  BY <1>5, <1>6, <1>7, <1>8, <1>9, <1>10, <1>11, <1>13, <1>14, <1>15, <1>16, <1>17
     DEF Next, FrontEndStep, BackEndStep, Hangup, BrokenPipe

(* With back ends that send no status unasked, the front end's count of    *)
(* the requests it waits for is exact in every reachable state: no OK or   *)
(* NO is ever unexpected (proto.c:119, 137), whatever exits, fails to      *)
(* start or sends gibberish, for any number of connections and folders.    *)
THEOREM StatusesAccounted ==
  ASSUME \A c \in Conns : "stray" \notin Faults[c]
  PROVE  Spec => []StatusAccounting
<1>1. Init => TypeInv /\ AccountInv
  BY TypeInit, AccountInit
<1>2. TypeInv /\ AccountInv /\ [Next]_vars => (TypeInv /\ AccountInv)'
  BY TypeStep, AccountStep
<1>3. TypeInv /\ AccountInv => StatusAccounting
  <2> SUFFICES ASSUME TypeInv, AccountInv, NEW c \in Conns
               PROVE  /\ conn[c].state = "PENALTY_BOX" =>
                           /\ toBack[c] = <<>> /\ fromBack[c] = <<>>
                           /\ conn[c].bin = <<>> /\ conn[c].bout = <<>>
                      /\ conn[c].state \in {"WAIT_HELLO", "ADDING_FOLDERS"} =>
                           Outstanding(c) = 1
                      /\ conn[c].pending =
                           IF conn[c].state = "NORMAL" THEN Outstanding(c) ELSE 0
    BY DEF StatusAccounting
  <2>1. Outstanding(c) = Debt(conn[c], be[c], toBack[c], fromBack[c])
    BY DEF Outstanding, Owed, Debt, Unsent, Queued, Unprocessed, Count
  <2>2. Balanced(conn[c], be[c], toBack[c], fromBack[c])
    BY DEF AccountInv
  <2>3. conn[c].state \in CStates
    BY DEF TypeInv, TypeOK, BackTypeOK, ConnRecords
  <2> HIDE DEF Outstanding
  <2> QED
    BY <2>1, <2>2, <2>3 DEF Balanced, Idle, CStates
<1> QED
  BY <1>1, <1>2, <1>3, PTL DEF Spec

-------------------------------------------------------------------------------
(* One record at a time: what the interface waits for, and what it shows *)

(* Every step of the specification does one of these to each record; what  *)
(* is read into bin comes out of the pipe.                                 *)
LEMMA RecordSteps ==
  ASSUME TypeInv, [Next]_vars, NEW d \in Conns,
         NEW S, fromBack[d] \in Seq(S)
  PROVE  RecordStep(d, conn[d], conn'[d], S)
<1>0. conn \in [Conns -> ConnRecords]
  BY DEF TypeInv, TypeOK, BackTypeOK
<1>1. CASE proto_do_retries
  <2>1. PICK started \in SUBSET {c \in Conns : WantsRetry(conn[c])} :
          conn' = [c \in Conns |-> IF c \in started THEN proto_init_conn(conn[c])
                                                    ELSE conn[c]]
    BY <1>1 DEF proto_do_retries
  <2> QED
    BY <2>1 DEF RecordStep, HandlerStep, Opens
<1>2. CASE proto_do_poll
  BY <1>2 DEF proto_do_poll, RecordStep, HandlerStep, Polls
<1>3. CASE Tick
  <2> DEFINE k == IF conn[d].wait > 0 THEN conn[d].wait - 1 ELSE 0
  <2>1. conn'[d] = [conn[d] EXCEPT !.wait = k]
    BY <1>3 DEF Tick
  <2>2. k \in 0 .. 2 * MaxPenalty
    BY <1>0, PenaltyAssumption DEF ConnRecords
  <2> HIDE DEF k
  <2> QED
    BY <2>1, <2>2 DEF RecordStep, HandlerStep, Waits
<1>4. ASSUME NEW c \in Conns, proto_do_conn_input(c) PROVE RecordStep(d, conn[d], conn'[d], S)
  <2>1. CASE d = c
    <3>1. PICK n \in 1 .. Len(fromBack[d]) :
            conn' = [conn EXCEPT ![d].bin = SubSeq(fromBack[d], 1, n)]
      BY <1>4, <2>1 DEF proto_do_conn_input
    <3>2. SubSeq(fromBack[d], 1, n) \in Seq(S)
      BY <3>1, CutSeq
    <3>3. conn'[d] = [conn[d] EXCEPT !.bin = SubSeq(fromBack[d], 1, n)]
      BY <1>0, <3>1
    <3> QED
      BY <3>2, <3>3 DEF RecordStep, HandlerStep, Reads
  <2>2. CASE d # c
    BY <1>0, <1>4, <2>2 DEF proto_do_conn_input, RecordStep, HandlerStep
  <2> QED
    BY <2>1, <2>2
<1>5. ASSUME NEW c \in Conns, Close(c) PROVE RecordStep(d, conn[d], conn'[d], S)
  BY <1>0, <1>5 DEF Close, RecordStep, HandlerStep, Shuts
<1>6. ASSUME NEW c \in Conns, ProcessLine(c) PROVE RecordStep(d, conn[d], conn'[d], S)
  <2>1. CASE d = c
    <3>1. PICK have \in BOOLEAN :
            conn' = [conn EXCEPT ![d] = proto_process_line(d,
                       [conn[d] EXCEPT !.bin = Tail(@)], Head(conn[d].bin), have)]
      BY <1>6, <2>1 DEF ProcessLine
    <3>2. conn[d].bin # <<>>
      BY <1>6, <2>1 DEF ProcessLine
    <3> QED
      BY <1>0, <3>1, <3>2 DEF RecordStep, HandlerStep, Processes
  <2>2. CASE d # c
    BY <1>0, <1>6, <2>2 DEF ProcessLine, RecordStep, HandlerStep
  <2> QED
    BY <2>1, <2>2
<1>7. ASSUME NEW c \in Conns, proto_do_conn_output(c) PROVE RecordStep(d, conn[d], conn'[d], S)
  <2>1. CASE d = c
    <3>1. PICK n \in 0 .. Len(conn[d].bout) : conn' = [conn EXCEPT ![d] = Written(@, n)]
      BY <1>7, <2>1 DEF proto_do_conn_output
    <3> QED
      BY <1>0, <3>1 DEF RecordStep, HandlerStep, Writes
  <2>2. CASE d # c
    BY <1>0, <1>7, <2>2 DEF proto_do_conn_output, RecordStep, HandlerStep
  <2> QED
    BY <2>1, <2>2
<1>8. CASE UNCHANGED conn
  BY <1>8 DEF RecordStep, HandlerStep
<1> QED
  BY <1>1, <1>2, <1>3, <1>4, <1>5, <1>6, <1>7, <1>8
     DEF Next, FrontEndStep, Hangup, BrokenPipe, vars

(* No wakeup is ever lost: whatever is read, written in part, closed,      *)
(* reopened or polled in whatever order, the interface waits for output    *)
(* exactly while there is some, and for input exactly while the connection *)
(* is open (gui.add_fd and gui.delete_fd in proto.c and connection.c), for *)
(* any number of connections and any faults.                               *)
THEOREM WakeupsKept == Spec => []NoLostWakeup
<1>1. Init => NoLostWakeup
  <2>1. /\ connection_init.watch = {} /\ connection_init.bout = <<>>
        /\ connection_init.state = "PENALTY_BOX"
    BY DEF connection_init
  <2> QED
    BY <2>1, Zenon DEF Init, NoLostWakeup
<1>2. TypeInv /\ NoLostWakeup /\ [Next]_vars => NoLostWakeup'
  <2> SUFFICES ASSUME TypeInv, NoLostWakeup, [Next]_vars, NEW c \in Conns
               PROVE  Watching(conn'[c])
    BY DEF NoLostWakeup, Watching
  <2>1. Shape(c, conn[c]) /\ fromBack[c] \in Seq(Lines)
    BY DEF TypeInv, TypeOK, BackTypeOK
  <2>2. Watching(conn[c])
    BY DEF NoLostWakeup, Watching
  <2>3. RecordStep(c, conn[c], conn'[c], Lines)
    BY <2>1, RecordSteps
  <2> QED
    BY <2>1, <2>2, <2>3, WatchStep
<1> QED
  BY <1>1, <1>2, TypeInvariant, PTL DEF Spec

-------------------------------------------------------------------------------
(* Nobody speaks of a folder that is not configured *)

(* Back ends are told only of our folders, and so report only those.       *)
OursInv == \A c \in Conns : Clean(c, conn[c]) /\ PipesClean(c)

LEMMA OursInit == Init => OursInv
<1> SUFFICES ASSUME Init, NEW c \in Conns PROVE Clean(c, conn[c]) /\ PipesClean(c)
  BY DEF OursInv
<1>1. conn[c] = connection_init /\ be[c] = Gone /\ toBack[c] = <<>> /\ fromBack[c] = <<>>
  BY DEF Init, BackInit
<1>2. connection_init.bin = <<>> /\ connection_init.bout = <<>> /\ Gone.known = {}
  BY DEF connection_init, Gone
<1>3. <<>> \in Seq(OurLines(c)) /\ <<>> \in Seq(OurCommands(c))
  BY EmptySeq
<1> HIDE DEF connection_init, Gone
<1>4. Clean(c, conn[c])
  BY <1>1, <1>2, <1>3 DEF Clean
<1> QED
  BY <1>1, <1>2, <1>3, <1>4 DEF PipesClean

LEMMA DisconnectClean ==
  ASSUME TypeInv, NEW c \in Conns, Disconnect(c)
  PROVE  PipesClean(c)'
<1>1. /\ toBack'[c] = <<>> /\ fromBack'[c] = <<>> /\ be'[c].known = {}
  BY DEF Disconnect, Gone, TypeInv, TypeOK, BackTypeOK
<1> QED
  BY <1>1, EmptySeq DEF PipesClean

LEMMA FrontEndClean ==
  ASSUME TypeInv, NEW c \in Conns, Clean(c, conn[c]), PipesClean(c), FrontEndStep(c)
  PROVE  PipesClean(c)'
<1>0. /\ toBack \in [Conns -> Seq(Commands)] /\ fromBack \in [Conns -> Seq(Lines)]
      /\ be \in [Conns -> BackEnds]
  BY DEF TypeInv, TypeOK, BackTypeOK
<1>1. CASE proto_do_conn_input(c)
  <2>1. PICK n \in 1 .. Len(fromBack[c]) :
           fromBack' = [fromBack EXCEPT ![c] = SubSeq(@, n + 1, Len(@))]
    BY <1>1 DEF proto_do_conn_input
  <2> DEFINE rest == SubSeq(fromBack[c], n + 1, Len(fromBack[c]))
  <2>2. fromBack[c] \in Seq(OurLines(c)) /\ n \in 0 .. Len(fromBack[c])
    BY <2>1 DEF PipesClean
  <2>3. rest \in Seq(OurLines(c))
    BY <2>2, CutSeq
  <2>4. fromBack'[c] = rest
    BY <1>0, <2>1
  <2> QED
    BY <1>1, <2>3, <2>4 DEF proto_do_conn_input, PipesClean
<1>2. CASE Close(c)
  BY <1>2, DisconnectClean DEF Close
<1>3. CASE ProcessLine(c)
  <2>1. Disconnect(c) \/ UNCHANGED <<toBack, fromBack, be>>
    BY <1>3 DEF ProcessLine
  <2> QED
    BY <2>1, DisconnectClean DEF PipesClean
<1>4. CASE proto_do_conn_output(c)
  <2>1. PICK n \in 0 .. Len(conn[c].bout) :
           toBack' = [toBack EXCEPT ![c] = @ \o SubSeq(conn[c].bout, 1, n)]
    BY <1>4 DEF proto_do_conn_output
  <2> DEFINE gone == SubSeq(conn[c].bout, 1, n)
  <2>2. gone \in Seq(OurCommands(c))
    BY <2>1, CutSeq DEF Clean
  <2>3. toBack'[c] = toBack[c] \o gone
    BY <1>0, <2>1
  <2> HIDE DEF gone
  <2>4. toBack'[c] \in Seq(OurCommands(c))
    BY <2>2, <2>3, ConcatProperties DEF PipesClean
  <2> QED
    BY <1>4, <2>4 DEF proto_do_conn_output, PipesClean
<1> QED
  BY <1>1, <1>2, <1>3, <1>4 DEF FrontEndStep, Hangup, BrokenPipe

(* A step of one connection leaves the pipes of the others alone.          *)
LEMMA OthersClean ==
  ASSUME TypeInv, NEW c \in Conns, NEW d \in Conns, d # c, PipesClean(d),
         FrontEndStep(c) \/ BackEndStep(c)
  PROVE  PipesClean(d)'
<1>0. /\ toBack \in [Conns -> Seq(Commands)] /\ fromBack \in [Conns -> Seq(Lines)]
      /\ be \in [Conns -> BackEnds]
  BY DEF TypeInv, TypeOK, BackTypeOK
<1>1. toBack'[d] = toBack[d] /\ fromBack'[d] = fromBack[d] /\ be'[d] = be[d]
  <2>1. CASE FrontEndStep(c)
    BY <1>0, <2>1 DEF FrontEndStep, proto_do_conn_input, Hangup, ProcessLine, Close, Disconnect,
       proto_do_conn_output, BrokenPipe
  <2>2. CASE BackEndStep(c)
    BY <2>2, BackEndOthers DEF TypeInv, TypeOK
  <2> QED
    BY <2>1, <2>2
<1> QED
  BY <1>1 DEF PipesClean

LEMMA OursStep == TypeInv /\ OursInv /\ [Next]_vars => OursInv'
<1> SUFFICES ASSUME TypeInv, OursInv, [Next]_vars, NEW d \in Conns
             PROVE  Clean(d, conn'[d]) /\ PipesClean(d)'
  BY DEF OursInv
<1>0. Shape(d, conn[d]) /\ Clean(d, conn[d]) /\ PipesClean(d)
  BY DEF TypeInv, OursInv
<1>1. Clean(d, conn'[d])
  <2>1. RecordStep(d, conn[d], conn'[d], OurLines(d))
    BY <1>0, RecordSteps DEF PipesClean
  <2> QED
    BY <1>0, <2>1, CleanStep
<1>2. CASE proto_do_retries
  <2>1. PICK started \in SUBSET {c \in Conns : WantsRetry(conn[c])} :
          be' = [c \in Conns |-> IF c \in started THEN Fresh ELSE be[c]]
    BY <1>2 DEF proto_do_retries
  <2>2. be'[d].known \in {{}, be[d].known}
    BY <2>1 DEF Fresh, Gone
  <2> QED
    BY <1>0, <1>1, <1>2, <2>2 DEF proto_do_retries, PipesClean
<1>3. CASE proto_do_poll \/ Tick \/ UNCHANGED vars
  BY <1>0, <1>1, <1>3 DEF proto_do_poll, Tick, vars, PipesClean
<1>4. ASSUME NEW c \in Conns, FrontEndStep(c) \/ BackEndStep(c) PROVE PipesClean(d)'
  <2>1. BackTypeOK
    BY DEF TypeInv, TypeOK
  <2> QED
    BY <1>0, <1>4, <2>1, FrontEndClean, BackEndClean, OthersClean
<1> QED
  BY <1>1, <1>2, <1>3, <1>4 DEF Next

-------------------------------------------------------------------------------
(* The flag *)

(* With an image for updates and its removal for resets, the flag is up    *)
(* exactly while a folder is biffed (connection_do_update and _reset, the  *)
(* flag taken down by connection_close): for any folders, also the same    *)
(* one twice, any number of connections, and all other faults a back end   *)
(* may have.                                                               *)
THEOREM FlagsRight ==
  ASSUME ImagesConfigured, OnlyToldFolders
  PROVE  Spec => []FlagShowsBiff
<1>1. Init => FlagShowsBiff
  <2>1. connection_init.flag = "down" /\ connection_init.biffed = {}
    BY DEF connection_init
  <2> QED
    BY <2>1, Zenon DEF Init, FlagShowsBiff
<1>2. TypeInv /\ OursInv /\ FlagShowsBiff /\ [Next]_vars => FlagShowsBiff'
  <2> SUFFICES ASSUME TypeInv, OursInv, FlagShowsBiff, [Next]_vars, NEW c \in Conns
               PROVE  FlagRight(conn'[c])
    BY DEF FlagShowsBiff, FlagRight
  <2>1. Shape(c, conn[c]) /\ Clean(c, conn[c]) /\ fromBack[c] \in Seq(OurLines(c))
    BY DEF TypeInv, OursInv, PipesClean
  <2>2. FlagRight(conn[c])
    BY DEF FlagShowsBiff, FlagRight
  <2>3. RecordStep(c, conn[c], conn'[c], OurLines(c))
    BY <2>1, RecordSteps
  <2> QED
    BY <2>1, <2>2, <2>3, FlagStep DEF OnlyToldFolders
<1> QED
  BY <1>1, <1>2, TypeInvariant, OursInit, OursStep, PTL DEF Spec
-------------------------------------------------------------------------------
(* What is under way during the start-up *)

Others == {line \in Lines : line.tag # "OK"}
Asks(f) == {Command("FOLDER", f)}

(* The folders counted as added are known to the back end.  While one more *)
(* is being announced, nothing but that request is under way, and an OK    *)
(* can be on its way back only if the back end has taken the folder.       *)
Ahead(c, s, b, tb, fb) ==
    /\ s.state \in {"ADDING_FOLDERS", "NORMAL"} =>
         \A i \in 1 .. s.added : Folders[c][i] \in b.known
    /\ s.state = "ADDING_FOLDERS" =>
         /\ b.greeted
         /\ s.bout \in Seq(Asks(Folders[c][s.added + 1]))
         /\ tb \in Seq(Asks(Folders[c][s.added + 1]))
         /\ \/ Folders[c][s.added + 1] \in b.known
            \/ fb \in Seq(Others) /\ s.bin \in Seq(Others)

AheadInv == \A c \in Conns : Ahead(c, conn[c], be[c], toBack[c], fromBack[c])

(* Without a status there is no OK.                                        *)
LEMMA NoStatusNoOk ==
  ASSUME NEW q \in Seq(Lines), Cardinality(StatusAt(q)) = 0
  PROVE  q \in Seq(Others)
<1>1. StatusAt(q) = {}
  BY StatusAtFinite, FS_EmptySet
<1>2. DOMAIN q = 1 .. Len(q) /\ Len(q) \in Nat /\ \A i \in 1 .. Len(q) : q[i] \in Lines
  BY LenProperties, ElementOfSeq
<1>3. \A i \in 1 .. Len(q) : q[i] \in Others
  BY <1>1, <1>2 DEF StatusAt, Statuses, Others
<1>4. q \in [1 .. Len(q) -> Others]
  <2>1. q = [i \in 1 .. Len(q) |-> q[i]]
    BY <1>2, SeqDef
  <2> QED
    BY <1>3, <2>1
<1> QED
  BY <1>2, <1>4, SeqDef

(* Outside the start-up only the known folders matter.                     *)
LEMMA AheadKnown ==
  ASSUME NEW c \in Conns, NEW s, NEW b, NEW tb, NEW fb, Ahead(c, s, b, tb, fb),
         NEW r, NEW b1, NEW tb1, NEW fb1,
         r.state # "ADDING_FOLDERS", r.state = "NORMAL" => s.state = "NORMAL",
         r.added = s.added, b.known \subseteq b1.known
  PROVE  Ahead(c, r, b1, tb1, fb1)
BY DEF Ahead

(* The same during it, when what is under way is only moved.               *)
LEMMA AheadMoves ==
  ASSUME NEW c \in Conns, NEW s, NEW b, NEW tb, NEW fb, Ahead(c, s, b, tb, fb),
         NEW r, NEW tb1, NEW fb1, r.state = s.state, r.added = s.added,
         \A S : s.bout \in Seq(S) /\ tb \in Seq(S) => r.bout \in Seq(S) /\ tb1 \in Seq(S),
         \A S : s.bin \in Seq(S) /\ fb \in Seq(S) => r.bin \in Seq(S) /\ fb1 \in Seq(S)
  PROVE  Ahead(c, r, b, tb1, fb1)
BY Zenon DEF Ahead

LEMMA InputAhead ==
  ASSUME NEW c \in Conns, NEW s \in ConnRecords, NEW b, NEW tb, NEW fb \in Seq(Lines),
         Ahead(c, s, b, tb, fb), NEW n \in 1 .. Len(fb)
  PROVE  Ahead(c, [s EXCEPT !.bin = SubSeq(fb, 1, n)], b, tb, SubSeq(fb, n + 1, Len(fb)))
<1> DEFINE chunk == SubSeq(fb, 1, n)
           rest == SubSeq(fb, n + 1, Len(fb))
           r == [s EXCEPT !.bin = chunk]
<1>1. n \in 0 .. Len(fb)
  BY LenProperties
<1>2. ASSUME NEW S, fb \in Seq(S) PROVE chunk \in Seq(S) /\ rest \in Seq(S)
  BY <1>1, <1>2, CutSeq
<1> HIDE DEF chunk, rest
<1>3. r.state = s.state /\ r.added = s.added /\ r.bout = s.bout /\ r.bin = chunk
  BY DEF ConnRecords
<1> HIDE DEF r
<1>4. Ahead(c, r, b, tb, rest)
  BY <1>2, <1>3, AheadMoves
<1> QED
  BY <1>4 DEF r, chunk, rest

LEMMA OutputAhead ==
  ASSUME NEW c \in Conns, NEW s \in ConnRecords, NEW b, NEW tb \in Seq(Commands), NEW fb,
         Ahead(c, s, b, tb, fb), NEW n \in 0 .. Len(s.bout)
  PROVE  Ahead(c, Written(s, n), b, tb \o SubSeq(s.bout, 1, n), fb)
<1> DEFINE gone == SubSeq(s.bout, 1, n)
           rest == SubSeq(s.bout, n + 1, Len(s.bout))
           r == Written(s, n)
<1>1. ASSUME NEW S, s.bout \in Seq(S), tb \in Seq(S)
      PROVE  rest \in Seq(S) /\ tb \o gone \in Seq(S)
  <2>1. gone \in Seq(S) /\ rest \in Seq(S)
    BY <1>1, CutSeq
  <2> HIDE DEF gone, rest
  <2> QED
    BY <1>1, <2>1, ConcatProperties
<1>2. r.state = s.state /\ r.added = s.added /\ r.bout = rest /\ r.bin = s.bin
  <2> HIDE DEF rest
  <2> QED
    BY DEF ConnRecords, Written, rest
<1> HIDE DEF gone, rest, r
<1>3. Ahead(c, r, b, tb \o gone, fb)
  BY <1>1, <1>2, AheadMoves
<1> QED
  BY <1>3 DEF r, gone

-------------------------------------------------------------------------------
(* A line processed *)

(* The only status owed was the one processed: the pipes are empty of      *)
(* requests and statuses when the next request is queued.                  *)
LEMMA AdvanceAhead ==
  ASSUME NEW c \in Conns, NEW p, NEW b, NEW tb, NEW fb, Typed(p, b, tb, fb),
         Shape(c, p), Balanced(p, b, tb, fb), Ahead(c, p, b, tb, fb), p.bin # <<>>,
         NEW r, Advances(c, [p EXCEPT !.bin = Tail(p.bin)], Head(p.bin), r),
         r.bin = Tail(p.bin)
  PROVE  Ahead(c, r, b, tb, fb)
<1> DEFINE s == [p EXCEPT !.bin = Tail(p.bin)]
           line == Head(p.bin)
<1>1. p.bin \in Seq(Lines) /\ p.bout \in Seq(Commands) /\ p.added \in Nat
  BY DEF Typed, ConnRecords
<1>2. /\ line \in Lines /\ Tail(p.bin) \in Seq(Lines)
      /\ line.tag \in Statuses =>
           Cardinality(StatusAt(Tail(p.bin))) = Cardinality(StatusAt(p.bin)) - 1
  BY <1>1, StatusAtTail
<1>3. s.bout = p.bout /\ s.state = p.state /\ s.added = p.added
  BY DEF Typed, ConnRecords
<1> HIDE DEF s, line
<1>4. line.tag = "OK" /\ p.state \in {"WAIT_HELLO", "ADDING_FOLDERS"}
  BY <1>3 DEF Advances, s, line
<1>5. Debt(p, b, tb, fb) = 1
  BY <1>4 DEF Balanced
<1>6. Cardinality(StatusAt(Tail(p.bin))) \in Nat
  BY <1>2, StatusAtFinite
<1>7. /\ Unsent(b) = 0 /\ Queued(p) = 0 /\ Len(tb) = 0 /\ Count(fb) = 0
      /\ Cardinality(StatusAt(Tail(p.bin))) = 0
  <2>1. Unprocessed(p) = Cardinality(StatusAt(Tail(p.bin))) + 1
    BY <1>2, <1>4, <1>6, DebtTypes DEF Unprocessed, Statuses
  <2> QED
    BY <1>5, <1>6, <2>1, DebtTypes DEF Debt
<1>8. b.greeted
  BY <1>7 DEF Unsent
<1>9. p.bout = <<>> /\ tb = <<>>
  BY <1>1, <1>7, EmptySeq DEF Queued, Typed
<1>10. fb \in Seq(Others) /\ r.bin \in Seq(Others)
  BY <1>2, <1>7, NoStatusNoOk DEF Count, Typed
<1>11. PICK cmd \in Commands : r.bout = Append(p.bout, cmd) /\ Following(c, r, cmd)
  BY <1>3 DEF Advances, s
<1>12. r.added = IF p.state = "WAIT_HELLO" THEN p.added ELSE p.added + 1
  BY <1>3 DEF Advances, s
<1>13. \A i \in 1 .. r.added : Folders[c][i] \in b.known
  <2>1. CASE p.state = "WAIT_HELLO"
    BY <1>12, <2>1 DEF Shape
  <2>2. CASE p.state = "ADDING_FOLDERS"
    <3>1. ~(p.bin \in Seq(Others))
      BY <1>4, HeadTailProperties DEF Others, line
    <3>2. Folders[c][p.added + 1] \in b.known
      BY <2>2, <3>1 DEF Ahead
    <3>3. \A i \in 1 .. p.added : Folders[c][i] \in b.known
      BY <2>2 DEF Ahead
    <3>4. r.added = p.added + 1
      BY <1>12, <2>2
    <3> QED
      BY <1>1, <3>2, <3>3, <3>4
  <2> QED
    BY <1>4, <2>1, <2>2
<1>14. CASE r.state = "ADDING_FOLDERS"
  <2> DEFINE f == Folders[c][r.added + 1]
  <2>1. cmd \in Asks(f)
    BY <1>11, <1>14 DEF Following, Asks
  <2> HIDE DEF f
  <2>2. <<>> \in Seq(Asks(f))
    BY EmptySeq
  <2>3. r.bout \in Seq(Asks(f))
    BY <1>9, <1>11, <2>1, <2>2, AppendProperties
  <2>4. tb \in Seq(Asks(f))
    BY <1>9, <2>2
  <2> QED
    BY <1>8, <1>10, <1>13, <1>14, <2>3, <2>4 DEF Ahead, f
<1>15. CASE r.state # "ADDING_FOLDERS"
  BY <1>13, <1>15 DEF Ahead
<1> QED
  BY <1>14, <1>15

LEMMA LineAhead ==
  ASSUME NEW c \in Conns, NEW p, NEW b, NEW tb, NEW fb, Typed(p, b, tb, fb),
         Shape(c, p), Balanced(p, b, tb, fb), Ahead(c, p, b, tb, fb), p.bin # <<>>,
         NEW have \in BOOLEAN, ~Closes([p EXCEPT !.bin = Tail(p.bin)], Head(p.bin))
  PROVE  Ahead(c, proto_process_line(c, [p EXCEPT !.bin = Tail(p.bin)], Head(p.bin), have),
               b, tb, fb)
<1> DEFINE line == Head(p.bin)
           s == [p EXCEPT !.bin = Tail(p.bin)]
           r == proto_process_line(c, s, line, have)
<1> SUFFICES Ahead(c, r, b, tb, fb)
  OBVIOUS
<1>1. p.bin \in Seq(Lines)
  BY DEF Typed, ConnRecords
<1>2. line \in Lines /\ Tail(p.bin) \in Seq(Lines)
  BY <1>1, HeadTailProperties
<1>3. /\ s \in ConnRecords /\ s.bin = Tail(p.bin) /\ s.bout = p.bout
      /\ s.state = p.state /\ s.added = p.added
  BY <1>2 DEF Typed, ConnRecords
<1>4. Shape(c, s) /\ ~Closes(s, line)
  BY <1>3 DEF Shape
<1> HIDE DEF line, s
<1>5. /\ r.bin = s.bin
      /\ \/ Advances(c, s, line, r)
         \/ Settles(s, line, r)
         \/ Responds(s, line, r)
         \/ IsQuiet(s, line, r)
  BY <1>2, <1>4, LineEffect
<1> HIDE DEF r
<1>6. CASE Advances(c, s, line, r)
  BY <1>3, <1>5, <1>6, AdvanceAhead DEF s, line
<1>7. CASE Settles(s, line, r)
  <2>1. r.state = "NORMAL" /\ r.added = p.added /\ p.state = "NORMAL"
    BY <1>3, <1>7 DEF Settles, ProcessStatus, ConnRecords
  <2> QED
    BY <2>1, AheadKnown
<1>8. CASE Responds(s, line, r)
  <2>1. r.state = "NORMAL" /\ r.added = p.added /\ p.state = "NORMAL"
    BY <1>3, <1>8 DEF Responds
  <2> QED
    BY <2>1, AheadKnown
<1>9. CASE IsQuiet(s, line, r)
  <2>1. r.state = p.state /\ r.added = p.added /\ r.bout = p.bout /\ r.bin = Tail(p.bin)
    BY <1>3, <1>5, <1>9 DEF IsQuiet
  <2>2. \A S : p.bin \in Seq(S) => Tail(p.bin) \in Seq(S)
    BY HeadTailProperties
  <2> QED
    BY <2>1, <2>2, AheadMoves
<1> QED
  BY <1>5, <1>6, <1>7, <1>8, <1>9

-------------------------------------------------------------------------------
(* What the back end does *)

(* A back end that says something more, having learned nothing wrong.      *)
LEMMA SayAhead ==
  ASSUME NEW c \in Conns, NEW s, NEW b, NEW tb, NEW fb, Ahead(c, s, b, tb, fb),
         NEW line \in Lines, NEW b1, b.known \subseteq b1.known, b.greeted => b1.greeted,
         NEW tb1, \A S : tb \in Seq(S) => tb1 \in Seq(S),
         \/ line.tag # "OK"
         \/ s.state # "ADDING_FOLDERS"
         \/ Folders[c][s.added + 1] \in b1.known
  PROVE  Ahead(c, s, b1, tb1, Append(fb, line))
<1> DEFINE f == Folders[c][s.added + 1]
           fb1 == Append(fb, line)
<1>1. line.tag # "OK" /\ fb \in Seq(Others) => fb1 \in Seq(Others)
  <2>1. line.tag # "OK" => line \in Others
    BY DEF Others
  <2> QED
    BY <2>1, AppendProperties
<1> HIDE DEF fb1
<1>2. Ahead(c, s, b1, tb1, fb1)
  <2>1. CASE s.state = "ADDING_FOLDERS"
    <3>1. /\ b.greeted /\ s.bout \in Seq(Asks(f)) /\ tb \in Seq(Asks(f))
          /\ f \in b.known \/ (fb \in Seq(Others) /\ s.bin \in Seq(Others))
          /\ \A i \in 1 .. s.added : Folders[c][i] \in b.known
      BY <2>1 DEF Ahead
    <3>2. f \in b1.known \/ (fb1 \in Seq(Others) /\ s.bin \in Seq(Others))
      BY <1>1, <2>1, <3>1
    <3>3. tb1 \in Seq(Asks(f))
      BY <3>1
    <3> QED
      BY <2>1, <3>1, <3>2, <3>3 DEF Ahead
  <2>2. CASE s.state # "ADDING_FOLDERS"
    BY <2>2, AheadKnown
  <2> QED
    BY <2>1, <2>2
<1> QED
  BY <1>2 DEF fb1

LEMMA BackEndAhead ==
  ASSUME TypeInv, NEW c \in Conns, "stray" \notin Faults[c], BackEndStep(c),
         NEW s, Ahead(c, s, be[c], toBack[c], fromBack[c])
  PROVE  Ahead(c, s, be'[c], toBack'[c], fromBack'[c])
<1> DEFINE b == be[c]
           tb == toBack[c]
           fb == fromBack[c]
<1>0. /\ toBack \in [Conns -> Seq(Commands)] /\ fromBack \in [Conns -> Seq(Lines)]
      /\ be \in [Conns -> BackEnds]
  BY DEF TypeInv, TypeOK, BackTypeOK
<1>1. \A t \in LineTags, f \in Names \cup {NoArg} : Line(t, f) \in Lines /\ Line(t, f).tag = t
  BY DEF Line, Lines
<1>2. \A line \in Lines : Say(c, line) => fromBack'[c] = Append(fb, line)
  BY <1>0 DEF Say
<1>3. Replies \subseteq LineTags
  BY RepliesAssumption DEF LineTags
<1>4. CASE Greet(c)
  <2>1. PICK status \in LineTags : fromBack'[c] = Append(fb, Line(status, NoArg))
    BY <1>1, <1>2, <1>3, <1>4 DEF Greet
  <2>2. ~b.greeted /\ be'[c].known = b.known /\ toBack'[c] = tb
    BY <1>0, <1>4 DEF Greet, BackEnds
  <2>3. s.state # "ADDING_FOLDERS"
    BY <2>2 DEF Ahead
  <2> HIDE DEF b, tb, fb
  <2> QED
    BY <1>1, <2>1, <2>2, <2>3, SayAhead DEF b, tb, fb
<1>5. CASE Answer(c)
  <2> DEFINE cmd == Head(tb)
  <2>1. PICK status \in Replies :
          /\ Say(c, Line(status, NoArg))
          /\ be' = [be EXCEPT ![c].known  = IF cmd.verb = "FOLDER" /\ status = "OK"
                                              THEN @ \cup {cmd.arg} ELSE @,
                              ![c].asking = FALSE]
    BY <1>5 DEF Answer
  <2>2. tb # <<>> /\ toBack'[c] = Tail(tb)
    BY <1>0, <1>5 DEF Answer
  <2> DEFINE kn == IF cmd.verb = "FOLDER" /\ status = "OK"
                     THEN b.known \cup {cmd.arg} ELSE b.known
  <2>3. be' = [be EXCEPT ![c] = [be[c] EXCEPT !.known = kn, !.asking = FALSE]]
    BY <1>0, <2>1
  <2>4. be'[c].known = kn /\ be'[c].greeted = b.greeted
    <3> HIDE DEF kn
    <3> QED
      BY <1>0, <2>3 DEF BackEnds
  <2>5. \/ status # "OK" \/ s.state # "ADDING_FOLDERS"
        \/ Folders[c][s.added + 1] \in kn
    <3> SUFFICES ASSUME status = "OK", s.state = "ADDING_FOLDERS"
                 PROVE  Folders[c][s.added + 1] \in kn
      OBVIOUS
    <3>1. tb \in Seq(Asks(Folders[c][s.added + 1]))
      BY DEF Ahead
    <3> HIDE DEF tb
    <3>2. cmd = Command("FOLDER", Folders[c][s.added + 1])
      BY <2>2, <3>1, HeadTailProperties DEF Asks
    <3> QED
      BY <3>2 DEF Command
  <2>6. \A S : tb \in Seq(S) => toBack'[c] \in Seq(S)
    BY <2>2, HeadTailProperties
  <2>7. Line(status, NoArg) \in Lines /\ Line(status, NoArg).tag = status
    BY <1>1, <1>3, <2>1
  <2>8. fromBack'[c] = Append(fb, Line(status, NoArg)) /\ b.known \subseteq kn
    BY <1>2, <2>1, <2>7
  <2> HIDE DEF b, tb, fb, kn
  <2> QED
    BY <2>4, <2>5, <2>6, <2>7, <2>8, SayAhead DEF b, tb, fb
<1>6. CASE Notify(c) \/ Ask(c) \/ Chatter(c)
  <2>1. \E line \in Lines : line.tag # "OK" /\ Say(c, line)
    <3>1. CASE Notify(c)
      <4>1. PICK f \in Spoken(c) : Say(c, Line("UPDATE", f)) \/ Say(c, Line("RESET", f))
        BY <3>1 DEF Notify
      <4>2. f \in Names
        BY <1>0 DEF BackEnds, Spoken
      <4> QED
        BY <1>1, <4>1, <4>2 DEF LineTags
    <3>2. CASE Ask(c)
      BY <1>1, <3>2 DEF Ask, LineTags
    <3>3. CASE Chatter(c)
      BY <1>1, <3>3 DEF Chatter, LineTags
    <3> QED
      BY <1>6, <3>1, <3>2, <3>3
  <2>2. be'[c].known = b.known /\ be'[c].greeted = b.greeted /\ toBack'[c] = tb
    <3>1. CASE Notify(c)
      <4>1. \E g \in Spoken(c) : \/ be' = [be EXCEPT ![c].news = @ \cup {g}]
                                 \/ be' = [be EXCEPT ![c].news = @ \ {g}]
        BY <3>1 DEF Notify
      <4> QED
        BY <1>0, <3>1, <4>1 DEF Notify, BackEnds
    <3>2. CASE Ask(c)
      BY <1>0, <3>2 DEF Ask, BackEnds
    <3>3. CASE Chatter(c)
      BY <3>3 DEF Chatter
    <3> QED
      BY <1>6, <3>1, <3>2, <3>3
  <2>3. PICK line \in Lines : line.tag # "OK" /\ fromBack'[c] = Append(fb, line)
    BY <1>2, <2>1
  <2> HIDE DEF b, tb, fb
  <2> QED
    BY <2>2, <2>3, SayAhead DEF b, tb, fb
<1>7. CASE Exit(c)
  <2>1. /\ be'[c].known = b.known /\ be'[c].greeted = b.greeted
        /\ toBack'[c] = tb /\ fromBack'[c] = fb
    BY <1>0, <1>7 DEF Exit, BackEnds
  <2> QED
    BY <2>1 DEF Ahead
<1> QED
  BY <1>4, <1>5, <1>6, <1>7 DEF BackEndStep

-------------------------------------------------------------------------------
(* The theorem *)

LEMMA AheadStep ==
  ASSUME \A c \in Conns : "stray" \notin Faults[c],
         TypeInv, AccountInv, AheadInv, [Next]_vars
  PROVE  AheadInv'
<1>1. /\ conn \in [Conns -> ConnRecords]
      /\ toBack \in [Conns -> Seq(Commands)] /\ fromBack \in [Conns -> Seq(Lines)]
      /\ be \in [Conns -> BackEnds] /\ \A d \in Conns : Shape(d, conn[d])
  BY DEF TypeInv, TypeOK, BackTypeOK
<1> SUFFICES ASSUME NEW c \in Conns
             PROVE  Ahead(c, conn'[c], be'[c], toBack'[c], fromBack'[c])
  BY DEF AheadInv
<1> DEFINE s == conn[c]
           b == be[c]
           tb == toBack[c]
           fb == fromBack[c]
           Kept == conn'[c] = s /\ be'[c] = b /\ toBack'[c] = tb /\ fromBack'[c] = fb
<1>2. /\ s \in ConnRecords /\ fb \in Seq(Lines) /\ tb \in Seq(Commands) /\ Shape(c, s)
      /\ Typed(s, b, tb, fb) /\ Balanced(s, b, tb, fb) /\ Ahead(c, s, b, tb, fb)
  BY <1>1 DEF Typed, AccountInv, AheadInv
<1>3. CASE Kept
  BY <1>2, <1>3
<1>4. CASE proto_do_retries
  <2>1. \/ Kept
        \/ conn'[c] = proto_init_conn(s)
    BY <1>4 DEF proto_do_retries
  <2>2. proto_init_conn(s).state = "WAIT_HELLO"
    BY <1>2 DEF proto_init_conn, ConnRecords
  <2> QED
    BY <1>3, <2>1, <2>2 DEF Ahead
<1>5. CASE proto_do_poll
  <2>1. \/ Kept
        \/ s.state = "NORMAL" /\ conn'[c] = proto_poll_conn(s) /\ be'[c] = b
    BY <1>5 DEF proto_do_poll, WantsPoll
  <2>2. s.state = "NORMAL" => proto_poll_conn(s).state = "NORMAL"
    BY <1>2, PollFields
  <2>3. proto_poll_conn(s).added = s.added
    BY <1>2, PollFields
  <2> QED
    BY <1>2, <1>3, <2>1, <2>2, <2>3, AheadKnown
<1>6. CASE Tick
  <2>1. /\ toBack'[c] = tb /\ fromBack'[c] = fb /\ be'[c] = b
        /\ conn'[c] = [s EXCEPT !.wait = IF @ > 0 THEN @ - 1 ELSE 0]
    BY <1>6 DEF Tick
  <2>2. /\ conn'[c].state = s.state /\ conn'[c].added = s.added
        /\ conn'[c].bin = s.bin /\ conn'[c].bout = s.bout
    BY <1>2, <2>1 DEF ConnRecords
  <2> QED
    BY <1>2, <2>1, <2>2, AheadMoves
<1>7. CASE proto_do_conn_input(c)
  <2>1. PICK n \in 1 .. Len(fb) :
           /\ conn'[c] = [s EXCEPT !.bin = SubSeq(fb, 1, n)]
           /\ fromBack'[c] = SubSeq(fb, n + 1, Len(fb))
           /\ be'[c] = b /\ toBack'[c] = tb
    BY <1>1, <1>7 DEF proto_do_conn_input
  <2> HIDE DEF s, b, tb, fb
  <2>2. Ahead(c, [s EXCEPT !.bin = SubSeq(fb, 1, n)], b, tb, SubSeq(fb, n + 1, Len(fb)))
    BY <1>2, InputAhead
  <2> QED
    BY <2>1, <2>2, Zenon
<1>8. CASE Close(c)
  <2>1. conn'[c].state = "PENALTY_BOX"
    BY <1>1, <1>8 DEF Close, connection_close, ConnRecords
  <2> QED
    BY <2>1 DEF Ahead
<1>9. CASE ProcessLine(c)
  <2> DEFINE t == [s EXCEPT !.bin = Tail(s.bin)]
             line == Head(s.bin)
  <2>1. PICK have \in BOOLEAN :
          /\ s.bin # <<>>
          /\ conn'[c] = proto_process_line(c, t, line, have)
          /\ Closes(t, line) \/ (be'[c] = b /\ toBack'[c] = tb /\ fromBack'[c] = fb)
    BY <1>1, <1>9 DEF ProcessLine
  <2>2. CASE Closes(t, line)
    <3>1. t \in ConnRecords
      <4>1. Tail(s.bin) \in Seq(Lines)
        BY <1>2, <2>1, HeadTailProperties DEF ConnRecords
      <4> QED
        BY <1>2, <4>1 DEF ConnRecords
    <3> HIDE DEF t, line
    <3>2. conn'[c] = connection_close(t)
      BY <2>1, <2>2, <3>1 DEF Closes, proto_process_line, ProcessNo
    <3>3. conn'[c].state = "PENALTY_BOX"
      BY <3>1, <3>2 DEF connection_close, ConnRecords
    <3> QED
      BY <3>3 DEF Ahead
  <2>3. CASE ~Closes(t, line)
    <3>1. conn'[c] = proto_process_line(c, t, line, have)
      BY <2>1
    <3>2. be'[c] = b /\ toBack'[c] = tb /\ fromBack'[c] = fb
      BY <2>1, <2>3
    <3> HIDE DEF s, b, tb, fb
    <3>3. Ahead(c, proto_process_line(c, t, line, have), b, tb, fb)
      BY <1>2, <2>1, <2>3, LineAhead
    <3> QED
      BY <3>1, <3>2, <3>3, Zenon
  <2> QED
    BY <2>2, <2>3
<1>10. CASE proto_do_conn_output(c)
  <2>1. PICK n \in 0 .. Len(s.bout) :
          /\ conn'[c] = Written(s, n)
          /\ toBack'[c] = tb \o SubSeq(s.bout, 1, n)
          /\ fromBack'[c] = fb /\ be'[c] = b
    BY <1>1, <1>10 DEF proto_do_conn_output
  <2> HIDE DEF s, b, tb, fb
  <2> QED
    BY <1>2, <2>1, OutputAhead
<1>11. CASE BackEndStep(c) /\ UNCHANGED conn
  BY <1>2, <1>11, BackEndAhead
<1>12. ASSUME NEW d \in Conns, d # c, FrontEndStep(d) \/ (BackEndStep(d) /\ UNCHANGED conn)
       PROVE  Kept
  <2>1. CASE FrontEndStep(d)
    BY <1>1, <1>12, <2>1, SMTT(30) DEF FrontEndStep, proto_do_conn_input, Hangup, ProcessLine, Close,
       Disconnect, proto_do_conn_output, BrokenPipe
  <2>2. CASE BackEndStep(d) /\ UNCHANGED conn
    BY <1>1, <1>12, <2>2 DEF BackEndStep, Greet, Answer, Notify, Ask, Chatter, Exit, Say
  <2> QED
    BY <1>12, <2>1, <2>2
<1>13. CASE UNCHANGED vars
  BY <1>3, <1>13 DEF vars
<1>14. CASE FrontEndStep(c)
  BY <1>7, <1>8, <1>9, <1>10, <1>14 DEF FrontEndStep, Hangup, BrokenPipe
<1> HIDE DEF Kept
<1> QED
  BY <1>3, <1>4, <1>5, <1>6, <1>11, <1>12, <1>13, <1>14 DEF Next

(* A back end is polled only after it has accepted every folder of its     *)
(* connection, each asked for when the one before was accepted             *)
(* (proto_add_next_folder), whatever fails and is restarted, for any       *)
(* number of folders.                                                      *)
THEOREM FoldersAnnouncedFirst ==
  ASSUME \A c \in Conns : "stray" \notin Faults[c]
  PROVE  Spec => []FoldersAnnounced
<1>1. Init => AheadInv
  <2> SUFFICES ASSUME Init, NEW c \in Conns
               PROVE  Ahead(c, conn[c], be[c], toBack[c], fromBack[c])
    BY DEF AheadInv
  <2>1. conn[c] = connection_init
    BY DEF Init
  <2>2. conn[c].state = "PENALTY_BOX"
    BY <2>1 DEF connection_init
  <2> QED
    BY <2>2 DEF Ahead
<1>2. TypeInv /\ AheadInv => FoldersAnnounced
  <2> SUFFICES ASSUME TypeInv, AheadInv, NEW c \in Conns
               PROVE  /\ conn[c].state \in {"ADDING_FOLDERS", "NORMAL"} =>
                           {Folders[c][i] : i \in 1 .. conn[c].added} \subseteq be[c].known
                      /\ conn[c].state = "NORMAL" => conn[c].added = Len(Folders[c])
    BY DEF FoldersAnnounced
  <2>1. Shape(c, conn[c]) /\ Ahead(c, conn[c], be[c], toBack[c], fromBack[c])
    BY DEF TypeInv, AheadInv
  <2> QED
    BY <2>1 DEF Shape, Ahead
<1> QED
  BY <1>1, <1>2, TypeInit, TypeStep, AccountInit, AccountStep, AheadStep, PTL DEF Spec

-------------------------------------------------------------------------------
(* The session a record stands for *)

(* Where the counting is right, the record itself tells what is owed.      *)
Due(s) == CASE s.state = "PENALTY_BOX"                      -> 0
            [] s.state \in {"WAIT_HELLO", "ADDING_FOLDERS"} -> 1
            [] s.state = "NORMAL"                           -> s.pending

(* Nothing is counted before the polling starts.                           *)
Uncounted(s) == s.state \in {"WAIT_HELLO", "ADDING_FOLDERS"} => s.pending = 0

(* What a step of the record is for the session.                           *)
Stays(s, r)   == r.state = s.state /\ r.added = s.added /\ r.pending = s.pending
Opened(s, r)  == /\ s.state = "PENALTY_BOX" /\ r.state = "WAIT_HELLO" /\ r.added = s.added
Dropped(s, r) == /\ s.state # "PENALTY_BOX" /\ r.state = "PENALTY_BOX" /\ r.added = 0

Advanced(c, s, r) ==
    /\ s.state \in {"WAIT_HELLO", "ADDING_FOLDERS"}
    /\ r.state = IF r.added = Len(Folders[c]) THEN "NORMAL" ELSE "ADDING_FOLDERS"
    /\ r.added = IF s.state = "WAIT_HELLO" THEN s.added ELSE s.added + 1
    /\ r.state = "NORMAL" => r.pending = 1

Counted(s, r, n) ==
    s.state = "NORMAL" /\ r.state = "NORMAL" /\ r.added = s.added /\ r.pending = n

SessionMove(c, s, r) ==
    \/ Stays(s, r) \/ Opened(s, r) \/ Dropped(s, r) \/ Advanced(c, s, r)
    \/ Counted(s, r, s.pending + 1)
    \/ s.pending > 0 /\ Counted(s, r, s.pending - 1)

LEMMA CloseMove ==
  ASSUME NEW c \in Conns, NEW s, Shape(c, s), s.state = "PENALTY_BOX" => s.pending = 0
  PROVE  SessionMove(c, s, connection_close(s))
<1> DEFINE r == connection_close(s)
<1>1. r.state = "PENALTY_BOX" /\ r.added = 0 /\ r.pending = 0
  BY DEF connection_close, Shape, ConnRecords
<1> HIDE DEF r
<1>2. SessionMove(c, s, r)
  BY <1>1 DEF Shape, SessionMove, Stays, Dropped
<1> QED
  BY <1>2 DEF r

(* Whatever is done to a record is a step of its session or none at all.   *)
LEMMA MoveStep ==
  ASSUME NEW c \in Conns, NEW s, Shape(c, s), Uncounted(s),
         s.state = "PENALTY_BOX" => s.pending = 0,
         NEW r, RecordStep(c, s, r, Lines)
  PROVE  SessionMove(c, s, r)
<1>0. s \in ConnRecords /\ s.pending \in Nat /\ s.added \in Nat /\ s.state \in CStates
  BY DEF Shape, ConnRecords
<1>1. CASE Opens(s, r)
  BY <1>0, <1>1 DEF Opens, WantsRetry, proto_init_conn, ConnRecords, SessionMove, Opened
<1>2. CASE Polls(s, r)
  BY <1>0, <1>2, PollFields DEF Polls, WantsPoll, SessionMove, Counted
<1>3. CASE Waits(s, r)
  BY <1>0, <1>3 DEF Waits, ConnRecords, SessionMove, Stays
<1>4. CASE Reads(s, r, Lines)
  BY <1>0, <1>4 DEF Reads, ConnRecords, SessionMove, Stays
<1>5. CASE Shuts(s, r)
  BY <1>5, CloseMove DEF Shuts
<1>6. CASE Writes(s, r)
  BY <1>0, <1>6 DEF Writes, Written, ConnRecords, SessionMove, Stays
<1>7. CASE Processes(c, s, r)
  <2> DEFINE t == [s EXCEPT !.bin = Tail(@)]
             line == Head(s.bin)
  <2>1. PICK have \in BOOLEAN : r = proto_process_line(c, t, line, have)
    BY <1>7 DEF Processes
  <2>2. line \in Lines /\ Tail(s.bin) \in Seq(Lines)
    BY <1>0, <1>7, HeadTailProperties DEF Processes, ConnRecords
  <2>3. Shape(c, t)
    BY <2>2, ShapeBin
  <2>4. Stays(s, t)
    BY <1>0 DEF ConnRecords, Stays
  <2> HIDE DEF t, line
  <2>5. t \in ConnRecords
    BY <2>3 DEF Shape
  <2>6. SessionMove(c, t, r)
    <3>1. CASE Closes(t, line)
      <4>1. r = connection_close(t)
        BY <2>1, <2>5, <3>1 DEF Closes, proto_process_line, ProcessNo
      <4> QED
        BY <2>3, <2>4, <4>1, CloseMove DEF Stays
    <3>2. CASE ~Closes(t, line)
      <4>1. /\ Shape(c, r)
            /\ \/ Advances(c, t, line, r)
               \/ Settles(t, line, r)
               \/ Responds(t, line, r)
               \/ IsQuiet(t, line, r)
        BY <2>1, <2>2, <2>3, <3>2, LineEffect
      <4>2. CASE Advances(c, t, line, r)
        <5>1. t.pending = 0
          BY <2>4, <4>2 DEF Advances, Stays, Uncounted
        <5>2. Advanced(c, t, r)
          BY <4>1, <4>2, <5>1 DEF Advances, Advanced, Shape
        <5> QED
          BY <5>2 DEF SessionMove
      <4>3. CASE Settles(t, line, r)
        <5>1. \/ r = t
              \/ t.pending > 0 /\ r = [t EXCEPT !.pending = t.pending - 1]
          BY <2>5, <4>3 DEF Settles, ProcessStatus, ConnRecords
        <5>2. t.state = "NORMAL"
          BY <4>3 DEF Settles
        <5> QED
          BY <2>5, <5>1, <5>2 DEF ConnRecords, SessionMove, Stays, Counted
      <4>4. CASE Responds(t, line, r)
        BY <4>4 DEF Responds, SessionMove, Counted
      <4>5. CASE IsQuiet(t, line, r)
        BY <4>5 DEF IsQuiet, SessionMove, Stays
      <4> QED
        BY <4>1, <4>2, <4>3, <4>4, <4>5
    <3> QED
      BY <3>1, <3>2
  <2> QED
    BY <2>4, <2>6 DEF SessionMove, Stays, Opened, Dropped, Advanced, Counted
<1>8. CASE r = s
  BY <1>8 DEF SessionMove, Stays
<1> QED
  BY <1>1, <1>2, <1>3, <1>4, <1>5, <1>6, <1>7, <1>8 DEF RecordStep, HandlerStep

-------------------------------------------------------------------------------
(* The refinement *)

LEMMA OwedIsDue ==
  ASSUME NEW s, NEW b, NEW tb, NEW fb, Typed(s, b, tb, fb), Balanced(s, b, tb, fb)
  PROVE  /\ s.state # "PENALTY_BOX" => Debt(s, b, tb, fb) = Due(s)
         /\ Uncounted(s)
         /\ s.state = "PENALTY_BOX" => s.pending = 0
BY DebtTypes DEF Balanced, Idle, Due, Uncounted, CStates

(* Every connection goes through its start-up, polls and retries as the    *)
(* abstract session says, whatever is lost, refused or cut off: the next   *)
(* request of the start-up, and a poll, is made only when the back end     *)
(* owes nothing else (proto_add_next_folder, proto_do_poll), for any       *)
(* number of connections and folders.                                      *)
THEOREM FrontendImplementsSession ==
  ASSUME \A c \in Conns : "stray" \notin Faults[c]
  PROVE  Spec => SessionRefined
<1>1. Init => \A c \in Conns : Session(c)!Init
  <2> SUFFICES ASSUME Init, NEW c \in Conns PROVE Session(c)!Init
    OBVIOUS
  <2>1. conn[c] = connection_init
    BY DEF Init
  <2>2. conn[c].state = "PENALTY_BOX" /\ conn[c].added = 0
    BY <2>1 DEF connection_init
  <2> QED
    BY <2>2 DEF Session!Init, PhaseOf
<1>2. TypeInv /\ AccountInv /\ [Next]_vars /\ TypeInv' /\ AccountInv'
        => \A c \in Conns : SessionStep(c)
  <2> SUFFICES ASSUME TypeInv, AccountInv, [Next]_vars, TypeInv', AccountInv',
                      NEW c \in Conns
               PROVE  SessionStep(c)
    OBVIOUS
  <2> DEFINE s == conn[c]
             r == conn'[c]
  <2>1. /\ Shape(c, s) /\ Typed(s, be[c], toBack[c], fromBack[c])
        /\ Balanced(s, be[c], toBack[c], fromBack[c])
    BY DEF TypeInv, TypeOK, BackTypeOK, AccountInv, Typed
  <2>2. /\ Shape(c, r) /\ Typed(r, be'[c], toBack'[c], fromBack'[c])
        /\ Balanced(r, be'[c], toBack'[c], fromBack'[c])
    BY DEF TypeInv, TypeOK, BackTypeOK, AccountInv, Typed
  <2>3. s.state # "PENALTY_BOX" => Outstanding(c) = Due(s)
    <3>1. Outstanding(c) = Debt(s, be[c], toBack[c], fromBack[c])
      BY DEF Outstanding, Owed, Debt, Unsent, Queued, Unprocessed, Count
    <3> QED
      BY <2>1, <3>1, OwedIsDue
  <2>4. r.state # "PENALTY_BOX" => Outstanding(c)' = Due(r)
    <3>1. Outstanding(c)' = Debt(r, be'[c], toBack'[c], fromBack'[c])
      BY DEF Outstanding, Owed, Debt, Unsent, Queued, Unprocessed, Count
    <3> QED
      BY <2>2, <3>1, OwedIsDue
  <2>5. SessionMove(c, s, r)
    <3>1. fromBack[c] \in Seq(Lines)
      BY <2>1 DEF Typed
    <3>2. RecordStep(c, s, r, Lines)
      BY <3>1, RecordSteps
    <3> QED
      BY <2>1, <3>2, OwedIsDue, MoveStep
  <2>6. s.pending \in Nat /\ s.added \in Nat /\ s.state \in CStates /\ r.state \in CStates
    BY <2>1, <2>2 DEF Typed, ConnRecords
  <2> HIDE DEF Outstanding
  <2>7. CASE Opened(s, r)
    <3>1. Outstanding(c)' = 1
      BY <2>4, <2>7 DEF Opened, Due
    <3>2. Session(c)!Open
      BY <2>7, <3>1 DEF Opened, PhaseOf, Session!Open
    <3> QED
      BY <3>2 DEF SessionStep, Session!Next
  <2>8. CASE Dropped(s, r)
    <3>1. Session(c)!Drop
      BY <2>6, <2>8 DEF Dropped, CStates, PhaseOf, Session!Drop
    <3> QED
      BY <3>1 DEF SessionStep, Session!Next
  <2>9. CASE Advanced(c, s, r)
    <3>1. Outstanding(c) = 1
      BY <2>3, <2>9 DEF Advanced, Due
    <3>2. r.state \in {"ADDING_FOLDERS", "NORMAL"} /\ Outstanding(c)' = 1
      BY <2>4, <2>9 DEF Advanced, Due
    <3>3. PhaseOf(r.state) = IF r.added = Len(Folders[c]) THEN "normal" ELSE "folders"
      BY <2>9 DEF Advanced, PhaseOf
    <3>4. CASE s.state = "WAIT_HELLO"
      <4>1. Session(c)!Greeted
        BY <2>9, <3>1, <3>2, <3>3, <3>4 DEF Advanced, PhaseOf, Session!Greeted, Session!After
      <4> QED
        BY <4>1 DEF SessionStep, Session!Next
    <3>5. CASE s.state = "ADDING_FOLDERS"
      <4>1. Session(c)!Accepted
        BY <2>9, <3>1, <3>2, <3>3, <3>5 DEF Advanced, PhaseOf, Session!Accepted, Session!After
      <4> QED
        BY <4>1 DEF SessionStep, Session!Next
    <3> QED
      BY <2>9, <3>4, <3>5 DEF Advanced
  <2>10. CASE s.state = "NORMAL" /\ r.state = "NORMAL" /\ r.added = s.added
    <3>1. Outstanding(c) = s.pending /\ Outstanding(c)' = r.pending
      BY <2>3, <2>4, <2>10 DEF Due
    <3>2. CASE r.pending = s.pending
      BY <2>10, <3>1, <3>2 DEF SessionStep, Session!vars
    <3>3. CASE r.pending = s.pending + 1
      <4>1. Session(c)!Respond
        BY <2>10, <3>1, <3>3 DEF PhaseOf, Session!Respond
      <4> QED
        BY <4>1 DEF SessionStep, Session!Next
    <3>4. CASE s.pending > 0 /\ r.pending = s.pending - 1
      <4>1. Session(c)!Settle
        BY <2>10, <3>1, <3>4 DEF PhaseOf, Session!Settle
      <4> QED
        BY <4>1 DEF SessionStep, Session!Next
    <3> QED
      BY <2>5, <2>10, <3>2, <3>3, <3>4
         DEF SessionMove, Stays, Opened, Dropped, Advanced, Counted
  <2>11. CASE s.state # "NORMAL" /\ Stays(s, r)
    <3>1. s.state # "PENALTY_BOX" => Outstanding(c) = 1 /\ Outstanding(c)' = 1
      BY <2>3, <2>4, <2>6, <2>11 DEF Stays, Due, CStates
    <3> QED
      BY <2>11, <3>1 DEF Stays, SessionStep, Session!vars
  <2> QED
    BY <2>5, <2>7, <2>8, <2>9, <2>10, <2>11 DEF SessionMove, Stays, Counted
<1> QED
  BY <1>1, <1>2, TypeInit, TypeStep, AccountInit, AccountStep, PTL DEF Spec, SessionRefined

-------------------------------------------------------------------------------
(* The last event about a folder in a sequence of lines *)

Event(line, f) == line.tag \in {"UPDATE", "RESET"} /\ line.arg = f
About(q, f) == {i \in DOMAIN q : Event(q[i], f)}

Told(q, f, shown, news) ==
    /\ About(q, f) = {} => (f \in shown <=> f \in news)
    /\ \A i \in About(q, f) : (\A j \in About(q, f) : j <= i)
                                => (f \in news <=> q[i].tag = "UPDATE")

LEMMA ToldAppend ==
  ASSUME NEW q \in Seq(Lines), NEW line \in Lines, NEW f, NEW shown, NEW news,
         Told(q, f, shown, news), NEW news1,
         Event(line, f) => (f \in news1 <=> line.tag = "UPDATE"),
         ~Event(line, f) => (f \in news1 <=> f \in news)
  PROVE  Told(Append(q, line), f, shown, news1)
<1> DEFINE q1 == Append(q, line)
<1>1. DOMAIN q = 1 .. Len(q) /\ Len(q) \in Nat
  BY LenProperties
<1>2. /\ q1 \in Seq(Lines) /\ Len(q1) = Len(q) + 1
      /\ \A i \in 1 .. Len(q) : q1[i] = q[i]
      /\ q1[Len(q) + 1] = line
  BY AppendProperties
<1>3. DOMAIN q1 = 1 .. Len(q) + 1
  BY <1>2, LenProperties
<1> HIDE DEF q1
<1>4. About(q1, f) = About(q, f) \cup (IF Event(line, f) THEN {Len(q) + 1} ELSE {})
  BY <1>1, <1>2, <1>3 DEF About
<1>5. About(q, f) \subseteq 1 .. Len(q)
  BY <1>1 DEF About
<1>6. CASE Event(line, f)
  <2>1. \A i \in About(q1, f) : (\A j \in About(q1, f) : j <= i) => i = Len(q) + 1
    <3>1. Len(q) + 1 \in About(q1, f) /\ About(q1, f) \subseteq 1 .. Len(q) + 1
      BY <1>1, <1>4, <1>5, <1>6
    <3> QED
      BY <1>1, <3>1
  <2>2. About(q1, f) # {}
    BY <1>4, <1>6
  <2>3. Told(q1, f, shown, news1)
    BY <1>2, <1>6, <2>1, <2>2 DEF Told
  <2> QED
    BY <2>3 DEF q1
<1>7. CASE ~Event(line, f)
  <2>1. About(q1, f) = About(q, f)
    BY <1>4, <1>7
  <2>2. Told(q1, f, shown, news1)
    BY <1>2, <1>5, <1>7, <2>1 DEF Told
  <2> QED
    BY <2>2 DEF q1
<1> QED
  BY <1>6, <1>7

LEMMA ToldTail ==
  ASSUME NEW q \in Seq(Lines), q # <<>>, NEW f, NEW shown, NEW news,
         Told(q, f, shown, news), NEW shown1,
         Event(Head(q), f) => (f \in shown1 <=> Head(q).tag = "UPDATE"),
         ~Event(Head(q), f) => (f \in shown1 <=> f \in shown)
  PROVE  Told(Tail(q), f, shown1, news)
<1> DEFINE t == Tail(q)
<1>1. DOMAIN q = 1 .. Len(q) /\ Len(q) \in Nat \ {0} /\ Head(q) = q[1]
  BY LenProperties, EmptySeq
<1>2. /\ t \in Seq(Lines) /\ Len(t) = Len(q) - 1
      /\ \A i \in 1 .. Len(q) - 1 : t[i] = q[i + 1]
  BY HeadTailProperties
<1>3. DOMAIN t = 1 .. Len(q) - 1
  BY <1>2, LenProperties
<1> HIDE DEF t
<1>4. \A i \in 1 .. Len(q) - 1 : i \in About(t, f) <=> i + 1 \in About(q, f)
  BY <1>1, <1>2, <1>3 DEF About
<1>5. About(t, f) \subseteq 1 .. Len(q) - 1 /\ About(q, f) \subseteq 1 .. Len(q)
  BY <1>1, <1>3 DEF About
<1>6. 1 \in About(q, f) <=> Event(Head(q), f)
  BY <1>1 DEF About
<1>7. \A k \in About(q, f) : k = 1 \/ k - 1 \in About(t, f)
  <2> SUFFICES ASSUME NEW k \in About(q, f), k # 1 PROVE k - 1 \in About(t, f)
    OBVIOUS
  <2>1. k - 1 \in 1 .. Len(q) - 1 /\ (k - 1) + 1 = k
    BY <1>1, <1>5
  <2> QED
    BY <1>4, <2>1
<1>8. ASSUME About(t, f) = {} PROVE f \in shown1 <=> f \in news
  <2>1. CASE Event(Head(q), f)
    <3>1. \A j \in About(q, f) : j <= 1
      BY <1>1, <1>5, <1>7, <1>8
    <3>2. f \in news <=> Head(q).tag = "UPDATE"
      BY <1>1, <1>6, <2>1, <3>1 DEF Told
    <3> QED
      BY <2>1, <3>2
  <2>2. CASE ~Event(Head(q), f)
    <3>1. About(q, f) = {}
      BY <1>6, <1>7, <1>8, <2>2
    <3> QED
      BY <2>2, <3>1 DEF Told
  <2> QED
    BY <2>1, <2>2
<1>9. ASSUME NEW i \in About(t, f), \A j \in About(t, f) : j <= i
      PROVE  f \in news <=> t[i].tag = "UPDATE"
  <2>1. i \in 1 .. Len(q) - 1 /\ i + 1 \in About(q, f) /\ t[i] = q[i + 1]
    BY <1>2, <1>4, <1>5
  <2>2. \A j \in About(q, f) : j <= i + 1
    <3> SUFFICES ASSUME NEW j \in About(q, f), j # 1 PROVE j <= i + 1
      BY <2>1
    <3>1. j - 1 <= i /\ j \in Nat /\ i \in Nat
      BY <1>1, <1>5, <1>7, <1>9, <2>1
    <3> QED
      BY <3>1
  <2> QED
    BY <2>1, <2>2 DEF Told
<1> QED
  BY <1>8, <1>9 DEF Told, t

-------------------------------------------------------------------------------
(* The folders shown as biffed *)

Shown(c, s) == {Folders[c][i] : i \in s.biffed}

(* Only the position the search stops at is ever marked.                   *)
Marked(c, s) == \A i \in s.biffed : /\ i \in DOMAIN Folders[c]
                                    /\ FirstMatch(c, Folders[c][i]) = {i}

LEMMA FirstIsOurs ==
  ASSUME NEW c \in Conns, NEW f \in Ours(c)
  PROVE  \E i \in DOMAIN Folders[c] : FirstMatch(c, f) = {i} /\ Folders[c][i] = f
<1>1. PICK i \in Nat : FirstMatch(c, f) = {i}
  BY FirstMatchFound
<1>2. i \in DOMAIN Folders[c] /\ Folders[c][i] = f
  BY <1>1 DEF FirstMatch, Matches
<1> QED
  BY <1>1, <1>2

(* No position is that of another folder.                                  *)
LEMMA NoneIsStrange ==
  ASSUME NEW c \in Conns, NEW f, f \notin Ours(c)
  PROVE  FirstMatch(c, f) = {}
BY DEF FirstMatch, Matches, Ours

LEMMA UpdateShown ==
  ASSUME NEW c \in Conns, NEW s \in ConnRecords, Marked(c, s), NEW f
  PROVE  LET r == connection_do_update(c, s, f)
         IN  Marked(c, r) /\ Shown(c, r) = Shown(c, s) \cup ({f} \cap Ours(c))
<1> DEFINE r == connection_do_update(c, s, f)
<1>1. r.biffed = s.biffed \cup FirstMatch(c, f)
  BY DEF connection_do_update, ConnRecords
<1> HIDE DEF r
<1>2. CASE f \in Ours(c)
  <2>1. PICK i \in DOMAIN Folders[c] : FirstMatch(c, f) = {i} /\ Folders[c][i] = f
    BY <1>2, FirstIsOurs
  <2> QED
    BY <1>1, <1>2, <2>1 DEF Marked, Shown, r
<1>3. CASE f \notin Ours(c)
  <2>1. r.biffed = s.biffed
    BY <1>1, <1>3, NoneIsStrange
  <2> QED
    BY <1>3, <2>1 DEF Marked, Shown, r
<1> QED
  BY <1>2, <1>3

LEMMA ResetShown ==
  ASSUME NEW c \in Conns, NEW s \in ConnRecords, Marked(c, s), NEW f
  PROVE  LET r == connection_do_reset(c, s, f)
         IN  Marked(c, r) /\ Shown(c, r) = Shown(c, s) \ {f}
<1> DEFINE r == connection_do_reset(c, s, f)
<1>1. r.biffed = s.biffed \ FirstMatch(c, f)
  BY DEF connection_do_reset, ConnRecords
<1> HIDE DEF r
<1>2. \A j \in s.biffed : Folders[c][j] = f <=> j \in FirstMatch(c, f)
  BY DEF Marked, FirstMatch, Matches
<1>3. Marked(c, r)
  BY <1>1 DEF Marked
<1>4. Shown(c, r) = Shown(c, s) \ {f}
  BY <1>1, <1>2 DEF Shown
<1> QED
  BY <1>3, <1>4 DEF r

-------------------------------------------------------------------------------
(* A connection, its back end and what is on its way between them *)

Mirror(c, s, b, fb) ==
    /\ Marked(c, s)
    /\ \A f \in Ours(c) : Told(s.bin \o fb, f, Shown(c, s), b.news)
    /\ s.state = "PENALTY_BOX" =>
         s.biffed = {} /\ s.bin = <<>> /\ fb = <<>> /\ ~b.up

LEMMA MirrorSame ==
  ASSUME NEW c, NEW s, NEW b, NEW fb, Mirror(c, s, b, fb), NEW r, NEW b1,
         r.biffed = s.biffed, r.bin = s.bin, SameSide(s, r),
         b1.news = b.news, b1.up => b.up
  PROVE  Mirror(c, r, b1, fb)
<1>1. Marked(c, r) /\ Shown(c, r) = Shown(c, s)
  BY DEF Mirror, Marked, Shown
<1> QED
  BY <1>1 DEF Mirror, SameSide

(* With nothing shown, reported or on its way both agree.                  *)
LEMMA EmptyMirror ==
  ASSUME NEW c \in Conns, NEW r, NEW b, r.biffed = {}, r.bin = <<>>, b.news = {},
         r.state = "PENALTY_BOX" => ~b.up
  PROVE  Mirror(c, r, b, <<>>)
<1>1. <<>> \o <<>> = <<>>
  BY EmptySeq, ConcatEmptySeq
<1>2. \A f : About(<<>>, f) = {}
  BY DEF About
<1>3. Shown(c, r) = {} /\ Marked(c, r)
  BY DEF Shown, Marked
<1> QED
  BY <1>1, <1>2, <1>3 DEF Mirror, Told

LEMMA InputMirror ==
  ASSUME NEW c \in Conns, NEW s \in ConnRecords, NEW b, NEW fb \in Seq(Lines),
         Mirror(c, s, b, fb), s.bin = <<>>, NEW n \in 1 .. Len(fb)
  PROVE  Mirror(c, [s EXCEPT !.bin = SubSeq(fb, 1, n)], b, SubSeq(fb, n + 1, Len(fb)))
<1> DEFINE chunk == SubSeq(fb, 1, n)
           rest == SubSeq(fb, n + 1, Len(fb))
           r == [s EXCEPT !.bin = chunk]
<1>1. Len(fb) \in Nat /\ n \in 0 .. Len(fb)
  BY LenProperties
<1>2. chunk \o rest = fb
  <2>1. chunk \o rest = SubSeq(fb, 1, Len(fb))
    BY <1>1, ConcatAdjacentSubSeq
  <2> QED
    BY <2>1, SubSeqFull
<1>3. s.bin \o fb = fb
  BY ConcatEmptySeq
<1>4. fb # <<>>
  BY <1>1, EmptySeq
<1> HIDE DEF chunk, rest
<1>5. r.state = s.state /\ r.biffed = s.biffed /\ r.bin = chunk
  BY DEF ConnRecords
<1> HIDE DEF r
<1>6. Marked(c, r) /\ Shown(c, r) = Shown(c, s)
  BY <1>5 DEF Mirror, Marked, Shown
<1>7. Mirror(c, r, b, rest)
  BY <1>2, <1>3, <1>4, <1>5, <1>6 DEF Mirror
<1> QED
  BY <1>7 DEF r, chunk, rest

(* What is put at the end of the pipe is put at the end of all under way.  *)
LEMMA ConcatAppend ==
  ASSUME NEW s \in Seq(Lines), NEW t \in Seq(Lines), NEW e \in Lines
  PROVE  s \o Append(t, e) = Append(s \o t, e)
<1> DEFINE a == Append(t, e)
           q == s \o t
           l == s \o a
           r == Append(q, e)
<1>1. Len(s) \in Nat /\ Len(t) \in Nat
  BY LenProperties
<1>2. /\ a \in Seq(Lines) /\ Len(a) = Len(t) + 1
      /\ \A i \in 1 .. Len(t) : a[i] = t[i]
      /\ a[Len(t) + 1] = e
  BY AppendProperties
<1>3. /\ q \in Seq(Lines) /\ Len(q) = Len(s) + Len(t)
      /\ \A i \in 1 .. Len(s) + Len(t) :
           q[i] = IF i <= Len(s) THEN s[i] ELSE t[i - Len(s)]
  BY ConcatProperties
<1> HIDE DEF a, q
<1>4. /\ l \in Seq(Lines) /\ Len(l) = Len(s) + Len(a)
      /\ \A i \in 1 .. Len(s) + Len(a) :
           l[i] = IF i <= Len(s) THEN s[i] ELSE a[i - Len(s)]
  BY <1>2, ConcatProperties
<1>5. /\ r \in Seq(Lines) /\ Len(r) = Len(q) + 1
      /\ \A i \in 1 .. Len(q) : r[i] = q[i]
      /\ r[Len(q) + 1] = e
  BY <1>3, AppendProperties
<1> HIDE DEF l, r
<1>6. Len(l) = Len(r) /\ Len(l) = Len(s) + Len(t) + 1
  BY <1>1, <1>2, <1>3, <1>4, <1>5
<1>7. ASSUME NEW i \in 1 .. Len(l) PROVE l[i] = r[i]
  <2>1. CASE i <= Len(s)
    <3>1. i \in 1 .. Len(q) /\ i \in 1 .. Len(s) + Len(a)
      BY <1>1, <1>2, <1>3, <2>1
    <3>2. l[i] = s[i] /\ r[i] = q[i] /\ q[i] = s[i]
      BY <1>3, <1>4, <1>5, <2>1, <3>1
    <3> QED
      BY <3>2
  <2>2. CASE ~(i <= Len(s)) /\ i <= Len(s) + Len(t)
    <3>1. i - Len(s) \in 1 .. Len(t)
      BY <1>1, <2>2
    <3>2. l[i] = a[i - Len(s)] /\ a[i - Len(s)] = t[i - Len(s)]
      BY <1>1, <1>2, <1>4, <1>6, <2>2, <3>1
    <3>3. r[i] = q[i] /\ q[i] = t[i - Len(s)]
      BY <1>1, <1>3, <1>5, <1>6, <2>2
    <3> QED
      BY <3>2, <3>3
  <2>3. CASE i = Len(s) + Len(t) + 1
    <3>1. i - Len(s) = Len(t) + 1 /\ ~(i <= Len(s))
      BY <1>1, <2>3
    <3>2. l[i] = a[i - Len(s)]
      BY <1>1, <1>2, <1>4, <1>6, <3>1
    <3> QED
      BY <1>2, <1>3, <1>5, <2>3, <3>1, <3>2
  <2> QED
    BY <1>1, <1>6, <2>1, <2>2, <2>3
<1>8. l = r
  BY <1>4, <1>5, <1>6, <1>7, SeqEqual
<1> QED
  BY <1>8 DEF l, r, a, q

LEMMA SayMirror ==
  ASSUME NEW c \in Conns, NEW s \in ConnRecords, NEW b, NEW fb \in Seq(Lines),
         Mirror(c, s, b, fb), b.up, NEW line \in Lines, NEW b1,
         \A f \in Ours(c) : /\ Event(line, f) => (f \in b1.news <=> line.tag = "UPDATE")
                            /\ ~Event(line, f) => (f \in b1.news <=> f \in b.news)
  PROVE  Mirror(c, s, b1, Append(fb, line))
<1> DEFINE q == s.bin \o fb
<1>1. s.bin \in Seq(Lines)
  BY DEF ConnRecords
<1>2. s.bin \o Append(fb, line) = Append(q, line)
  BY <1>1, ConcatAppend
<1>3. q \in Seq(Lines)
  BY <1>1, ConcatProperties
<1> HIDE DEF q
<1>4. \A f \in Ours(c) : Told(q, f, Shown(c, s), b.news)
  BY DEF Mirror, q
<1>5. \A f \in Ours(c) : Told(Append(q, line), f, Shown(c, s), b1.news)
  BY <1>3, <1>4, ToldAppend
<1> QED
  BY <1>2, <1>5 DEF Mirror

-------------------------------------------------------------------------------
(* A line processed *)

LEMMA LineMirror ==
  ASSUME NEW c \in Conns, NEW p, NEW b, NEW fb \in Seq(Lines), Shape(c, p),
         Mirror(c, p, b, fb), p.bin # <<>>, NEW have \in BOOLEAN,
         ~Closes([p EXCEPT !.bin = Tail(p.bin)], Head(p.bin))
  PROVE  Mirror(c, proto_process_line(c, [p EXCEPT !.bin = Tail(p.bin)], Head(p.bin), have),
                b, fb)
<1> DEFINE line == Head(p.bin)
           s == [p EXCEPT !.bin = Tail(p.bin)]
           r == proto_process_line(c, s, line, have)
           q == p.bin \o fb
<1> SUFFICES Mirror(c, r, b, fb)
  OBVIOUS
<1>1. p \in ConnRecords /\ p.bin \in Seq(Lines)
  BY DEF Shape, ConnRecords
<1>2. line \in Lines /\ Tail(p.bin) \in Seq(Lines)
  BY <1>1, HeadTailProperties
<1>3. /\ s \in ConnRecords /\ s.bin = Tail(p.bin) /\ s.biffed = p.biffed
      /\ s.state = p.state /\ Shape(c, s)
  BY <1>1, <1>2, ShapeBin DEF ConnRecords
<1>4. /\ q \in Seq(Lines) /\ q # <<>> /\ Head(q) = line
      /\ Tail(q) = Tail(p.bin) \o fb
  <2>1. Len(p.bin) \in Nat \ {0} /\ Len(fb) \in Nat
    BY <1>1, EmptySeq, LenProperties
  <2>2. /\ q \in Seq(Lines) /\ Len(q) = Len(p.bin) + Len(fb)
        /\ \A i \in 1 .. Len(p.bin) + Len(fb) :
             q[i] = IF i <= Len(p.bin) THEN p.bin[i] ELSE fb[i - Len(p.bin)]
    BY <1>1, ConcatProperties
  <2> HIDE DEF q
  <2>3. q # <<>>
    BY <2>1, <2>2, EmptySeq
  <2>4. Head(q) = line
    <3>1. Head(q) = q[1] /\ line = p.bin[1]
      OBVIOUS
    <3>2. q[1] = p.bin[1]
      BY <2>1, <2>2
    <3> QED
      BY <3>1, <3>2
  <2>5. /\ Tail(q) \in Seq(Lines) /\ Len(Tail(q)) = Len(q) - 1
        /\ \A i \in 1 .. Len(q) - 1 : Tail(q)[i] = q[i + 1]
    BY <2>2, <2>3, HeadTailProperties
  <2>6. /\ Len(Tail(p.bin)) = Len(p.bin) - 1
        /\ \A i \in 1 .. Len(p.bin) - 1 : Tail(p.bin)[i] = p.bin[i + 1]
    BY <1>1, HeadTailProperties
  <2> DEFINE t == Tail(p.bin)
  <2>7. /\ t \o fb \in Seq(Lines) /\ Len(t \o fb) = Len(t) + Len(fb)
        /\ \A i \in 1 .. Len(t) + Len(fb) :
             (t \o fb)[i] = IF i <= Len(t) THEN t[i] ELSE fb[i - Len(t)]
    BY <1>2, ConcatProperties
  <2>8. Len(Tail(q)) = Len(t \o fb)
    BY <2>1, <2>2, <2>5, <2>6, <2>7
  <2>9. ASSUME NEW i \in 1 .. Len(Tail(q)) PROVE Tail(q)[i] = (t \o fb)[i]
    <3>1. Tail(q)[i] = q[i + 1] /\ i + 1 \in 1 .. Len(p.bin) + Len(fb)
      BY <2>1, <2>2, <2>5
    <3>2. CASE i <= Len(t)
      <4>1. q[i + 1] = p.bin[i + 1] /\ (t \o fb)[i] = t[i] /\ t[i] = p.bin[i + 1]
        BY <2>1, <2>2, <2>5, <2>6, <2>7, <3>1, <3>2
      <4> QED
        BY <3>1, <4>1
    <3>3. CASE ~(i <= Len(t))
      <4>1. q[i + 1] = fb[(i + 1) - Len(p.bin)] /\ (t \o fb)[i] = fb[i - Len(t)]
        BY <2>1, <2>2, <2>5, <2>6, <2>7, <3>1, <3>3, SMTT(30)
      <4>2. (i + 1) - Len(p.bin) = i - Len(t)
        BY <2>1, <2>6, SMTT(30)
      <4> QED
        BY <3>1, <4>1, <4>2
    <3> QED
      BY <3>2, <3>3
  <2> HIDE DEF t
  <2>10. Tail(q) = t \o fb
    BY <2>5, <2>7, <2>8, <2>9, SeqEqual
  <2> QED
    BY <2>2, <2>3, <2>4, <2>10 DEF t
<1>5. p.state # "PENALTY_BOX" /\ ~Closes(s, line)
  BY DEF Mirror
<1> HIDE DEF line, s, q
<1>6. /\ r.bin = s.bin /\ SameSide(s, r)
      /\ \/ Shows(s, r)
         \/ line.tag = "UPDATE" /\ r = connection_do_update(c, s, line.arg)
         \/ line.tag = "RESET" /\ r = connection_do_reset(c, s, line.arg)
  BY <1>2, <1>3, <1>5, LineEffect, LineQueues
<1>7. /\ line.tag = "UPDATE" => r = connection_do_update(c, s, line.arg)
      /\ line.tag = "RESET" => r = connection_do_reset(c, s, line.arg)
  BY DEF proto_process_line
<1> HIDE DEF r
<1>8. Marked(c, s) /\ Shown(c, s) = Shown(c, p)
  BY <1>3 DEF Mirror, Marked, Shown
<1>9. /\ Marked(c, r)
      /\ line.tag = "UPDATE" => Shown(c, r) = Shown(c, p) \cup ({line.arg} \cap Ours(c))
      /\ line.tag = "RESET" => Shown(c, r) = Shown(c, p) \ {line.arg}
      /\ line.tag \notin {"UPDATE", "RESET"} => Shown(c, r) = Shown(c, p)
  <2>1. CASE line.tag = "UPDATE"
    BY <1>3, <1>7, <1>8, <2>1, UpdateShown
  <2>2. CASE line.tag = "RESET"
    BY <1>3, <1>7, <1>8, <2>2, ResetShown
  <2>3. CASE line.tag \notin {"UPDATE", "RESET"}
    <3>1. r.biffed = s.biffed
      BY <1>6, <2>3 DEF Shows
    <3> QED
      BY <1>8, <2>3, <3>1 DEF Marked, Shown
  <2> QED
    BY <2>1, <2>2, <2>3
<1>10. ASSUME NEW f \in Ours(c) PROVE Told(r.bin \o fb, f, Shown(c, r), b.news)
  <2>1. Told(q, f, Shown(c, p), b.news)
    BY DEF Mirror, q
  <2>2. /\ Event(Head(q), f) => (f \in Shown(c, r) <=> Head(q).tag = "UPDATE")
        /\ ~Event(Head(q), f) => (f \in Shown(c, r) <=> f \in Shown(c, p))
    BY <1>4, <1>9 DEF Event
  <2>3. Told(Tail(q), f, Shown(c, r), b.news)
    BY <1>4, <2>1, <2>2, ToldTail
  <2> QED
    BY <1>3, <1>4, <1>6, <2>3
<1> QED
  BY <1>3, <1>5, <1>6, <1>9, <1>10 DEF Mirror, SameSide

-------------------------------------------------------------------------------
(* What the back end does *)

LEMMA BackEndMirror ==
  ASSUME TypeInv, NEW c \in Conns, BackEndStep(c),
         NEW s \in ConnRecords, Mirror(c, s, be[c], fromBack[c])
  PROVE  Mirror(c, s, be'[c], fromBack'[c])
<1> DEFINE b == be[c]
           fb == fromBack[c]
<1>0. /\ fromBack \in [Conns -> Seq(Lines)] /\ fb \in Seq(Lines)
      /\ be \in [Conns -> BackEnds] /\ b \in BackEnds
  BY DEF TypeInv, TypeOK, BackTypeOK
<1>1. \A t \in LineTags, f \in Names \cup {NoArg} :
        Line(t, f) \in Lines /\ Line(t, f).tag = t /\ Line(t, f).arg = f
  BY DEF Line, Lines
<1>2. \A line \in Lines : Say(c, line) => b.up /\ fromBack'[c] = Append(fb, line)
  BY <1>0 DEF Say
<1>3. Replies \subseteq LineTags \ {"UPDATE", "RESET"}
  BY RepliesAssumption DEF LineTags, Statuses
<1>4. CASE Notify(c)
  <2>1. PICK f \in Spoken(c) :
          \/ Say(c, Line("UPDATE", f)) /\ be' = [be EXCEPT ![c].news = @ \cup {f}]
          \/ Say(c, Line("RESET", f)) /\ be' = [be EXCEPT ![c].news = @ \ {f}]
    BY <1>4 DEF Notify
  <2>2. f \in Names
    BY <1>0 DEF BackEnds, Spoken
  <2>3. CASE Say(c, Line("UPDATE", f)) /\ be' = [be EXCEPT ![c].news = @ \cup {f}]
    <3> DEFINE line == Line("UPDATE", f)
    <3>1. be'[c].news = b.news \cup {f}
      BY <1>0, <2>3 DEF BackEnds
    <3>2. line \in Lines /\ line.tag = "UPDATE" /\ line.arg = f
      BY <1>1, <2>2 DEF LineTags
    <3>3. b.up /\ fromBack'[c] = Append(fb, line)
      BY <1>2, <2>3, <3>2
    <3>4. \A g \in Ours(c) :
            /\ Event(line, g) => (g \in be'[c].news <=> line.tag = "UPDATE")
            /\ ~Event(line, g) => (g \in be'[c].news <=> g \in b.news)
      BY <3>1, <3>2 DEF Event
    <3> DEFINE b1 == be'[c]
    <3>5. \A g \in Ours(c) :
            /\ Event(line, g) => (g \in b1.news <=> line.tag = "UPDATE")
            /\ ~Event(line, g) => (g \in b1.news <=> g \in b.news)
      BY <3>4
    <3>6. Mirror(c, s, b, fb)
      OBVIOUS
    <3> HIDE DEF b, fb, line, b1
    <3>7. Mirror(c, s, b1, Append(fb, line))
      BY <1>0, <3>2, <3>3, <3>5, <3>6, SayMirror
    <3> QED
      BY <3>3, <3>7 DEF b1
  <2>4. CASE Say(c, Line("RESET", f)) /\ be' = [be EXCEPT ![c].news = @ \ {f}]
    <3> DEFINE line == Line("RESET", f)
    <3>1. be'[c].news = b.news \ {f}
      BY <1>0, <2>4 DEF BackEnds
    <3>2. line \in Lines /\ line.tag = "RESET" /\ line.arg = f
      BY <1>1, <2>2 DEF LineTags
    <3>3. b.up /\ fromBack'[c] = Append(fb, line)
      BY <1>2, <2>4, <3>2
    <3>4. \A g \in Ours(c) :
            /\ Event(line, g) => (g \in be'[c].news <=> line.tag = "UPDATE")
            /\ ~Event(line, g) => (g \in be'[c].news <=> g \in b.news)
      BY <3>1, <3>2 DEF Event
    <3> DEFINE b1 == be'[c]
    <3>5. \A g \in Ours(c) :
            /\ Event(line, g) => (g \in b1.news <=> line.tag = "UPDATE")
            /\ ~Event(line, g) => (g \in b1.news <=> g \in b.news)
      BY <3>4
    <3>6. Mirror(c, s, b, fb)
      OBVIOUS
    <3> HIDE DEF b, fb, line, b1
    <3>7. Mirror(c, s, b1, Append(fb, line))
      BY <1>0, <3>2, <3>3, <3>5, <3>6, SayMirror
    <3> QED
      BY <3>3, <3>7 DEF b1
  <2> QED
    BY <2>1, <2>3, <2>4
<1>5. CASE Greet(c) \/ Answer(c) \/ Ask(c) \/ Chatter(c)
  <2>1. \E t \in LineTags \ {"UPDATE", "RESET"} : Say(c, Line(t, NoArg))
    <3>1. CASE Greet(c)
      BY <1>3, <3>1 DEF Greet
    <3>2. CASE Answer(c)
      BY <1>3, <3>2 DEF Answer
    <3>3. CASE Ask(c)
      BY <3>3 DEF Ask, LineTags
    <3>4. CASE Chatter(c)
      BY <3>4 DEF Chatter, LineTags, Statuses
    <3> QED
      BY <1>5, <3>1, <3>2, <3>3, <3>4
  <2>2. be'[c].news = b.news
    <3>1. CASE Greet(c)
      BY <1>0, <3>1 DEF Greet, BackEnds
    <3>2. CASE Answer(c)
      <4>1. \E kn : be' = [be EXCEPT ![c].known = kn, ![c].asking = FALSE]
        BY <1>0, <3>2 DEF Answer
      <4> QED
        BY <1>0, <4>1 DEF BackEnds
    <3>3. CASE Ask(c)
      BY <1>0, <3>3 DEF Ask, BackEnds
    <3>4. CASE Chatter(c)
      BY <3>4 DEF Chatter
    <3> QED
      BY <1>5, <3>1, <3>2, <3>3, <3>4
  <2>3. PICK t \in LineTags \ {"UPDATE", "RESET"} : Say(c, Line(t, NoArg))
    BY <2>1
  <2> DEFINE line == Line(t, NoArg)
  <2>4. /\ line \in Lines /\ line.tag \notin {"UPDATE", "RESET"}
        /\ b.up /\ fromBack'[c] = Append(fb, line)
    BY <1>1, <1>2, <2>3
  <2>5. \A g \in Ours(c) : ~Event(line, g)
    BY <2>4 DEF Event
  <2> DEFINE b1 == be'[c]
  <2>6. b1.news = b.news
    BY <2>2
  <2>7. Mirror(c, s, b, fb)
    OBVIOUS
  <2> HIDE DEF b, fb, line, b1
  <2>8. Mirror(c, s, b1, Append(fb, line))
    BY <1>0, <2>4, <2>5, <2>6, <2>7, SayMirror
  <2> QED
    BY <2>4, <2>8 DEF b1
<1>6. CASE Exit(c)
  <2>1. be'[c].news = b.news /\ (be'[c].up => b.up) /\ fromBack'[c] = fb
    BY <1>0, <1>6 DEF Exit, BackEnds
  <2> HIDE DEF b, fb
  <2> QED
    BY <2>1, MirrorSame DEF b, fb, SameSide
<1> QED
  BY <1>4, <1>5, <1>6 DEF BackEndStep

-------------------------------------------------------------------------------
(* The theorem *)

MirrorInv == \A c \in Conns : Mirror(c, conn[c], be[c], fromBack[c])

LEMMA MirrorStep == TypeInv /\ MirrorInv /\ [Next]_vars => MirrorInv'
<1> SUFFICES ASSUME TypeInv, MirrorInv, [Next]_vars, NEW c \in Conns
             PROVE  Mirror(c, conn'[c], be'[c], fromBack'[c])
  BY DEF MirrorInv
<1>1. /\ conn \in [Conns -> ConnRecords] /\ fromBack \in [Conns -> Seq(Lines)]
      /\ be \in [Conns -> BackEnds]
  BY DEF TypeInv, TypeOK, BackTypeOK
<1> DEFINE s == conn[c]
           b == be[c]
           fb == fromBack[c]
           Kept == conn'[c] = s /\ be'[c] = b /\ fromBack'[c] = fb
<1>2. /\ s \in ConnRecords /\ fb \in Seq(Lines) /\ Shape(c, s)
      /\ Mirror(c, s, b, fb)
  BY <1>1 DEF TypeInv, MirrorInv
<1>3. CASE Kept
  BY <1>2, <1>3
<1>4. CASE proto_do_retries
  <2>1. \/ Kept
        \/ /\ WantsRetry(s) /\ conn'[c] = proto_init_conn(s)
           /\ be'[c] = Fresh /\ fromBack'[c] = fb
    BY <1>4 DEF proto_do_retries
  <2>2. ASSUME WantsRetry(s) PROVE Mirror(c, proto_init_conn(s), Fresh, fb)
    <3>1. s.biffed = {} /\ s.bin = <<>> /\ fb = <<>>
      BY <1>2, <2>2 DEF WantsRetry, Mirror
    <3>2. /\ proto_init_conn(s).biffed = {} /\ proto_init_conn(s).bin = <<>>
          /\ proto_init_conn(s).state = "WAIT_HELLO"
      BY <1>2, <3>1 DEF proto_init_conn, ConnRecords
    <3>3. Fresh.news = {}
      BY DEF Fresh, Gone
    <3> HIDE DEF s, b, fb, Fresh
    <3> QED
      BY <3>1, <3>2, <3>3, EmptyMirror
  <2> QED
    BY <1>3, <2>1, <2>2
<1>5. CASE proto_do_poll
  <2>1. \/ Kept
        \/ conn'[c] = proto_poll_conn(s) /\ be'[c] = b /\ fromBack'[c] = fb
    BY <1>5 DEF proto_do_poll
  <2>2. /\ proto_poll_conn(s).biffed = s.biffed /\ proto_poll_conn(s).bin = s.bin
        /\ SameSide(s, proto_poll_conn(s))
    BY <1>2, PollFields, PollQueues DEF Shows, SameSide
  <2> HIDE DEF s, b, fb
  <2> QED
    BY <1>2, <1>3, <2>1, <2>2, MirrorSame
<1>6. CASE Tick
  <2>1. /\ fromBack'[c] = fb /\ be'[c] = b
        /\ conn'[c] = [s EXCEPT !.wait = IF @ > 0 THEN @ - 1 ELSE 0]
    BY <1>6 DEF Tick
  <2>2. /\ conn'[c].state = s.state /\ conn'[c].biffed = s.biffed /\ conn'[c].bin = s.bin
    BY <1>2, <2>1 DEF ConnRecords
  <2> HIDE DEF s, b, fb
  <2> QED
    BY <1>2, <2>1, <2>2, MirrorSame DEF SameSide
<1>7. CASE proto_do_conn_input(c)
  <2>1. PICK n \in 1 .. Len(fb) :
           /\ conn'[c] = [s EXCEPT !.bin = SubSeq(fb, 1, n)]
           /\ fromBack'[c] = SubSeq(fb, n + 1, Len(fb))
           /\ be'[c] = b
    BY <1>1, <1>7 DEF proto_do_conn_input
  <2>2. s.bin = <<>>
    BY <1>7 DEF proto_do_conn_input, Busy
  <2> HIDE DEF s, b, fb
  <2>3. Mirror(c, [s EXCEPT !.bin = SubSeq(fb, 1, n)], b, SubSeq(fb, n + 1, Len(fb)))
    BY <1>2, <2>2, InputMirror
  <2> QED
    BY <2>1, <2>3, Zenon
<1>8. ASSUME NEW t \in ConnRecords, conn'[c] = connection_close(t), Disconnect(c)
      PROVE  Mirror(c, conn'[c], be'[c], fromBack'[c])
  <2>1. conn'[c].biffed = {} /\ conn'[c].bin = <<>>
    BY <1>8 DEF connection_close, ConnRecords
  <2>2. be'[c].news = {} /\ ~be'[c].up /\ fromBack'[c] = <<>>
    BY <1>1, <1>8 DEF Disconnect, Gone
  <2> QED
    BY <2>1, <2>2, EmptyMirror
<1>9. CASE Close(c)
  BY <1>1, <1>2, <1>8, <1>9 DEF Close
<1>10. CASE ProcessLine(c)
  <2> DEFINE t == [s EXCEPT !.bin = Tail(s.bin)]
             line == Head(s.bin)
  <2>1. PICK have \in BOOLEAN :
          /\ s.bin # <<>>
          /\ conn'[c] = proto_process_line(c, t, line, have)
          /\ IF Closes(t, line) THEN Disconnect(c)
                                ELSE be'[c] = b /\ fromBack'[c] = fb
    BY <1>1, <1>10 DEF ProcessLine
  <2>2. CASE Closes(t, line)
    <3>1. t \in ConnRecords
      <4>1. Tail(s.bin) \in Seq(Lines)
        BY <1>2, <2>1, HeadTailProperties DEF ConnRecords
      <4> QED
        BY <1>2, <4>1 DEF ConnRecords
    <3> HIDE DEF t, line
    <3>2. conn'[c] = connection_close(t)
      BY <2>1, <2>2, <3>1 DEF Closes, proto_process_line, ProcessNo
    <3> QED
      BY <1>8, <2>1, <2>2, <3>1, <3>2
  <2>3. CASE ~Closes(t, line)
    <3>1. conn'[c] = proto_process_line(c, t, line, have)
      BY <2>1
    <3>2. be'[c] = b /\ fromBack'[c] = fb
      BY <2>1, <2>3
    <3> HIDE DEF s, b, fb
    <3>3. Mirror(c, proto_process_line(c, t, line, have), b, fb)
      BY <1>2, <2>1, <2>3, LineMirror
    <3> QED
      BY <3>1, <3>2, <3>3, Zenon
  <2> QED
    BY <2>2, <2>3
<1>11. CASE proto_do_conn_output(c)
  <2>1. PICK n \in 0 .. Len(s.bout) :
          conn'[c] = Written(s, n) /\ fromBack'[c] = fb /\ be'[c] = b
    BY <1>1, <1>11 DEF proto_do_conn_output
  <2>2. /\ conn'[c].state = s.state /\ conn'[c].biffed = s.biffed /\ conn'[c].bin = s.bin
    BY <1>2, <2>1 DEF Written, ConnRecords
  <2> HIDE DEF s, b, fb
  <2> QED
    BY <1>2, <2>1, <2>2, MirrorSame DEF SameSide
<1>12. CASE BackEndStep(c) /\ UNCHANGED conn
  BY <1>2, <1>12, BackEndMirror
<1>13. ASSUME NEW d \in Conns, d # c, FrontEndStep(d) \/ (BackEndStep(d) /\ UNCHANGED conn)
       PROVE  Kept
  <2>1. CASE FrontEndStep(d)
    BY <1>1, <1>13, <2>1, SMTT(30) DEF FrontEndStep, proto_do_conn_input, Hangup, ProcessLine, Close,
       Disconnect, proto_do_conn_output, BrokenPipe
  <2>2. CASE BackEndStep(d) /\ UNCHANGED conn
    BY <1>1, <1>13, <2>2 DEF BackEndStep, Greet, Answer, Notify, Ask, Chatter, Exit, Say
  <2> QED
    BY <1>13, <2>1, <2>2
<1>14. CASE UNCHANGED vars
  BY <1>3, <1>14 DEF vars
<1>15. CASE FrontEndStep(c)
  BY <1>7, <1>9, <1>10, <1>11, <1>15 DEF FrontEndStep, Hangup, BrokenPipe
<1> HIDE DEF Kept
<1> QED
  BY <1>3, <1>4, <1>5, <1>6, <1>12, <1>13, <1>14, <1>15 DEF Next

(* Once all a back end said is processed, the folders marked as biffed     *)
(* (connection_do_update, connection_do_reset) are exactly those it has    *)
(* reported and not taken back, of those that are configured: through any  *)
(* interleaving of events and answers, any cut of the input, any crash and *)
(* any restart, and whatever other folders it speaks of.                   *)
THEOREM BackEndMirrored == Spec => []MirrorsBackEnd
<1>1. Init => MirrorInv
  <2> SUFFICES ASSUME Init, NEW c \in Conns
               PROVE  Mirror(c, conn[c], be[c], fromBack[c])
    BY DEF MirrorInv
  <2>1. conn[c] = connection_init /\ be[c] = Gone /\ fromBack[c] = <<>>
    BY DEF Init, BackInit
  <2>2. /\ conn[c].biffed = {} /\ conn[c].bin = <<>>
        /\ be[c].news = {} /\ ~be[c].up
    BY <2>1 DEF connection_init, Gone
  <2> QED
    BY <2>1, <2>2, EmptyMirror
<1>2. TypeInv /\ MirrorInv => MirrorsBackEnd
  <2> SUFFICES ASSUME TypeInv, MirrorInv, NEW c \in Conns,
                      fromBack[c] = <<>>, conn[c].bin = <<>>
               PROVE  {Folders[c][i] : i \in conn[c].biffed} = be[c].news \cap Configured(c)
    BY DEF MirrorsBackEnd
  <2>1. Mirror(c, conn[c], be[c], fromBack[c])
    BY DEF MirrorInv
  <2>2. conn[c].bin \o fromBack[c] = <<>>
    BY EmptySeq, ConcatEmptySeq
  <2>3. \A f : About(<<>>, f) = {}
    BY DEF About
  <2>4. \A f \in Ours(c) : f \in Shown(c, conn[c]) <=> f \in be[c].news
    BY <2>1, <2>2, <2>3 DEF Mirror, Told
  <2>5. Shown(c, conn[c]) \subseteq Ours(c)
    BY <2>1 DEF Mirror, Marked, Shown, Ours
  <2>6. Shown(c, conn[c]) = be[c].news \cap Configured(c)
    BY <2>4, <2>5 DEF Ours, Configured
  <2> QED
    BY <2>6 DEF Shown
<1> QED
  BY <1>1, <1>2, TypeInit, TypeStep, MirrorStep, PTL DEF Spec
===============================================================================
