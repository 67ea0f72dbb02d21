------------------------------ MODULE ProtoProof ------------------------------
(***************************************************************************)
(* What the operations of Connection and Proto do to a record, what a back *)
(* end does to its pipes, and which descriptors a connection gets: lemmas  *)
(* for the proofs about the front end and about the interfaces.            *)
(***************************************************************************)
EXTENDS Descriptors, Counting

-------------------------------------------------------------------------------
(* Types *)

(* A record of connection c as the handlers keep it: well typed, and with  *)
(* folders_added in step with the state.                                   *)
Shape(c, s) ==
    /\ s \in ConnRecords
    /\ s.added <= Len(Folders[c])
    /\ s.state \in {"PENALTY_BOX", "WAIT_HELLO"} => s.added = 0
    /\ s.state = "ADDING_FOLDERS" => s.added < Len(Folders[c])
    /\ s.state = "NORMAL" => s.added = Len(Folders[c])

(* Both halves of a sequence over any set are sequences over it.           *)
LEMMA CutSeq ==
  ASSUME NEW S, NEW s \in Seq(S), NEW n \in 0 .. Len(s)
  PROVE  SubSeq(s, 1, n) \in Seq(S) /\ SubSeq(s, n + 1, Len(s)) \in Seq(S)
<1>1. Len(s) \in Nat /\ \A i \in 1 .. Len(s) : s[i] \in S
  BY LenProperties, ElementOfSeq
<1>2. \A i \in 1 .. n : s[i] \in S
  BY <1>1
<1>3. \A i \in n + 1 .. Len(s) : s[i] \in S
  BY <1>1
<1> QED
  BY <1>1, <1>2, <1>3, SubSeqProperties

LEMMA CutMore ==
  ASSUME NEW S, NEW s \in Seq(S), NEW n \in 1 .. Len(s)
  PROVE  /\ SubSeq(s, 1, n) \in Seq(S) /\ SubSeq(s, n + 1, Len(s)) \in Seq(S)
         /\ s # <<>>
<1>1. n \in 0 .. Len(s)
  BY LenProperties
<1>2. s # <<>>
  BY <1>1, EmptySeq
<1> QED
  BY <1>1, <1>2, CutSeq

(* The bytes bin and bout are cut and joined from are lines of the pipes.  *)
LEMMA CutCommands ==
  ASSUME NEW s \in Seq(Commands), NEW n \in 0 .. Len(s)
  PROVE  /\ SubSeq(s, 1, n) \in Seq(Commands) /\ Len(SubSeq(s, 1, n)) = n
         /\ SubSeq(s, n + 1, Len(s)) \in Seq(Commands)
         /\ Len(SubSeq(s, n + 1, Len(s))) = Len(s) - n
<1> DEFINE m == Len(s)
           a == n + 1
<1>1. m \in Nat /\ n \in Nat /\ n <= m /\ a \in Nat
  BY LenProperties
<1>2. \A i \in 1 .. m : s[i] \in Commands
  BY ElementOfSeq
<1>3. \A i \in 1 .. n : s[i] \in Commands
  BY <1>1, <1>2
<1>4. \A i \in a .. m : s[i] \in Commands
  BY <1>1, <1>2
<1> HIDE DEF m
<1>5. SubSeq(s, 1, n) \in Seq(Commands) /\ Len(SubSeq(s, 1, n)) = IF 1 <= n THEN n - 1 + 1 ELSE 0
  BY <1>1, <1>3, SubSeqProperties
<1>6. SubSeq(s, a, m) \in Seq(Commands) /\ Len(SubSeq(s, a, m)) = IF a <= m THEN m - a + 1 ELSE 0
  <2> HIDE DEF a
  <2> QED
    BY <1>1, <1>4, SubSeqProperties
<1>7. /\ 1 <= n => Len(SubSeq(s, 1, n)) = n - 1 + 1
      /\ ~(1 <= n) => Len(SubSeq(s, 1, n)) = 0
  BY <1>5, Zenon
<1>8. /\ a <= m => Len(SubSeq(s, a, m)) = m - a + 1
      /\ ~(a <= m) => Len(SubSeq(s, a, m)) = 0
  BY <1>6, Zenon
<1>9. \A k, l \in Nat : /\ 1 <= k => k - 1 + 1 = k
                        /\ ~(1 <= k) => k = 0
                        /\ k <= l => (k + 1 <= l => l - (k + 1) + 1 = l - k)
                        /\ k <= l => (~(k + 1 <= l) => l - k = 0)
  OBVIOUS
<1>10. Len(SubSeq(s, 1, n)) = n
  BY <1>1, <1>7, <1>9, Zenon
<1>11. Len(SubSeq(s, a, m)) = m - n
  BY <1>1, <1>8, <1>9, Zenon
<1> QED
  BY <1>5, <1>6, <1>10, <1>11, Zenon DEF m, a

(* Taking lines into bin, or out of it, leaves the shape alone.            *)
LEMMA ShapeBin ==
  ASSUME NEW c, NEW s, Shape(c, s), NEW q \in Seq(Lines)
  PROVE  Shape(c, [s EXCEPT !.bin = q])
<1> DEFINE r == [s EXCEPT !.bin = q]
<1>1. s \in ConnRecords
  BY DEF Shape
<1>2. r \in ConnRecords
  BY <1>1 DEF ConnRecords
<1>3. r.state = s.state /\ r.added = s.added
  BY <1>1 DEF ConnRecords
<1> HIDE DEF r
<1>4. Shape(c, r)
  BY <1>2, <1>3 DEF Shape
<1> QED
  BY <1>4 DEF r

LEMMA FoldersType ==
  ASSUME NEW c \in Conns
  PROVE  /\ Folders[c] \in Seq(Names)
         /\ Len(Folders[c]) \in Nat
         /\ DOMAIN Folders[c] = 1 .. Len(Folders[c])
         /\ \A i \in 1 .. Len(Folders[c]) : Folders[c][i] \in Names
<1>1. Folders[c] \in Seq(Names)
  BY FoldersAssumption
<1> QED
  BY <1>1, LenProperties, ElementOfSeq

(* At the greeting the penalty is forgotten.                               *)
LEMMA HelloFields ==
  ASSUME NEW s \in ConnRecords
  PROVE  LET t == [s EXCEPT !.penalty = 1, !.state = "ADDING_FOLDERS"]
         IN  /\ t \in ConnRecords /\ t.state = "ADDING_FOLDERS" /\ t.added = s.added
             /\ t.bin = s.bin /\ t.bout = s.bout /\ t.pending = s.pending
             /\ t.watch = s.watch /\ t.flag = s.flag /\ t.biffed = s.biffed
             /\ t.wait = s.wait /\ t.penalty = 1
<1>1. 1 \in 1 .. MaxPenalty
  BY PenaltyAssumption
<1> QED
  BY <1>1 DEF ConnRecords, CStates

(* A closed connection has forgotten the folders it announced.             *)
LEMMA CloseShape ==
  ASSUME NEW c \in Conns, NEW s \in ConnRecords
  PROVE  Shape(c, connection_close(s))
<1>1. /\ 2 * s.penalty \in 0 .. 2 * MaxPenalty
      /\ Doubled(s.penalty) \in 1 .. MaxPenalty
  BY PenaltyAssumption DEF ConnRecords, Doubled
<1>2. <<>> \in Seq(Lines) /\ <<>> \in Seq(Commands)
  BY EmptySeq
<1>3. connection_close(s) \in ConnRecords
  BY <1>1, <1>2 DEF connection_close, ConnRecords, CStates
<1>4. /\ connection_close(s).added = 0
      /\ connection_close(s).state = "PENALTY_BOX"
  BY DEF connection_close, ConnRecords
<1>5. Len(Folders[c]) \in Nat
  BY FoldersType
<1> QED
  BY <1>3, <1>4, <1>5 DEF Shape

(* Queueing a request touches nothing but bout and the write watch.        *)
LEMMA SendFields ==
  ASSUME NEW s \in ConnRecords, NEW cmd \in Commands
  PROVE  /\ Send(s, cmd) \in ConnRecords
         /\ Send(s, cmd).bout = Append(s.bout, cmd)
         /\ Send(s, cmd).bin = s.bin
         /\ Send(s, cmd).state = s.state
         /\ Send(s, cmd).added = s.added
         /\ Send(s, cmd).pending = s.pending
<1>1. Append(s.bout, cmd) \in Seq(Commands)
  BY AppendProperties DEF ConnRecords
<1> QED
  BY <1>1 DEF Send, ConnRecords

LEMMA PollFields ==
  ASSUME NEW s \in ConnRecords
  PROVE  /\ proto_poll_conn(s) \in ConnRecords
         /\ proto_poll_conn(s).bout = Append(s.bout, Command("POLL", NoArg))
         /\ proto_poll_conn(s).bin = s.bin
         /\ proto_poll_conn(s).state = s.state
         /\ proto_poll_conn(s).added = s.added
         /\ proto_poll_conn(s).pending = s.pending + 1
<1> DEFINE cmd == Command("POLL", NoArg)
<1>1. cmd \in Commands
  BY DEF Command, Commands
<1>2. /\ Send(s, cmd) \in ConnRecords
      /\ Send(s, cmd).bout = Append(s.bout, cmd)
      /\ Send(s, cmd).bin = s.bin
      /\ Send(s, cmd).state = s.state
      /\ Send(s, cmd).added = s.added
      /\ Send(s, cmd).pending = s.pending
  BY <1>1, SendFields
<1> HIDE DEF cmd
<1> DEFINE sent == Send(s, cmd)
           count == sent.pending + 1
<1>3. proto_poll_conn(s) = [sent EXCEPT !.pending = count]
  BY DEF proto_poll_conn, cmd
<1>4. sent \in ConnRecords /\ count \in Nat
  BY <1>2 DEF ConnRecords
<1> HIDE DEF sent, count
<1>5. /\ proto_poll_conn(s) \in ConnRecords
      /\ proto_poll_conn(s).bout = sent.bout
      /\ proto_poll_conn(s).bin = sent.bin
      /\ proto_poll_conn(s).state = sent.state
      /\ proto_poll_conn(s).added = sent.added
      /\ proto_poll_conn(s).pending = count
  BY <1>3, <1>4 DEF ConnRecords
<1> QED
  BY <1>2, <1>5, Zenon DEF sent, count, cmd

(* During the start-up the request is for the folder after those accepted. *)
Following(c, r, cmd) ==
    r.state = "ADDING_FOLDERS" => cmd = Command("FOLDER", Folders[c][r.added + 1])

(* The next request of the start-up: a folder while there is one left, and *)
(* then the first poll, which is counted.                                  *)
LEMMA NextFolderFields ==
  ASSUME NEW c \in Conns, NEW s \in ConnRecords,
         s.state = "ADDING_FOLDERS", s.added <= Len(Folders[c])
  PROVE  LET r == proto_add_next_folder(c, s)
         IN  /\ Shape(c, r)
             /\ r.bin = s.bin
             /\ r.added = s.added
             /\ \E cmd \in Commands : r.bout = Append(s.bout, cmd) /\ Following(c, r, cmd)
             /\ \/ r.state = "ADDING_FOLDERS" /\ r.pending = s.pending
                \/ r.state = "NORMAL" /\ r.pending = s.pending + 1
<1> DEFINE r == proto_add_next_folder(c, s)
           normal == [s EXCEPT !.state = "NORMAL"]
           cmd == Command("FOLDER", Folders[c][s.added + 1])
           poll == Command("POLL", NoArg)
<1>1. s.added \in Nat /\ Len(Folders[c]) \in Nat
  BY FoldersType DEF ConnRecords
<1>2. CASE s.added = Len(Folders[c])
  <2>1. r = proto_poll_conn(normal)
    BY <1>2 DEF proto_add_next_folder
  <2>2. /\ normal \in ConnRecords /\ normal.state = "NORMAL" /\ normal.bin = s.bin
        /\ normal.bout = s.bout /\ normal.added = s.added /\ normal.pending = s.pending
    BY DEF ConnRecords, CStates
  <2>3. poll \in Commands
    BY DEF Command, Commands
  <2> HIDE DEF r, normal, poll
  <2>4. /\ r \in ConnRecords /\ r.state = "NORMAL" /\ r.bin = s.bin
        /\ r.bout = Append(s.bout, poll) /\ r.added = s.added
        /\ r.pending = s.pending + 1
    BY <2>1, <2>2, PollFields DEF poll
  <2>5. Shape(c, r)
    BY <1>1, <1>2, <2>4 DEF Shape
  <2>6. Following(c, r, poll)
    BY <2>4 DEF Following
  <2> QED
    BY <2>3, <2>4, <2>5, <2>6 DEF r
<1>3. CASE s.added # Len(Folders[c])
  <2>1. r = Send(s, cmd)
    BY <1>3 DEF proto_add_next_folder
  <2>2. s.added < Len(Folders[c]) /\ s.added + 1 \in 1 .. Len(Folders[c])
    BY <1>1, <1>3
  <2>3. cmd \in Commands
    BY <2>2, FoldersType DEF Command, Commands
  <2> HIDE DEF r, cmd
  <2>4. /\ r \in ConnRecords /\ r.state = "ADDING_FOLDERS" /\ r.bin = s.bin
        /\ r.bout = Append(s.bout, cmd) /\ r.added = s.added
        /\ r.pending = s.pending
    BY <2>1, <2>3, SendFields
  <2>5. Shape(c, r)
    BY <2>2, <2>4 DEF Shape
  <2>6. Following(c, r, cmd)
    BY <2>4 DEF Following, cmd
  <2> QED
    BY <2>3, <2>4, <2>5, <2>6 DEF r
<1> QED
  BY <1>2, <1>3

(* FirstMatch names positions, so biffed stays a set of positions.         *)
LEMMA FirstMatchType ==
  ASSUME NEW c \in Conns, NEW f
  PROVE  FirstMatch(c, f) \subseteq Nat
<1>1. DOMAIN Folders[c] \subseteq Nat
  BY FoldersType
<1> QED
  BY <1>1 DEF FirstMatch, Matches

LEMMA PerformedType ==
  ASSUME NEW flag \in {"up", "down"}, NEW acts
  PROVE  Performed(flag, acts) \in {"up", "down"}
BY DEF Performed

(* An event moves flags, its own and the interface's, and nothing else.    *)
LEMMA EventFields ==
  ASSUME NEW c \in Conns, NEW s \in ConnRecords, NEW f, NEW r,
         r \in {connection_do_update(c, s, f), connection_do_reset(c, s, f)}
  PROVE  /\ r \in ConnRecords
         /\ r.bin = s.bin /\ r.bout = s.bout /\ r.state = s.state
         /\ r.added = s.added /\ r.pending = s.pending
<1>1. s.flag \in {"up", "down"} /\ s.biffed \subseteq Nat
  BY DEF ConnRecords
<1>2. CASE r = connection_do_update(c, s, f)
  <2>1. s.biffed \cup FirstMatch(c, f) \in SUBSET Nat
    BY <1>1, FirstMatchType
  <2>2. Performed(s.flag, Updates[c]) \in {"up", "down"}
    BY <1>1, PerformedType
  <2> QED
    BY <1>2, <2>1, <2>2 DEF connection_do_update, ConnRecords
<1>3. CASE r = connection_do_reset(c, s, f)
  <2> DEFINE fl == IF ResetFires(c, s, f) THEN Performed(s.flag, Resets[c]) ELSE s.flag
  <2>1. s.biffed \ FirstMatch(c, f) \in SUBSET Nat
    BY <1>1
  <2>2. fl \in {"up", "down"}
    BY <1>1, PerformedType
  <2>3. r = [s EXCEPT !.biffed = s.biffed \ FirstMatch(c, f), !.flag = fl]
    BY <1>3 DEF connection_do_reset
  <2> HIDE DEF fl
  <2> QED
    BY <2>1, <2>2, <2>3 DEF ConnRecords
<1> QED
  BY <1>2, <1>3

-------------------------------------------------------------------------------
(* What one line does to the record of its connection *)

(* It lets the start-up advance by one request,                            *)
Advances(c, s, line, r) ==
    /\ line.tag = "OK"
    /\ s.state \in {"WAIT_HELLO", "ADDING_FOLDERS"}
    /\ r.added = IF s.state = "WAIT_HELLO" THEN s.added ELSE s.added + 1
    /\ \E cmd \in Commands : r.bout = Append(s.bout, cmd) /\ Following(c, r, cmd)
    /\ \/ r.state = "ADDING_FOLDERS" /\ r.pending = s.pending
       \/ r.state = "NORMAL" /\ r.pending = s.pending + 1

(* or settles a request,                                                   *)
Settles(s, line, r) ==
    /\ line.tag \in Statuses
    /\ s.state = "NORMAL"
    /\ r = ProcessStatus(s)

(* or makes the front end send a data item,                                *)
Responds(s, line, r) ==
    /\ line.tag \notin Statuses
    /\ s.state = "NORMAL" /\ r.state = "NORMAL"
    /\ r.added = s.added
    /\ \E cmd \in Commands : r.bout = Append(s.bout, cmd)
    /\ r.pending = s.pending + 1

(* or changes nothing the session depends on.                              *)
IsQuiet(s, line, r) ==
    /\ line.tag \notin Statuses \/ s.state = "PENALTY_BOX"
    /\ r.state = s.state /\ r.added = s.added
    /\ r.bout = s.bout /\ r.pending = s.pending

LEMMA LineEffect ==
  ASSUME NEW c \in Conns, NEW s, Shape(c, s), NEW line \in Lines,
         NEW have \in BOOLEAN, ~Closes(s, line)
  PROVE  LET r == proto_process_line(c, s, line, have)
         IN  /\ Shape(c, r)
             /\ r.bin = s.bin
             /\ \/ Advances(c, s, line, r)
                \/ Settles(s, line, r)
                \/ Responds(s, line, r)
                \/ IsQuiet(s, line, r)
<1> DEFINE r == proto_process_line(c, s, line, have)
           G == /\ Shape(c, r)
                /\ r.bin = s.bin
                /\ \/ Advances(c, s, line, r)
                   \/ Settles(s, line, r)
                   \/ Responds(s, line, r)
                   \/ IsQuiet(s, line, r)
<1> USE DEF Statuses
<1>1. /\ s \in ConnRecords /\ s.state \in CStates /\ s.added \in Nat /\ s.pending \in Nat
      /\ Len(Folders[c]) \in Nat
  BY FoldersType DEF Shape, ConnRecords
<1>2. line.tag \in LineTags
  BY DEF Lines
<1>3. CASE line.tag = "OK" /\ s.state = "WAIT_HELLO"
  <2> DEFINE t == [s EXCEPT !.penalty = 1, !.state = "ADDING_FOLDERS"]
  <2>1. r = proto_add_next_folder(c, t)
    BY <1>3 DEF proto_process_line, ProcessOk, ProcessHello
  <2>2. /\ t \in ConnRecords /\ t.state = "ADDING_FOLDERS" /\ t.added = s.added
        /\ t.bin = s.bin /\ t.bout = s.bout /\ t.pending = s.pending
    BY <1>1, HelloFields
  <2>3. t.added <= Len(Folders[c])
    BY <2>2, <1>1 DEF Shape
  <2> HIDE DEF t
  <2>4. /\ Shape(c, proto_add_next_folder(c, t))
        /\ proto_add_next_folder(c, t).bin = t.bin
        /\ proto_add_next_folder(c, t).added = t.added
        /\ \E cmd \in Commands : /\ proto_add_next_folder(c, t).bout = Append(t.bout, cmd)
                                 /\ Following(c, proto_add_next_folder(c, t), cmd)
        /\ \/ /\ proto_add_next_folder(c, t).state = "ADDING_FOLDERS"
              /\ proto_add_next_folder(c, t).pending = t.pending
           \/ /\ proto_add_next_folder(c, t).state = "NORMAL"
              /\ proto_add_next_folder(c, t).pending = t.pending + 1
    BY <2>2, <2>3, NextFolderFields
  <2> HIDE DEF r
  <2>5. Advances(c, s, line, r)
    BY <1>3, <2>1, <2>2, <2>4, Zenon DEF Advances
  <2> QED
    BY <2>1, <2>2, <2>4, <2>5, Zenon DEF r
<1>4. CASE line.tag = "OK" /\ s.state = "ADDING_FOLDERS"
  <2> DEFINE n == s.added + 1
             t == [s EXCEPT !.added = n]
  <2>1. r = proto_add_next_folder(c, t)
    BY <1>4 DEF proto_process_line, ProcessOk, ProcessFolderOk
  <2>2. n \in Nat /\ n <= Len(Folders[c])
    BY <1>1, <1>4 DEF Shape
  <2> HIDE DEF n
  <2>3. /\ t \in ConnRecords /\ t.state = "ADDING_FOLDERS" /\ t.added = n
        /\ t.bin = s.bin /\ t.bout = s.bout /\ t.pending = s.pending
    BY <1>1, <1>4, <2>2 DEF ConnRecords, CStates
  <2> HIDE DEF t
  <2>4. /\ Shape(c, proto_add_next_folder(c, t))
        /\ proto_add_next_folder(c, t).bin = t.bin
        /\ proto_add_next_folder(c, t).added = t.added
        /\ \E cmd \in Commands : /\ proto_add_next_folder(c, t).bout = Append(t.bout, cmd)
                                 /\ Following(c, proto_add_next_folder(c, t), cmd)
        /\ \/ /\ proto_add_next_folder(c, t).state = "ADDING_FOLDERS"
              /\ proto_add_next_folder(c, t).pending = t.pending
           \/ /\ proto_add_next_folder(c, t).state = "NORMAL"
              /\ proto_add_next_folder(c, t).pending = t.pending + 1
    BY <2>2, <2>3, NextFolderFields
  <2> HIDE DEF r
  <2>5. Advances(c, s, line, r)
    BY <1>4, <2>1, <2>3, <2>4, Zenon DEF Advances, n
  <2> QED
    BY <2>1, <2>3, <2>4, <2>5, Zenon DEF r
<1>5. CASE line.tag \in Statuses /\ s.state = "NORMAL"
  <2> DEFINE k == IF s.pending > 0 THEN s.pending - 1 ELSE s.pending
  <2>1. r = ProcessStatus(s) /\ r = [s EXCEPT !.pending = k]
    BY <1>5 DEF proto_process_line, ProcessOk, ProcessNo, ProcessStatus
  <2>2. k \in Nat
    BY <1>1
  <2> HIDE DEF k, r
  <2>3. r \in ConnRecords /\ r.bin = s.bin /\ r.state = s.state /\ r.added = s.added
    BY <1>1, <2>1, <2>2 DEF ConnRecords
  <2>4. Shape(c, r)
    BY <2>3 DEF Shape
  <2>5. Settles(s, line, r)
    BY <1>5, <2>1 DEF Settles
  <2> QED
    BY <2>3, <2>4, <2>5 DEF r
<1>6. CASE line.tag \in Statuses /\ s.state = "PENALTY_BOX"
  <2>1. r = s
    BY <1>6 DEF proto_process_line, ProcessOk, ProcessNo
  <2>2. IsQuiet(s, line, r)
    BY <1>6, <2>1 DEF IsQuiet
  <2> QED
    BY <2>1, <2>2
<1>7. CASE line.tag \in {"UPDATE", "RESET"}
  <2>1. r \in {connection_do_update(c, s, line.arg), connection_do_reset(c, s, line.arg)}
    BY <1>7 DEF proto_process_line
  <2> HIDE DEF r
  <2>2. /\ r \in ConnRecords
        /\ r.bin = s.bin /\ r.bout = s.bout /\ r.state = s.state
        /\ r.added = s.added /\ r.pending = s.pending
    BY <1>1, <2>1, EventFields
  <2>3. Shape(c, r)
    BY <2>2 DEF Shape
  <2>4. IsQuiet(s, line, r)
    BY <1>7, <2>2 DEF IsQuiet
  <2> QED
    BY <2>2, <2>3, <2>4 DEF r
<1>8. CASE line.tag = "DATAREQUEST" /\ s.state = "NORMAL" /\ have
  <2> DEFINE cmd == Command("DATARESPONSE", NoArg)
             sent == Send(s, cmd)
             count == sent.pending + 1
  <2>1. r = [sent EXCEPT !.pending = count]
    BY <1>8 DEF proto_process_line, ProcessDataRequest, Respond
  <2>2. cmd \in Commands
    BY DEF Command, Commands
  <2> HIDE DEF r, cmd
  <2>3. /\ sent \in ConnRecords /\ sent.bout = Append(s.bout, cmd)
        /\ sent.bin = s.bin /\ sent.state = s.state
        /\ sent.added = s.added /\ sent.pending = s.pending
    BY <1>1, <2>2, SendFields
  <2> HIDE DEF sent
  <2>4. count \in Nat /\ count = s.pending + 1
    BY <1>1, <2>3
  <2> HIDE DEF count
  <2>5. /\ r \in ConnRecords /\ r.bout = sent.bout /\ r.bin = sent.bin
        /\ r.state = sent.state /\ r.added = sent.added /\ r.pending = count
    BY <2>1, <2>3, <2>4 DEF ConnRecords
  <2>6. Shape(c, r)
    BY <2>3, <2>5 DEF Shape
  <2>7. line.tag \notin Statuses
    BY <1>8
  <2>8. Responds(s, line, r)
    BY <1>8, <2>2, <2>3, <2>4, <2>5, <2>7, Zenon DEF Responds
  <2> QED
    BY <2>3, <2>5, <2>6, <2>8 DEF r
<1>9. CASE line.tag = "NOTE" \/ (line.tag = "DATAREQUEST" /\ ~(s.state = "NORMAL" /\ have))
  <2>1. r = s
    BY <1>9 DEF proto_process_line, ProcessDataRequest
  <2>2. IsQuiet(s, line, r)
    BY <1>9, <2>1 DEF IsQuiet
  <2> QED
    BY <2>1, <2>2
<1> QED
  BY <1>1, <1>2, <1>3, <1>4, <1>5, <1>6, <1>7, <1>8, <1>9 DEF LineTags, CStates, Closes

-------------------------------------------------------------------------------
(* What a step may do to the record s of connection c, r being the next    *)

Opens(s, r)     == WantsRetry(s) /\ r = proto_init_conn(s)
Polls(s, r)     == WantsPoll(s) /\ r = proto_poll_conn(s)
Waits(s, r)     == \E k \in 0 .. 2 * MaxPenalty : r = [s EXCEPT !.wait = k]
Reads(s, r, in) == \E q \in Seq(in) : r = [s EXCEPT !.bin = q]
Shuts(s, r)     == r = connection_close(s)
Writes(s, r)    == \E n \in 0 .. Len(s.bout) : r = Written(s, n)

Processes(c, s, r) ==
    /\ s.bin # <<>>
    /\ \E have \in BOOLEAN :
         r = proto_process_line(c, [s EXCEPT !.bin = Tail(@)], Head(s.bin), have)

HandlerStep(c, s, r, in) ==
    \/ r = s \/ Opens(s, r) \/ Polls(s, r) \/ Reads(s, r, in)
    \/ Shuts(s, r) \/ Writes(s, r) \/ Processes(c, s, r)

RecordStep(c, s, r, in) == HandlerStep(c, s, r, in) \/ Waits(s, r)

(* No operation of proto.c takes a record out of its shape.                *)
LEMMA ShapeStep ==
  ASSUME NEW c \in Conns, NEW s, Shape(c, s), NEW r, RecordStep(c, s, r, Lines)
  PROVE  Shape(c, r)
<1>0. s \in ConnRecords
  BY DEF Shape
<1>1. CASE Opens(s, r)
  BY <1>0, <1>1 DEF Opens, WantsRetry, proto_init_conn, Shape, ConnRecords, CStates
<1>2. CASE Polls(s, r)
  BY <1>0, <1>2, PollFields DEF Polls, WantsPoll, Shape
<1>3. CASE Waits(s, r)
  BY <1>0, <1>3 DEF Waits, Shape, ConnRecords
<1>4. CASE Reads(s, r, Lines)
  BY <1>4, ShapeBin DEF Reads
<1>5. CASE Shuts(s, r)
  BY <1>0, <1>5, CloseShape DEF Shuts
<1>6. CASE Writes(s, r)
  <2>1. PICK n \in 0 .. Len(s.bout) : r = Written(s, n)
    BY <1>6 DEF Writes
  <2> DEFINE rest == SubSeq(s.bout, n + 1, Len(s.bout))
             w == IF rest = <<>> THEN s.watch \ {"write"} ELSE s.watch
  <2>2. r = [s EXCEPT !.bout = rest, !.watch = w]
    BY <2>1 DEF Written
  <2>3. rest \in Seq(Commands) /\ w \in SUBSET {"read", "write"}
    BY <1>0, <2>1, CutSeq DEF ConnRecords
  <2> HIDE DEF rest, w
  <2>4. r \in ConnRecords /\ r.state = s.state /\ r.added = s.added
    BY <1>0, <2>2, <2>3 DEF ConnRecords
  <2> QED
    BY <2>4 DEF Shape
<1>7. CASE Processes(c, s, r)
  <2> DEFINE t == [s EXCEPT !.bin = Tail(@)]
             line == Head(s.bin)
  <2>1. PICK have \in BOOLEAN : r = proto_process_line(c, t, line, have)
    BY <1>7 DEF Processes
  <2>2. line \in Lines /\ Tail(s.bin) \in Seq(Lines)
    BY <1>0, <1>7, HeadTailProperties DEF Processes, ConnRecords
  <2>3. Shape(c, t)
    BY <2>2, ShapeBin
  <2> HIDE DEF t, line
  <2>4. CASE Closes(t, line)
    <3>1. r = connection_close(t)
      BY <2>1, <2>3, <2>4 DEF Closes, proto_process_line, ProcessNo
    <3> QED
      BY <2>3, <3>1, CloseShape DEF Shape
  <2>5. CASE ~Closes(t, line)
    BY <2>1, <2>2, <2>3, <2>5, LineEffect
  <2> QED
    BY <2>4, <2>5
<1> QED
  BY <1>1, <1>2, <1>3, <1>4, <1>5, <1>6, <1>7 DEF RecordStep, HandlerStep

-------------------------------------------------------------------------------
(* What an operation does to the fields these proofs are about *)

(* Folders, requests and events that are in connection c's configuration,  *)
(* where its back end speaks of none it was not told of.                   *)
Ours(c)        == {Folders[c][i] : i \in DOMAIN Folders[c]}
OurCommands(c) == {cmd \in Commands : cmd.verb = "FOLDER" => cmd.arg \in Ours(c)}
OurLines(c)    == {line \in Lines :
                     line.tag \in {"UPDATE", "RESET"} /\ "unknown" \notin Faults[c] =>
                       line.arg \in Ours(c)}

(* A request is queued, with the interface asked to wait for the output.   *)
Queues(c, s, r) == /\ r.watch = s.watch \cup {"write"}
                   /\ \E cmd \in OurCommands(c) : r.bout = Append(s.bout, cmd)

Leaves(s, r) == r.watch = s.watch /\ r.bout = s.bout

Shows(s, r) == r.flag = s.flag /\ r.biffed = s.biffed

(* The penalty is kept, or forgotten at the greeting.                      *)
Timed(s, r) == r.wait = s.wait /\ r.penalty \in {s.penalty, 1}

SameSide(s, r) == r.state = "PENALTY_BOX" <=> s.state = "PENALTY_BOX"

LEMMA SendQueues ==
  ASSUME NEW c, NEW s \in ConnRecords, NEW cmd \in OurCommands(c)
  PROVE  /\ Send(s, cmd) \in ConnRecords /\ Send(s, cmd).state = s.state
         /\ Queues(c, s, Send(s, cmd)) /\ Shows(s, Send(s, cmd)) /\ Timed(s, Send(s, cmd))
<1>1. /\ Send(s, cmd).watch = s.watch \cup {"write"}
      /\ Send(s, cmd).bout = Append(s.bout, cmd)
      /\ Send(s, cmd).flag = s.flag /\ Send(s, cmd).biffed = s.biffed
      /\ Send(s, cmd).wait = s.wait /\ Send(s, cmd).penalty = s.penalty
  BY DEF Send, ConnRecords
<1>2. cmd \in Commands
  BY DEF OurCommands
<1> QED
  BY <1>1, <1>2, SendFields DEF Queues, Shows, Timed

(* The same with the request counted: a poll, or a data item.              *)
LEMMA CountedQueues ==
  ASSUME NEW c, NEW s \in ConnRecords, NEW cmd \in OurCommands(c)
  PROVE  LET r == [Send(s, cmd) EXCEPT !.pending = @ + 1]
         IN  r.state = s.state /\ Queues(c, s, r) /\ Shows(s, r) /\ Timed(s, r)
<1> DEFINE t == Send(s, cmd)
           r == [t EXCEPT !.pending = t.pending + 1]
<1>1. t \in ConnRecords /\ t.state = s.state /\ Queues(c, s, t) /\ Shows(s, t) /\ Timed(s, t)
  BY SendQueues
<1> HIDE DEF t
<1>2. /\ r.state = t.state /\ r.watch = t.watch /\ r.bout = t.bout
      /\ r.flag = t.flag /\ r.biffed = t.biffed
  BY <1>1 DEF ConnRecords
<1>3. r.state = s.state /\ Queues(c, s, r) /\ Shows(s, r) /\ Timed(s, r)
  BY <1>1, <1>2 DEF Queues, Shows, Timed
<1> QED
  BY <1>3 DEF t

LEMMA PollQueues ==
  ASSUME NEW c, NEW s \in ConnRecords
  PROVE  /\ proto_poll_conn(s).state = s.state
         /\ Queues(c, s, proto_poll_conn(s)) /\ Shows(s, proto_poll_conn(s)) /\ Timed(s, proto_poll_conn(s))
<1>1. Command("POLL", NoArg) \in OurCommands(c)
  BY DEF Command, Commands, OurCommands
<1> QED
  BY <1>1, CountedQueues DEF proto_poll_conn

LEMMA NextFolderQueues ==
  ASSUME NEW c \in Conns, NEW s \in ConnRecords,
         s.state = "ADDING_FOLDERS", s.added <= Len(Folders[c])
  PROVE  LET r == proto_add_next_folder(c, s)
         IN  r.state # "PENALTY_BOX" /\ Queues(c, s, r) /\ Shows(s, r) /\ Timed(s, r)
<1> DEFINE r == proto_add_next_folder(c, s)
           normal == [s EXCEPT !.state = "NORMAL"]
           cmd == Command("FOLDER", Folders[c][s.added + 1])
<1>1. s.added \in Nat /\ Len(Folders[c]) \in Nat
  BY FoldersType DEF ConnRecords
<1>2. CASE s.added = Len(Folders[c])
  <2>1. r = proto_poll_conn(normal)
    BY <1>2 DEF proto_add_next_folder
  <2>2. /\ normal \in ConnRecords /\ normal.state = "NORMAL"
        /\ Leaves(s, normal) /\ Shows(s, normal) /\ Timed(s, normal)
    BY DEF ConnRecords, CStates, Leaves, Shows, Timed
  <2> HIDE DEF r, normal
  <2>3. r.state = "NORMAL" /\ Queues(c, normal, r) /\ Shows(normal, r) /\ Timed(normal, r)
    BY <2>1, <2>2, PollQueues
  <2>4. r.state # "PENALTY_BOX" /\ Queues(c, s, r) /\ Shows(s, r) /\ Timed(s, r)
    BY <2>2, <2>3 DEF Queues, Leaves, Shows, Timed
  <2> QED
    BY <2>4 DEF r
<1>3. CASE s.added # Len(Folders[c])
  <2>1. r = Send(s, cmd)
    BY <1>3 DEF proto_add_next_folder
  <2>2. s.added + 1 \in 1 .. Len(Folders[c])
    BY <1>1, <1>3
  <2>3. cmd \in OurCommands(c)
    BY <2>2, FoldersType DEF Command, Commands, OurCommands, Ours
  <2> HIDE DEF r, cmd
  <2>4. r.state # "PENALTY_BOX" /\ Queues(c, s, r) /\ Shows(s, r) /\ Timed(s, r)
    BY <2>1, <2>3, SendQueues
  <2> QED
    BY <2>4 DEF r
<1> QED
  BY <1>2, <1>3

(* A line that does not close the connection queues a request or leaves    *)
(* the output alone, and only events move the flags.                       *)
LEMMA LineQueues ==
  ASSUME NEW c \in Conns, NEW s, Shape(c, s), NEW line \in Lines,
         NEW have \in BOOLEAN, ~Closes(s, line)
  PROVE  LET r == proto_process_line(c, s, line, have)
         IN  /\ SameSide(s, r) /\ Timed(s, r)
             /\ Queues(c, s, r) \/ Leaves(s, r)
             /\ \/ Shows(s, r)
                \/ line.tag = "UPDATE" /\ r = connection_do_update(c, s, line.arg)
                \/ line.tag = "RESET" /\ r = connection_do_reset(c, s, line.arg)
<1> DEFINE r == proto_process_line(c, s, line, have)
<1> USE DEF Statuses
<1>1. /\ s \in ConnRecords /\ s.state \in CStates /\ s.added \in Nat /\ s.pending \in Nat
      /\ Len(Folders[c]) \in Nat
  BY FoldersType DEF Shape, ConnRecords
<1>2. line.tag \in LineTags
  BY DEF Lines
<1>3. CASE line.tag = "OK" /\ s.state = "WAIT_HELLO"
  <2> DEFINE t == [s EXCEPT !.penalty = 1, !.state = "ADDING_FOLDERS"]
  <2>1. r = proto_add_next_folder(c, t)
    BY <1>3 DEF proto_process_line, ProcessOk, ProcessHello
  <2>2. /\ t \in ConnRecords /\ t.state = "ADDING_FOLDERS" /\ t.added = s.added
        /\ t.watch = s.watch /\ t.bout = s.bout /\ Shows(s, t) /\ Timed(s, t)
    BY <1>1, HelloFields DEF Shows, Timed
  <2>3. t.added <= Len(Folders[c])
    BY <2>2 DEF Shape
  <2> HIDE DEF t, r
  <2>4. r.state # "PENALTY_BOX" /\ Queues(c, t, r) /\ Shows(t, r) /\ Timed(t, r)
    BY <2>1, <2>2, <2>3, NextFolderQueues
  <2>5. SameSide(s, r) /\ Queues(c, s, r) /\ Shows(s, r) /\ Timed(s, r)
    BY <1>3, <2>2, <2>4 DEF SameSide, Queues, Shows, Timed
  <2> QED
    BY <2>5 DEF r
<1>4. CASE line.tag = "OK" /\ s.state = "ADDING_FOLDERS"
  <2> DEFINE n == s.added + 1
             t == [s EXCEPT !.added = n]
  <2>1. r = proto_add_next_folder(c, t)
    BY <1>4 DEF proto_process_line, ProcessOk, ProcessFolderOk
  <2>2. n \in Nat /\ n <= Len(Folders[c])
    BY <1>1, <1>4 DEF Shape
  <2> HIDE DEF n
  <2>3. /\ t \in ConnRecords /\ t.state = "ADDING_FOLDERS" /\ t.added = n
        /\ t.watch = s.watch /\ t.bout = s.bout /\ Shows(s, t) /\ Timed(s, t)
    BY <1>1, <1>4, <2>2 DEF ConnRecords, CStates, Shows, Timed
  <2> HIDE DEF t, r
  <2>4. r.state # "PENALTY_BOX" /\ Queues(c, t, r) /\ Shows(t, r) /\ Timed(t, r)
    BY <2>1, <2>2, <2>3, NextFolderQueues
  <2>5. SameSide(s, r) /\ Queues(c, s, r) /\ Shows(s, r) /\ Timed(s, r)
    BY <1>4, <2>3, <2>4 DEF SameSide, Queues, Shows, Timed
  <2> QED
    BY <2>5 DEF r
<1>5. CASE line.tag \in Statuses /\ s.state \in {"NORMAL", "PENALTY_BOX"}
  <2> DEFINE k == IF s.state = "NORMAL" /\ s.pending > 0 THEN s.pending - 1 ELSE s.pending
  <2>1. r = s \/ r = [s EXCEPT !.pending = k]
    BY <1>5 DEF proto_process_line, ProcessOk, ProcessNo, ProcessStatus
  <2> HIDE DEF k, r
  <2>2. SameSide(s, r) /\ Leaves(s, r) /\ Shows(s, r) /\ Timed(s, r)
    BY <1>1, <2>1 DEF ConnRecords, SameSide, Leaves, Shows, Timed
  <2> QED
    BY <2>2 DEF r
<1>6. CASE line.tag = "UPDATE"
  <2>1. r = connection_do_update(c, s, line.arg)
    BY <1>6 DEF proto_process_line
  <2>2. SameSide(s, r) /\ Leaves(s, r) /\ Timed(s, r)
    BY <1>1, <2>1 DEF connection_do_update, ConnRecords, SameSide, Leaves, Timed
  <2> QED
    BY <1>6, <2>1, <2>2
<1>7. CASE line.tag = "RESET"
  <2>1. r = connection_do_reset(c, s, line.arg)
    BY <1>7 DEF proto_process_line
  <2>2. SameSide(s, r) /\ Leaves(s, r) /\ Timed(s, r)
    BY <1>1, <2>1 DEF connection_do_reset, ConnRecords, SameSide, Leaves, Timed
  <2> QED
    BY <1>7, <2>1, <2>2
<1>8. CASE line.tag = "DATAREQUEST" /\ s.state = "NORMAL" /\ have
  <2>1. r = [Send(s, Command("DATARESPONSE", NoArg)) EXCEPT !.pending = @ + 1]
    BY <1>8 DEF proto_process_line, ProcessDataRequest, Respond
  <2>2. Command("DATARESPONSE", NoArg) \in OurCommands(c)
    BY DEF Command, Commands, OurCommands
  <2> HIDE DEF r
  <2>3. r.state = s.state /\ Queues(c, s, r) /\ Shows(s, r) /\ Timed(s, r)
    BY <1>1, <2>1, <2>2, CountedQueues
  <2> QED
    BY <2>3 DEF SameSide, r
<1>9. CASE line.tag = "NOTE" \/ (line.tag = "DATAREQUEST" /\ ~(s.state = "NORMAL" /\ have))
  <2>1. r = s
    BY <1>9 DEF proto_process_line, ProcessDataRequest
  <2> QED
    BY <2>1 DEF SameSide, Leaves, Shows, Timed
<1> QED
  BY <1>1, <1>2, <1>3, <1>4, <1>5, <1>6, <1>7, <1>8, <1>9 DEF LineTags, CStates, Closes

-------------------------------------------------------------------------------
(* What the interface waits for *)

Watching(s) == /\ "write" \in s.watch <=> s.bout # <<>>
               /\ "read" \in s.watch <=> s.state # "PENALTY_BOX"

LEMMA QueuesWatching ==
  ASSUME NEW c, NEW s \in ConnRecords, Watching(s), NEW r, SameSide(s, r),
         Queues(c, s, r) \/ Leaves(s, r)
  PROVE  Watching(r)
<1>1. CASE Leaves(s, r)
  BY <1>1 DEF Leaves, SameSide, Watching
<1>2. CASE Queues(c, s, r)
  <2>1. PICK cmd \in Commands : r.bout = Append(s.bout, cmd)
    BY <1>2 DEF Queues, OurCommands
  <2>2. s.bout \in Seq(Commands)
    BY DEF ConnRecords
  <2>3. r.bout # <<>>
    <3>1. Len(r.bout) = Len(s.bout) + 1 /\ Len(s.bout) \in Nat
      BY <2>1, <2>2, AppendProperties, LenProperties
    <3> QED
      BY <3>1, EmptySeq
  <2> QED
    BY <1>2, <2>3 DEF Queues, SameSide, Watching
<1> QED
  BY <1>1, <1>2

LEMMA WatchStep ==
  ASSUME NEW c \in Conns, NEW s, Shape(c, s), Watching(s), NEW r,
         RecordStep(c, s, r, Lines)
  PROVE  Watching(r)
<1>0. s \in ConnRecords
  BY DEF Shape
<1>1. CASE Opens(s, r)
  BY <1>0, <1>1 DEF Opens, WantsRetry, proto_init_conn, ConnRecords, Watching
<1>2. CASE Polls(s, r)
  <2>1. r = proto_poll_conn(s)
    BY <1>2 DEF Polls
  <2> QED
    BY <1>0, <2>1, PollQueues, QueuesWatching DEF SameSide
<1>3. CASE Waits(s, r)
  BY <1>0, <1>3 DEF Waits, ConnRecords, Watching
<1>4. CASE Reads(s, r, Lines)
  BY <1>0, <1>4 DEF Reads, ConnRecords, Watching
<1>5. CASE Shuts(s, r)
  BY <1>0, <1>5 DEF Shuts, connection_close, ConnRecords, Watching
<1>6. CASE Writes(s, r)
  <2>1. PICK n \in 0 .. Len(s.bout) : r = Written(s, n)
    BY <1>6 DEF Writes
  <2> DEFINE rest == SubSeq(s.bout, n + 1, Len(s.bout))
             w == IF rest = <<>> THEN s.watch \ {"write"} ELSE s.watch
  <2>2. r = [s EXCEPT !.bout = rest, !.watch = w]
    BY <2>1 DEF Written
  <2>3. s.bout = <<>> => rest = <<>>
    <3>1. ASSUME s.bout = <<>> PROVE rest = <<>>
      <4>1. n = 0 /\ Len(s.bout) = 0
        BY <3>1, EmptySeq
      <4>2. rest \in Seq(Commands)
        BY <1>0, CutSeq DEF ConnRecords
      <4>3. rest = SubSeq(s.bout, 1, 0)
        BY <4>1
      <4>4. Len(rest) = 0
        BY <1>0, <4>1, <4>3, SubSeqProperties DEF ConnRecords
      <4> HIDE DEF rest
      <4> QED
        BY <4>2, <4>4, EmptySeq
    <3> QED
      BY <3>1
  <2> HIDE DEF rest
  <2>4. r.bout = rest /\ r.watch = w /\ r.state = s.state
    BY <1>0, <2>2 DEF ConnRecords
  <2> QED
    BY <1>0, <2>3, <2>4 DEF Watching, ConnRecords
<1>7. CASE Processes(c, s, r)
  <2> DEFINE t == [s EXCEPT !.bin = Tail(@)]
             line == Head(s.bin)
  <2>1. PICK have \in BOOLEAN : r = proto_process_line(c, t, line, have)
    BY <1>7 DEF Processes
  <2>2. line \in Lines /\ Tail(s.bin) \in Seq(Lines)
    BY <1>0, <1>7, HeadTailProperties DEF Processes, ConnRecords
  <2>3. Shape(c, t)
    BY <2>2, ShapeBin
  <2>4. Watching(t)
    BY <1>0 DEF ConnRecords, Watching
  <2> HIDE DEF t, line
  <2>5. CASE Closes(t, line)
    <3>1. r = connection_close(t)
      BY <2>1, <2>3, <2>5 DEF Closes, proto_process_line, ProcessNo
    <3> QED
      BY <3>1, <2>3 DEF connection_close, Shape, ConnRecords, Watching
  <2>6. CASE ~Closes(t, line)
    <3>1. SameSide(t, r) /\ (Queues(c, t, r) \/ Leaves(t, r))
      BY <2>1, <2>2, <2>3, <2>6, LineQueues
    <3> QED
      BY <2>3, <2>4, <3>1, QueuesWatching DEF Shape
  <2> QED
    BY <2>5, <2>6
<1> QED
  BY <1>1, <1>2, <1>3, <1>4, <1>5, <1>6, <1>7 DEF RecordStep, HandlerStep

-------------------------------------------------------------------------------
(* Back ends *)

(* Whatever a process does, its pipes and its record keep their types, and *)
(* those of the others stay as they are.                                   *)
LEMMA BackEndTypes ==
  ASSUME BackTypeOK, NEW c \in Conns, BackEndStep(c)
  PROVE  BackTypeOK'
<1>0. /\ toBack \in [Conns -> Seq(Commands)]
      /\ fromBack \in [Conns -> Seq(Lines)]
      /\ be \in [Conns -> BackEnds]
  BY DEF BackTypeOK
<1>1. ASSUME NEW line \in Lines, Say(c, line)
      PROVE  fromBack' \in [Conns -> Seq(Lines)]
  <2>1. Append(fromBack[c], line) \in Seq(Lines)
    BY <1>0, AppendProperties
  <2> QED
    BY <1>0, <1>1, <2>1 DEF Say
<1>2. \A t \in LineTags, f \in Names \cup {NoArg} : Line(t, f) \in Lines
  BY DEF Line, Lines
<1>3. Statuses \subseteq LineTags /\ Replies \subseteq LineTags
  BY RepliesAssumption DEF LineTags
<1>4. CASE Greet(c)
  <2>1. fromBack' \in [Conns -> Seq(Lines)]
    BY <1>1, <1>2, <1>3, <1>4 DEF Greet
  <2>2. be' \in [Conns -> BackEnds]
    BY <1>0, <1>4 DEF Greet, BackEnds
  <2> QED
    BY <1>0, <1>4, <2>1, <2>2 DEF Greet, BackTypeOK
<1>5. CASE Answer(c)
  <2> DEFINE cmd == Head(toBack[c])
  <2>1. PICK status \in Replies :
          /\ Say(c, Line(status, NoArg))
          /\ be' = [be EXCEPT ![c].known  = IF cmd.verb = "FOLDER" /\ status = "OK"
                                              THEN @ \cup {cmd.arg} ELSE @,
                              ![c].asking = FALSE]
    BY <1>5 DEF Answer
  <2>2. cmd \in Commands /\ Tail(toBack[c]) \in Seq(Commands)
    BY <1>0, <1>5, HeadTailProperties DEF Answer
  <2>3. fromBack' \in [Conns -> Seq(Lines)]
    BY <1>1, <1>2, <1>3, <2>1
  <2> DEFINE kn == IF cmd.verb = "FOLDER" /\ status = "OK"
                     THEN be[c].known \cup {cmd.arg} ELSE be[c].known
  <2>5. cmd.verb = "FOLDER" => cmd.arg \in Names
    BY <2>2 DEF Commands
  <2>6. be[c] \in BackEnds
    BY <1>0
  <2>7. kn \in SUBSET Names
    <3> HIDE DEF cmd
    <3> QED
      BY <2>5, <2>6 DEF BackEnds
  <2>8. be' = [be EXCEPT ![c] = [be[c] EXCEPT !.known = kn, !.asking = FALSE]]
    BY <1>0, <2>1
  <2> HIDE DEF kn
  <2>4. be' \in [Conns -> BackEnds]
    BY <1>0, <2>6, <2>7, <2>8 DEF BackEnds
  <2> QED
    BY <1>0, <1>5, <2>2, <2>3, <2>4 DEF Answer, BackTypeOK
<1>6. CASE Notify(c)
  <2>1. PICK f \in Spoken(c) :
          \/ Say(c, Line("UPDATE", f)) /\ be' = [be EXCEPT ![c].news = @ \cup {f}]
          \/ Say(c, Line("RESET", f)) /\ be' = [be EXCEPT ![c].news = @ \ {f}]
    BY <1>6 DEF Notify
  <2>2. f \in Names /\ be[c].news \in SUBSET Names
    BY <1>0 DEF BackEnds, Spoken
  <2>3. fromBack' \in [Conns -> Seq(Lines)]
    BY <1>1, <1>2, <2>1, <2>2 DEF LineTags
  <2>5. \A N \in SUBSET Names : [be[c] EXCEPT !.news = N] \in BackEnds
    BY <1>0 DEF BackEnds
  <2>6. be[c].news \cup {f} \in SUBSET Names /\ be[c].news \ {f} \in SUBSET Names
    BY <2>2
  <2>7. PICK N \in SUBSET Names : be' = [be EXCEPT ![c] = [be[c] EXCEPT !.news = N]]
    BY <1>0, <2>1, <2>6
  <2>4. be' \in [Conns -> BackEnds]
    BY <1>0, <2>5, <2>7
  <2> QED
    BY <1>0, <1>6, <2>3, <2>4 DEF Notify, BackTypeOK
<1>7. CASE Ask(c)
  <2>1. fromBack' \in [Conns -> Seq(Lines)]
    BY <1>1, <1>2, <1>7 DEF Ask, LineTags
  <2>2. be' \in [Conns -> BackEnds]
    BY <1>0, <1>7 DEF Ask, BackEnds
  <2> QED
    BY <1>0, <1>7, <2>1, <2>2 DEF Ask, BackTypeOK
<1>8. CASE Chatter(c)
  <2>1. fromBack' \in [Conns -> Seq(Lines)]
    BY <1>1, <1>2, <1>8 DEF Chatter, LineTags, Statuses
  <2> QED
    BY <1>0, <1>8, <2>1 DEF Chatter, BackTypeOK
<1>9. CASE Exit(c)
  <2>1. be' \in [Conns -> BackEnds]
    BY <1>0, <1>9 DEF Exit, BackEnds
  <2> QED
    BY <1>0, <1>9, <2>1 DEF Exit, BackTypeOK
<1> QED
  BY <1>4, <1>5, <1>6, <1>7, <1>8, <1>9 DEF BackEndStep

LEMMA BackEndOthers ==
  ASSUME BackTypeOK, NEW c \in Conns, BackEndStep(c), NEW d \in Conns, d # c
  PROVE  toBack'[d] = toBack[d] /\ fromBack'[d] = fromBack[d] /\ be'[d] = be[d]
BY DEF BackTypeOK, BackEndStep, Greet, Answer, Notify, Ask, Chatter, Exit, Say

-------------------------------------------------------------------------------
(* Nobody speaks of a folder that is not configured *)

Clean(c, s) == /\ s.bin \in Seq(OurLines(c))
               /\ s.bout \in Seq(OurCommands(c))

PipesClean(c) == /\ toBack[c] \in Seq(OurCommands(c))
                 /\ fromBack[c] \in Seq(OurLines(c))
                 /\ be[c].known \subseteq Ours(c)

LEMMA QueuesClean ==
  ASSUME NEW c, NEW s, Clean(c, s), NEW r, r.bin = s.bin,
         Queues(c, s, r) \/ Leaves(s, r)
  PROVE  Clean(c, r)
<1>1. CASE Leaves(s, r)
  BY <1>1 DEF Leaves, Clean
<1>2. CASE Queues(c, s, r)
  <2>1. PICK cmd \in OurCommands(c) : r.bout = Append(s.bout, cmd)
    BY <1>2 DEF Queues
  <2> QED
    BY <2>1, AppendProperties DEF Clean
<1> QED
  BY <1>1, <1>2

LEMMA CloseClean ==
  ASSUME NEW c, NEW s \in ConnRecords
  PROVE  Clean(c, connection_close(s))
BY EmptySeq DEF connection_close, ConnRecords, Clean

LEMMA CleanStep ==
  ASSUME NEW c \in Conns, NEW s, Shape(c, s), Clean(c, s), NEW r,
         RecordStep(c, s, r, OurLines(c))
  PROVE  Clean(c, r)
<1>0. s \in ConnRecords
  BY DEF Shape
<1>1. CASE Opens(s, r)
  BY <1>0, <1>1 DEF Opens, proto_init_conn, ConnRecords, Clean
<1>2. CASE Polls(s, r)
  <2>1. r = proto_poll_conn(s)
    BY <1>2 DEF Polls
  <2>2. r.bin = s.bin /\ Queues(c, s, r)
    BY <1>0, <2>1, PollFields, PollQueues
  <2> QED
    BY <2>2, QueuesClean
<1>3. CASE Waits(s, r)
  BY <1>0, <1>3 DEF Waits, ConnRecords, Clean
<1>4. CASE Reads(s, r, OurLines(c))
  BY <1>0, <1>4 DEF Reads, ConnRecords, Clean
<1>5. CASE Shuts(s, r)
  BY <1>0, <1>5, CloseClean DEF Shuts
<1>6. CASE Writes(s, r)
  <2>1. PICK n \in 0 .. Len(s.bout) : r = Written(s, n)
    BY <1>6 DEF Writes
  <2> DEFINE rest == SubSeq(s.bout, n + 1, Len(s.bout))
             w == IF rest = <<>> THEN s.watch \ {"write"} ELSE s.watch
  <2>2. r = [s EXCEPT !.bout = rest, !.watch = w]
    BY <2>1 DEF Written
  <2>3. rest \in Seq(OurCommands(c))
    BY <2>1, CutSeq DEF Clean
  <2> HIDE DEF rest, w
  <2> QED
    BY <1>0, <2>2, <2>3 DEF ConnRecords, Clean
<1>7. CASE Processes(c, s, r)
  <2> DEFINE t == [s EXCEPT !.bin = Tail(@)]
             line == Head(s.bin)
  <2>1. PICK have \in BOOLEAN : r = proto_process_line(c, t, line, have)
    BY <1>7 DEF Processes
  <2>2. line \in Lines /\ Tail(s.bin) \in Seq(Lines)
    BY <1>0, <1>7, HeadTailProperties DEF Processes, ConnRecords
  <2>3. Shape(c, t)
    BY <2>2, ShapeBin
  <2>4. Clean(c, t)
    <3>1. Tail(s.bin) \in Seq(OurLines(c))
      BY <1>7, HeadTailProperties DEF Processes, Clean
    <3> QED
      BY <1>0, <3>1 DEF ConnRecords, Clean
  <2> HIDE DEF t, line
  <2>5. CASE Closes(t, line)
    <3>1. r = connection_close(t)
      BY <2>1, <2>3, <2>5 DEF Closes, proto_process_line, ProcessNo
    <3> QED
      BY <3>1, <2>3, CloseClean DEF Shape
  <2>6. CASE ~Closes(t, line)
    <3>1. r.bin = t.bin /\ (Queues(c, t, r) \/ Leaves(t, r))
      BY <2>1, <2>2, <2>3, <2>6, LineEffect, LineQueues
    <3> QED
      BY <2>4, <3>1, QueuesClean
  <2> QED
    BY <2>5, <2>6
<1> QED
  BY <1>1, <1>2, <1>3, <1>4, <1>5, <1>6, <1>7 DEF RecordStep, HandlerStep

(* A line the back end may say, put at the end of the pipe.                *)
LEMMA SayClean ==
  ASSUME BackTypeOK, NEW c \in Conns, PipesClean(c), NEW line \in OurLines(c), Say(c, line)
  PROVE  fromBack'[c] \in Seq(OurLines(c))
<1>1. fromBack'[c] = Append(fromBack[c], line)
  BY DEF Say, BackTypeOK
<1> QED
  BY <1>1, AppendProperties DEF PipesClean

LEMMA BackEndClean ==
  ASSUME BackTypeOK, NEW c \in Conns, PipesClean(c), BackEndStep(c)
  PROVE  PipesClean(c)'
<1>0. /\ toBack \in [Conns -> Seq(Commands)]
      /\ be \in [Conns -> BackEnds] /\ be[c] \in BackEnds
  BY DEF BackTypeOK
<1>1. \A t \in LineTags \ {"UPDATE", "RESET"} : Line(t, NoArg) \in OurLines(c)
  BY DEF Line, Lines, OurLines
<1>2. Replies \subseteq LineTags \ {"UPDATE", "RESET"}
  BY RepliesAssumption DEF LineTags, Statuses
<1>3. CASE Greet(c)
  <2>1. fromBack'[c] \in Seq(OurLines(c))
    BY <1>1, <1>2, <1>3, SayClean DEF Greet
  <2> QED
    BY <1>0, <1>3, <2>1 DEF Greet, BackEnds, PipesClean
<1>4. CASE Answer(c)
  <2> DEFINE cmd == Head(toBack[c])
  <2>1. PICK status \in Replies :
          /\ Say(c, Line(status, NoArg))
          /\ be' = [be EXCEPT ![c].known  = IF cmd.verb = "FOLDER" /\ status = "OK"
                                              THEN @ \cup {cmd.arg} ELSE @,
                              ![c].asking = FALSE]
    BY <1>4 DEF Answer
  <2>2. cmd \in OurCommands(c) /\ Tail(toBack[c]) \in Seq(OurCommands(c))
    BY <1>4, HeadTailProperties DEF Answer, PipesClean
  <2>3. fromBack'[c] \in Seq(OurLines(c))
    BY <1>1, <1>2, <2>1, SayClean
  <2> DEFINE kn == IF cmd.verb = "FOLDER" /\ status = "OK"
                     THEN be[c].known \cup {cmd.arg} ELSE be[c].known
  <2>4. be' = [be EXCEPT ![c] = [be[c] EXCEPT !.known = kn, !.asking = FALSE]]
    BY <1>0, <2>1
  <2>5. kn \subseteq Ours(c)
    <3> HIDE DEF cmd
    <3> QED
      BY <2>2 DEF OurCommands, PipesClean
  <2>6. toBack'[c] = Tail(toBack[c])
    BY <1>0, <1>4 DEF Answer
  <2> HIDE DEF kn, cmd
  <2>7. be'[c].known = kn
    BY <1>0, <2>4 DEF BackEnds
  <2> QED
    BY <2>2, <2>3, <2>5, <2>6, <2>7 DEF PipesClean
<1>5. CASE Notify(c)
  <2>1. PICK f \in Spoken(c) :
          \/ Say(c, Line("UPDATE", f)) /\ be' = [be EXCEPT ![c].news = @ \cup {f}]
          \/ Say(c, Line("RESET", f)) /\ be' = [be EXCEPT ![c].news = @ \ {f}]
    BY <1>5 DEF Notify
  <2>2. f \in Names /\ ("unknown" \notin Faults[c] => f \in Ours(c))
    BY <1>0 DEF PipesClean, BackEnds, Spoken
  <2>3. \A t \in {"UPDATE", "RESET"} : Line(t, f) \in OurLines(c)
    BY <2>2 DEF Line, Lines, LineTags, OurLines
  <2>4. fromBack'[c] \in Seq(OurLines(c))
    BY <2>1, <2>3, SayClean
  <2>5. be'[c].known = be[c].known
    BY <1>0, <2>1 DEF BackEnds
  <2> QED
    BY <1>5, <2>4, <2>5 DEF Notify, PipesClean
<1>6. CASE Ask(c)
  <2>1. fromBack'[c] \in Seq(OurLines(c))
    BY <1>1, <1>6, SayClean DEF Ask, LineTags
  <2> QED
    BY <1>0, <1>6, <2>1 DEF Ask, BackEnds, PipesClean
<1>7. CASE Chatter(c)
  <2>1. fromBack'[c] \in Seq(OurLines(c))
    BY <1>1, <1>7, SayClean DEF Chatter, LineTags, Statuses
  <2> QED
    BY <1>7, <2>1 DEF Chatter, PipesClean
<1>8. CASE Exit(c)
  BY <1>0, <1>8 DEF Exit, BackEnds, PipesClean
<1> QED
  BY <1>3, <1>4, <1>5, <1>6, <1>7, <1>8 DEF BackEndStep

-------------------------------------------------------------------------------
(* The flag *)

(* The strcmp loops find each of our folders, at one position.             *)
LEMMA FirstMatchFound ==
  ASSUME NEW c \in Conns, NEW f \in Ours(c)
  PROVE  \E i \in Nat : FirstMatch(c, f) = {i}
<1>1. DOMAIN Folders[c] = 1 .. Len(Folders[c]) /\ Len(Folders[c]) \in Nat
  BY FoldersType, LenProperties
<1>2. Matches(c, f) \in SUBSET Nat
  BY <1>1 DEF Matches
<1>3. Matches(c, f) # {}
  BY DEF Matches, Ours
<1>4. PICK i \in Matches(c, f) : \A j \in Matches(c, f) : i <= j
  BY <1>2, <1>3, LeastElement
<1>5. \A j \in Matches(c, f) : j <= i => j = i
  BY <1>2, <1>4
<1>6. FirstMatch(c, f) = {i}
  BY <1>4, <1>5 DEF FirstMatch
<1> QED
  BY <1>2, <1>6

(* "image" for updates and "image-reset" for resets: whatever the flag     *)
(* was, the first leave it up and the second leave it down.                *)
ImagesConfigured ==
    \A c \in Conns, flag \in {"up", "down"} : /\ Performed(flag, Updates[c]) = "up"
                                              /\ Performed(flag, Resets[c]) = "down"

(* No back end speaks of a folder it was not told of.                      *)
OnlyToldFolders == \A c \in Conns : "unknown" \notin Faults[c]

FlagRight(s) == s.flag = "up" <=> s.biffed # {}

LEMMA UpdateRight ==
  ASSUME ImagesConfigured, NEW c \in Conns, NEW s \in ConnRecords, NEW f \in Ours(c)
  PROVE  FlagRight(connection_do_update(c, s, f))
<1> DEFINE r == connection_do_update(c, s, f)
<1>1. r.biffed = s.biffed \cup FirstMatch(c, f) /\ r.flag = Performed(s.flag, Updates[c])
  BY DEF connection_do_update, ConnRecords
<1>2. FirstMatch(c, f) # {}
  BY FirstMatchFound
<1>3. Performed(s.flag, Updates[c]) = "up"
  BY DEF ImagesConfigured, ConnRecords
<1> HIDE DEF r
<1>4. FlagRight(r)
  BY <1>1, <1>2, <1>3 DEF FlagRight
<1> QED
  BY <1>4 DEF r

LEMMA ResetRight ==
  ASSUME ImagesConfigured, NEW c \in Conns, NEW s \in ConnRecords, FlagRight(s),
         NEW f \in Ours(c)
  PROVE  FlagRight(connection_do_reset(c, s, f))
<1> DEFINE r == connection_do_reset(c, s, f)
           M == FirstMatch(c, f)
<1>1. /\ r.biffed = s.biffed \ M
      /\ r.flag = IF ResetFires(c, s, f) THEN Performed(s.flag, Resets[c]) ELSE s.flag
  BY DEF connection_do_reset, ConnRecords
<1>2. PICK i \in Nat : M = {i}
  BY FirstMatchFound
<1>3. Performed(s.flag, Resets[c]) = "down"
  BY DEF ImagesConfigured, ConnRecords
<1> HIDE DEF r, M
<1>4. ResetFires(c, s, f) <=> s.biffed = {i}
  BY <1>2 DEF ResetFires, M
<1>5. FlagRight(r)
  <2>1. CASE s.biffed = {i}
    BY <1>1, <1>2, <1>3, <1>4, <2>1 DEF FlagRight
  <2>2. CASE s.biffed # {i}
    <3>1. s.biffed \ {i} # {} <=> s.biffed # {}
      BY <2>2
    <3> QED
      BY <1>1, <1>2, <1>4, <2>2, <3>1 DEF FlagRight
  <2> QED
    BY <2>1, <2>2
<1> QED
  BY <1>5 DEF r

LEMMA FlagStep ==
  ASSUME ImagesConfigured, NEW c \in Conns, "unknown" \notin Faults[c], NEW s,
         Shape(c, s), Clean(c, s), FlagRight(s), NEW r, RecordStep(c, s, r, OurLines(c))
  PROVE  FlagRight(r)
<1>0. s \in ConnRecords
  BY DEF Shape
<1>1. CASE Opens(s, r)
  BY <1>0, <1>1 DEF Opens, proto_init_conn, ConnRecords, FlagRight
<1>2. CASE Polls(s, r)
  BY <1>0, <1>2, PollQueues DEF Polls, Shows, FlagRight
<1>3. CASE Waits(s, r)
  BY <1>0, <1>3 DEF Waits, ConnRecords, FlagRight
<1>4. CASE Reads(s, r, OurLines(c))
  BY <1>0, <1>4 DEF Reads, ConnRecords, FlagRight
<1>5. CASE Shuts(s, r)
  BY <1>0, <1>5 DEF Shuts, connection_close, ConnRecords, FlagRight
<1>6. CASE Writes(s, r)
  BY <1>0, <1>6 DEF Writes, Written, ConnRecords, FlagRight
<1>7. CASE Processes(c, s, r)
  <2> DEFINE t == [s EXCEPT !.bin = Tail(@)]
             line == Head(s.bin)
  <2>1. PICK have \in BOOLEAN : r = proto_process_line(c, t, line, have)
    BY <1>7 DEF Processes
  <2>2. line \in OurLines(c) /\ line \in Lines /\ Tail(s.bin) \in Seq(Lines)
    BY <1>0, <1>7, HeadTailProperties DEF Processes, Clean, ConnRecords
  <2>3. Shape(c, t)
    BY <2>2, ShapeBin
  <2>4. FlagRight(t)
    BY <1>0 DEF ConnRecords, FlagRight
  <2> HIDE DEF t, line
  <2>5. t \in ConnRecords
    BY <2>3 DEF Shape
  <2>6. CASE Closes(t, line)
    <3>1. r = connection_close(t)
      BY <2>1, <2>3, <2>6 DEF Closes, proto_process_line, ProcessNo
    <3> QED
      BY <2>5, <3>1 DEF connection_close, ConnRecords, FlagRight
  <2>7. CASE ~Closes(t, line)
    <3>1. \/ Shows(t, r)
          \/ line.tag = "UPDATE" /\ r = connection_do_update(c, t, line.arg)
          \/ line.tag = "RESET" /\ r = connection_do_reset(c, t, line.arg)
      BY <2>1, <2>2, <2>3, <2>7, LineQueues
    <3>2. line.tag \in {"UPDATE", "RESET"} => line.arg \in Ours(c)
      BY <2>2 DEF OurLines
    <3>3. CASE Shows(t, r)
      BY <2>4, <3>3 DEF Shows, FlagRight
    <3>4. CASE line.tag = "UPDATE" /\ r = connection_do_update(c, t, line.arg)
      BY <2>5, <3>2, <3>4, UpdateRight
    <3>5. CASE line.tag = "RESET" /\ r = connection_do_reset(c, t, line.arg)
      BY <2>4, <2>5, <3>2, <3>5, ResetRight
    <3> QED
      BY <3>1, <3>3, <3>4, <3>5
  <2> QED
    BY <2>6, <2>7
<1> QED
  BY <1>1, <1>2, <1>3, <1>4, <1>5, <1>6, <1>7 DEF RecordStep, HandlerStep
-------------------------------------------------------------------------------
(* What an interface makes of a record *)

RecordInv(c, s) == Shape(c, s) /\ s.watch = {}

(* Every step of the specification does one of these to each record: what  *)
(* a handler does, the interface having taken what it asked for; the end   *)
(* of a data request, in whatever state it finds the connection; time.     *)
Muted(s) == [s EXCEPT !.watch = {}]

Answers(s, q) == s.bin # <<>> /\ q = Respond([s EXCEPT !.bin = Tail(@)])

Ages(s, r) == r = [s EXCEPT !.wait = IF @ > 0 THEN @ - 1 ELSE 0]

LoopStepOf(c, s, r, in) ==
    \/ HandlerStep(c, s, r, in) /\ r.watch = {}
    \/ \E q : HandlerStep(c, s, q, in) /\ r = Muted(q)
    \/ \E q : Answers(s, q) /\ r = Muted(q)
    \/ Ages(s, r)

LEMMA MutedFields ==
  ASSUME NEW s \in ConnRecords
  PROVE  /\ Muted(s) \in ConnRecords /\ Muted(s).watch = {}
         /\ Muted(s).state = s.state /\ Muted(s).added = s.added
         /\ Muted(s).pending = s.pending /\ Muted(s).wait = s.wait
         /\ Muted(s).penalty = s.penalty /\ Muted(s).biffed = s.biffed
         /\ Muted(s).bin = s.bin /\ Muted(s).bout = s.bout /\ Muted(s).flag = s.flag
BY DEF Muted, ConnRecords

LEMMA InitRecord ==
  /\ connection_init \in ConnRecords
  /\ connection_init.state = "PENALTY_BOX" /\ connection_init.wait = 0
  /\ connection_init.bin = <<>> /\ connection_init.bout = <<>>
  /\ \A c \in Conns : RecordInv(c, connection_init)
<1>1. /\ connection_init \in ConnRecords
      /\ connection_init.added = 0 /\ connection_init.state = "PENALTY_BOX"
      /\ connection_init.watch = {} /\ connection_init.penalty = 1
      /\ connection_init.wait = 0
      /\ connection_init.bin = <<>> /\ connection_init.bout = <<>>
  BY EmptySeq, PenaltyAssumption DEF connection_init, ConnRecords, CStates
<1>2. ASSUME NEW c \in Conns PROVE RecordInv(c, connection_init)
  <2>1. Shape(c, connection_init)
    BY <1>1, FoldersType DEF Shape
  <2> QED
    BY <1>1, <2>1 DEF RecordInv
<1> QED
  BY <1>1, <1>2

LEMMA InitFields ==
  ASSUME NEW s \in ConnRecords
  PROVE  /\ Muted(proto_init_conn(s)).state = "WAIT_HELLO"
         /\ Muted(proto_init_conn(s)).bin = s.bin /\ Muted(proto_init_conn(s)).bout = s.bout
BY DEF Muted, proto_init_conn, ConnRecords

LEMMA AnswersFields ==
  ASSUME NEW s \in ConnRecords, NEW q, Answers(s, q)
  PROVE  /\ q \in ConnRecords /\ q.watch = s.watch \cup {"write"}
         /\ q.bin = Tail(s.bin) /\ q.state = s.state /\ q.added = s.added
         /\ Shows(s, q) /\ Timed(s, q)
         /\ q.bout = Append(s.bout, Command("DATARESPONSE", NoArg))
<1> DEFINE t == [s EXCEPT !.bin = Tail(@)]
           cmd == Command("DATARESPONSE", NoArg)
           u == Send(t, cmd)
<1>1. s.bin # <<>> /\ q = Respond(t)
  BY DEF Answers
<1>2. Tail(s.bin) \in Seq(Lines)
  BY <1>1, HeadTailProperties DEF ConnRecords
<1>3. /\ t \in ConnRecords /\ t.watch = s.watch /\ t.bin = Tail(s.bin)
      /\ t.state = s.state /\ t.added = s.added /\ t.bout = s.bout
      /\ Shows(s, t) /\ Timed(s, t) /\ t.pending = s.pending
  BY <1>2 DEF ConnRecords, Shows, Timed
<1>4. cmd \in Commands /\ cmd \in OurCommands(0)
  BY DEF Command, Commands, OurCommands
<1>5. q = [u EXCEPT !.pending = @ + 1]
  BY <1>1 DEF Respond
<1> HIDE DEF t, cmd, u
<1>6. /\ u \in ConnRecords /\ u.bin = t.bin /\ u.state = t.state /\ u.added = t.added
      /\ u.bout = Append(t.bout, cmd)
      /\ u.watch = t.watch \cup {"write"} /\ Shows(t, u) /\ Timed(t, u)
  <2>1. Queues(0, t, u) /\ Shows(t, u) /\ Timed(t, u)
    BY <1>3, <1>4, SendQueues DEF u
  <2>2. /\ u \in ConnRecords /\ u.bin = t.bin /\ u.state = t.state /\ u.added = t.added
        /\ u.bout = Append(t.bout, cmd)
    BY <1>3, <1>4, SendFields DEF u
  <2> QED
    BY <2>1, <2>2 DEF Queues
<1>7. /\ q \in ConnRecords /\ q.bin = u.bin /\ q.state = u.state /\ q.added = u.added
      /\ q.bout = u.bout /\ q.watch = u.watch /\ Shows(u, q) /\ Timed(u, q)
  <2> DEFINE n == u.pending + 1
  <2>1. q = [u EXCEPT !.pending = n] /\ n \in Nat
    BY <1>5, <1>6, SMTT(30) DEF ConnRecords
  <2> HIDE DEF n
  <2> QED
    BY <1>6, <2>1 DEF ConnRecords, Shows, Timed
<1>8. Shows(s, q) /\ Timed(s, q)
  BY <1>3, <1>6, <1>7 DEF Shows, Timed
<1> QED
  BY <1>3, <1>6, <1>7, <1>8 DEF cmd

LEMMA RecordInvStep ==
  ASSUME NEW c \in Conns, NEW s, RecordInv(c, s), NEW r, LoopStepOf(c, s, r, Lines)
  PROVE  RecordInv(c, r)
<1>0. s \in ConnRecords /\ Shape(c, s) /\ s.watch = {}
  BY DEF RecordInv, Shape
<1>1. ASSUME NEW q, Shape(c, q), r = Muted(q) PROVE RecordInv(c, r)
  <2>1. q \in ConnRecords
    BY <1>1 DEF Shape
  <2>2. Shape(c, r)
    BY <1>1, <2>1, MutedFields DEF Shape
  <2> QED
    BY <1>1, <2>1, <2>2, MutedFields DEF RecordInv
<1>2. ASSUME NEW q, HandlerStep(c, s, q, Lines) PROVE Shape(c, q)
  BY <1>0, <1>2, ShapeStep DEF RecordStep
<1>3. CASE HandlerStep(c, s, r, Lines) /\ r.watch = {}
  BY <1>2, <1>3 DEF RecordInv
<1>4. ASSUME NEW q, HandlerStep(c, s, q, Lines), r = Muted(q) PROVE RecordInv(c, r)
  BY <1>1, <1>2, <1>4
<1>5. ASSUME NEW q, Answers(s, q), r = Muted(q) PROVE RecordInv(c, r)
  <2>1. q \in ConnRecords /\ q.state = s.state /\ q.added = s.added
    BY <1>0, <1>5, AnswersFields
  <2>2. Shape(c, q)
    BY <1>0, <2>1 DEF Shape
  <2> QED
    BY <1>1, <1>5, <2>2
<1>6. CASE Ages(s, r)
  <2> DEFINE k == IF s.wait > 0 THEN s.wait - 1 ELSE 0
  <2>1. k \in 0 .. 2 * MaxPenalty
    BY <1>0, PenaltyAssumption DEF ConnRecords
  <2>2. r = [s EXCEPT !.wait = k]
    BY <1>6 DEF Ages
  <2> HIDE DEF k
  <2>3. Waits(s, r) /\ r.watch = {}
    BY <1>0, <2>1, <2>2 DEF Waits, ConnRecords
  <2>4. Shape(c, r)
    BY <1>0, <2>3, ShapeStep DEF RecordStep
  <2> QED
    BY <2>3, <2>4 DEF RecordInv
<1> QED
  BY <1>3, <1>4, <1>5, <1>6 DEF LoopStepOf

-------------------------------------------------------------------------------
(* The record as Frontend has it: what is watched goes by the record, and  *)
(* bin holds the lines that count as read.                                 *)
Needs(s) == IF s.state = "PENALTY_BOX" THEN {}
               ELSE IF s.bout = <<>> THEN {"read"} ELSE {"read", "write"}
With(s, w, bin) == [s EXCEPT !.watch = w, !.bin = bin]
View(s, bin) == With(s, Needs(s), bin)

LEMMA WithFields ==
  ASSUME NEW s \in ConnRecords, NEW w \in SUBSET {"read", "write"}, NEW bin \in Seq(Lines)
  PROVE  /\ With(s, w, bin) \in ConnRecords /\ With(s, w, bin).watch = w
         /\ With(s, w, bin).state = s.state /\ With(s, w, bin).added = s.added
         /\ With(s, w, bin).pending = s.pending /\ With(s, w, bin).wait = s.wait
         /\ With(s, w, bin).penalty = s.penalty /\ With(s, w, bin).biffed = s.biffed
         /\ With(s, w, bin).bin = bin /\ With(s, w, bin).bout = s.bout /\ With(s, w, bin).flag = s.flag
BY DEF With, ConnRecords

LEMMA ViewFields ==
  ASSUME NEW s \in ConnRecords, NEW bin \in Seq(Lines)
  PROVE  /\ View(s, bin) \in ConnRecords
         /\ View(s, bin).watch = Needs(s) /\ View(s, bin).bin = bin
         /\ View(s, bin).state = s.state /\ View(s, bin).pending = s.pending
         /\ View(s, bin).wait = s.wait /\ View(s, bin).bout = s.bout
<1>1. Needs(s) \in SUBSET {"read", "write"}
  BY DEF Needs
<1> QED
  BY <1>1, WithFields DEF View

(* The functions of proto.c ask for what they need besides what is watched *)
(* already, and do the same to the rest of the record.                     *)
Besides(w, bin, q, r) == q = With(r, w \cup r.watch, bin)

LEMMA SendBesides ==
  ASSUME NEW s \in ConnRecords, s.watch = {}, NEW w \in SUBSET {"read", "write"}, NEW bin \in Seq(Lines), NEW cmd
  PROVE  Besides(w, bin, Send(With(s, w, bin), cmd), Send(s, cmd))
BY DEF Besides, With, Send, ConnRecords

LEMMA CountedBesides ==
  ASSUME NEW s \in ConnRecords, s.watch = {}, NEW w \in SUBSET {"read", "write"}, NEW bin \in Seq(Lines), NEW cmd
  PROVE  Besides(w, bin, [Send(With(s, w, bin), cmd) EXCEPT !.pending = @ + 1],
                       [Send(s, cmd) EXCEPT !.pending = @ + 1])
BY ZenonT(60) DEF Besides, With, Send, ConnRecords

LEMMA SameBesides ==
  ASSUME NEW s \in ConnRecords, s.watch = {}, NEW w \in SUBSET {"read", "write"}, NEW bin \in Seq(Lines)
  PROVE  Besides(w, bin, With(s, w, bin), s)
BY DEF Besides, With, ConnRecords

LEMMA SettledBesides ==
  ASSUME NEW s \in ConnRecords, s.watch = {}, NEW w \in SUBSET {"read", "write"}, NEW bin \in Seq(Lines), NEW k
  PROVE  Besides(w, bin, [With(s, w, bin) EXCEPT !.pending = k], [s EXCEPT !.pending = k])
BY DEF Besides, With, ConnRecords

LEMMA BiffedBesides ==
  ASSUME NEW s \in ConnRecords, s.watch = {}, NEW w \in SUBSET {"read", "write"}, NEW bin \in Seq(Lines),
         NEW b, NEW f
  PROVE  Besides(w, bin, [With(s, w, bin) EXCEPT !.biffed = b, !.flag = f],
                       [s EXCEPT !.biffed = b, !.flag = f])
<1> DEFINE r == [s EXCEPT !.biffed = b, !.flag = f]
<1>1. r.watch = {} /\ DOMAIN r = DOMAIN s
  BY DEF ConnRecords
<1>2. [With(s, w, bin) EXCEPT !.biffed = b, !.flag = f] = With(r, w, bin)
  BY DEF With, ConnRecords
<1>3. w \cup r.watch = w
  BY <1>1
<1> HIDE DEF r
<1> QED
  BY <1>2, <1>3 DEF Besides, r

LEMMA NextFolderBesides ==
  ASSUME NEW c \in Conns, NEW s \in ConnRecords, s.watch = {}, NEW w \in SUBSET {"read", "write"}, NEW bin \in Seq(Lines)
  PROVE  Besides(w, bin, proto_add_next_folder(c, With(s, w, bin)), proto_add_next_folder(c, s))
<1> DEFINE t == [s EXCEPT !.state = "NORMAL"]
<1>1. t \in ConnRecords /\ t.watch = {}
  BY DEF ConnRecords, CStates
<1>2. [With(s, w, bin) EXCEPT !.state = "NORMAL"] = With(t, w, bin)
  BY DEF With, ConnRecords
<1>3. With(s, w, bin).added = s.added
  BY WithFields
<1> HIDE DEF t
<1>4. CASE s.added = Len(Folders[c])
  <2>1. proto_add_next_folder(c, s) = proto_poll_conn(t)
    BY <1>4 DEF proto_add_next_folder, t
  <2>2. proto_add_next_folder(c, With(s, w, bin)) = proto_poll_conn(With(t, w, bin))
    BY <1>2, <1>3, <1>4 DEF proto_add_next_folder
  <2> QED
    BY <1>1, <2>1, <2>2, CountedBesides DEF proto_poll_conn
<1>5. CASE s.added # Len(Folders[c])
  <2>1. proto_add_next_folder(c, s) = Send(s, Command("FOLDER", Folders[c][s.added + 1]))
    BY <1>5 DEF proto_add_next_folder
  <2>2. proto_add_next_folder(c, With(s, w, bin))
          = Send(With(s, w, bin), Command("FOLDER", Folders[c][s.added + 1]))
    BY <1>3, <1>5 DEF proto_add_next_folder
  <2> QED
    BY <2>1, <2>2, SendBesides
<1> QED
  BY <1>4, <1>5

LEMMA LineBesides ==
  ASSUME NEW c \in Conns, NEW s \in ConnRecords, s.watch = {}, NEW w \in SUBSET {"read", "write"}, NEW bin \in Seq(Lines),
         NEW line \in Lines, NEW have \in BOOLEAN, ~Closes(s, line)
  PROVE  Besides(w, bin, proto_process_line(c, With(s, w, bin), line, have),
                    proto_process_line(c, s, line, have))
<1> DEFINE v == With(s, w, bin)
           q == proto_process_line(c, v, line, have)
           r == proto_process_line(c, s, line, have)
<1> USE DEF Statuses
<1>0. /\ v \in ConnRecords /\ v.state = s.state /\ v.pending = s.pending /\ v.added = s.added
      /\ v.biffed = s.biffed /\ v.flag = s.flag /\ v = With(s, w, bin)
      /\ s.state \in CStates /\ s.added \in Nat /\ s.pending \in Nat
  <2>1. s.state \in CStates /\ s.added \in Nat /\ s.pending \in Nat
    BY DEF ConnRecords
  <2> QED
    BY <2>1, WithFields
<1>1. line.tag \in LineTags
  BY DEF Lines
<1>2. v = With(s, w, bin)
  OBVIOUS
<1> HIDE DEF v
<1>3. CASE line.tag = "OK" /\ s.state = "WAIT_HELLO"
  <2> DEFINE t == [s EXCEPT !.penalty = 1, !.state = "ADDING_FOLDERS"]
  <2>1. q = proto_add_next_folder(c, [v EXCEPT !.penalty = 1, !.state = "ADDING_FOLDERS"])
    BY <1>0, <1>3 DEF proto_process_line, ProcessOk, ProcessHello
  <2>2. r = proto_add_next_folder(c, t)
    BY <1>3 DEF proto_process_line, ProcessOk, ProcessHello
  <2>3. t \in ConnRecords /\ t.watch = {}
    BY <1>3, HelloFields
  <2>4. [v EXCEPT !.penalty = 1, !.state = "ADDING_FOLDERS"] = With(t, w, bin)
    BY <1>0 DEF With, ConnRecords
  <2> HIDE DEF t, q, r
  <2>5. Besides(w, bin, q, r)
    BY <2>1, <2>2, <2>3, <2>4, NextFolderBesides
  <2> QED
    BY <2>5 DEF q, r, v
<1>4. CASE line.tag = "OK" /\ s.state = "ADDING_FOLDERS"
  <2> DEFINE n == s.added + 1
             t == [s EXCEPT !.added = n]
  <2>1. q = proto_add_next_folder(c, [v EXCEPT !.added = n])
    BY <1>0, <1>4 DEF proto_process_line, ProcessOk, ProcessFolderOk
  <2>2. r = proto_add_next_folder(c, t)
    BY <1>4 DEF proto_process_line, ProcessOk, ProcessFolderOk
  <2>3. n \in Nat
    BY <1>0
  <2> HIDE DEF n
  <2>4. t \in ConnRecords /\ t.watch = {}
    BY <2>3 DEF ConnRecords
  <2>5. [v EXCEPT !.added = n] = With(t, w, bin)
    BY <1>0 DEF With, ConnRecords
  <2> HIDE DEF t, q, r
  <2>6. Besides(w, bin, q, r)
    BY <2>1, <2>2, <2>4, <2>5, NextFolderBesides
  <2> QED
    BY <2>6 DEF q, r, v
<1>5. CASE line.tag \in Statuses /\ s.state \in {"NORMAL", "PENALTY_BOX"}
  <2> DEFINE k == IF s.state = "NORMAL" /\ s.pending > 0 THEN s.pending - 1 ELSE s.pending
  <2>1. r = [s EXCEPT !.pending = k]
    BY <1>0, <1>5 DEF proto_process_line, ProcessOk, ProcessNo, ProcessStatus, ConnRecords
  <2>2. q = [v EXCEPT !.pending = k]
    <3>1. v.state \in {"NORMAL", "PENALTY_BOX"} /\ v.pending = s.pending /\ v.state = s.state
      BY <1>0, <1>5
    <3>2. [v EXCEPT !.pending = v.pending] = v
      BY <1>0 DEF ConnRecords
    <3> QED
      BY <1>0, <1>5, <3>1, <3>2 DEF proto_process_line, ProcessOk, ProcessNo, ProcessStatus
  <2> HIDE DEF k, q, r
  <2>3. q = [With(s, w, bin) EXCEPT !.pending = k]
    BY <1>2, <2>2
  <2>4. Besides(w, bin, [With(s, w, bin) EXCEPT !.pending = k], [s EXCEPT !.pending = k])
    BY SettledBesides
  <2>5. Besides(w, bin, q, r)
    BY <2>1, <2>3, <2>4
  <2> QED
    BY <2>5 DEF q, r, v
<1>6. ASSUME NEW b, NEW f,
             r = [s EXCEPT !.biffed = b, !.flag = f], q = [v EXCEPT !.biffed = b, !.flag = f]
      PROVE  Besides(w, bin, q, r)
  <2> HIDE DEF q, r
  <2>1. q = [With(s, w, bin) EXCEPT !.biffed = b, !.flag = f]
    BY <1>2, <1>6
  <2>2. Besides(w, bin, [With(s, w, bin) EXCEPT !.biffed = b, !.flag = f],
                        [s EXCEPT !.biffed = b, !.flag = f])
    BY BiffedBesides
  <2> QED
    BY <1>6, <2>1, <2>2
<1>9. CASE line.tag = "UPDATE"
  <2> DEFINE b == s.biffed \cup FirstMatch(c, line.arg)
             f == Performed(s.flag, Updates[c])
  <2>1. r = [s EXCEPT !.biffed = b, !.flag = f]
    BY <1>9 DEF proto_process_line, connection_do_update
  <2>2. q = [v EXCEPT !.biffed = b, !.flag = f]
    <3>1. q = [v EXCEPT !.biffed = v.biffed \cup FirstMatch(c, line.arg),
                        !.flag = Performed(v.flag, Updates[c])]
      BY <1>9 DEF proto_process_line, connection_do_update
    <3>2. v.biffed = s.biffed /\ v.flag = s.flag
      BY <1>0
    <3> QED
      BY <3>1, <3>2
  <2> HIDE DEF b, f, q, r
  <2>3. Besides(w, bin, q, r)
    BY <1>6, <2>1, <2>2
  <2> QED
    BY <2>3 DEF q, r, v
<1>10. CASE line.tag = "RESET"
  <2> DEFINE b == s.biffed \ FirstMatch(c, line.arg)
             f == IF ResetFires(c, s, line.arg) THEN Performed(s.flag, Resets[c]) ELSE s.flag
  <2>1. r = [s EXCEPT !.biffed = b, !.flag = f]
    BY <1>10 DEF proto_process_line, connection_do_reset
  <2>2. q = [v EXCEPT !.biffed = b, !.flag = f]
    <3>1. q = [v EXCEPT !.biffed = v.biffed \ FirstMatch(c, line.arg),
                        !.flag = IF ResetFires(c, v, line.arg)
                                 THEN Performed(v.flag, Resets[c]) ELSE v.flag]
      BY <1>10 DEF proto_process_line, connection_do_reset
    <3>2. v.biffed = s.biffed /\ v.flag = s.flag
      BY <1>0
    <3>3. ResetFires(c, v, line.arg) <=> ResetFires(c, s, line.arg)
      BY <3>2 DEF ResetFires
    <3> QED
      BY <3>1, <3>2, <3>3
  <2> HIDE DEF b, f, q, r
  <2>3. Besides(w, bin, q, r)
    BY <1>6, <2>1, <2>2
  <2> QED
    BY <2>3 DEF q, r, v
<1>7. CASE line.tag = "DATAREQUEST" /\ s.state = "NORMAL" /\ have
  <2>1. /\ q = [Send(v, Command("DATARESPONSE", NoArg)) EXCEPT !.pending = @ + 1]
        /\ r = [Send(s, Command("DATARESPONSE", NoArg)) EXCEPT !.pending = @ + 1]
    BY <1>0, <1>7 DEF proto_process_line, ProcessDataRequest, Respond
  <2> HIDE DEF q, r
  <2>2. Besides(w, bin, q, r)
    BY <1>0, <2>1, CountedBesides
  <2> QED
    BY <2>2 DEF q, r, v
<1>8. CASE line.tag = "NOTE" \/ (line.tag = "DATAREQUEST" /\ ~(s.state = "NORMAL" /\ have))
  <2>1. q = v /\ r = s
    BY <1>0, <1>8 DEF proto_process_line, ProcessDataRequest
  <2> HIDE DEF q, r
  <2>2. Besides(w, bin, q, r)
    BY <1>0, <2>1, SameBesides
  <2> QED
    BY <2>2 DEF q, r, v
<1> QED
  BY <1>0, <1>1, <1>3, <1>4, <1>5, <1>7, <1>8, <1>9, <1>10 DEF LineTags, CStates, Closes

(* The same of each handler, with what has to be watched from then on.     *)
LEMMA CloseViews ==
  ASSUME NEW s \in ConnRecords, NEW w, NEW bin
  PROVE  /\ View(connection_close(s), <<>>) = connection_close(s)
         /\ connection_close(With(s, w, bin)) = connection_close(s)
<1>1. connection_close(s).watch = {} /\ connection_close(s).state = "PENALTY_BOX"
  BY DEF connection_close, ConnRecords
<1>2. View(connection_close(s), <<>>) = connection_close(s)
  BY <1>1 DEF View, Needs, With, connection_close, ConnRecords
<1> QED
  BY <1>2, ZenonT(60) DEF With, connection_close, ConnRecords

LEMMA BinViews ==
  ASSUME NEW s \in ConnRecords, NEW q, NEW bin
  PROVE  View([s EXCEPT !.bin = q], bin) = View(s, bin)
BY DEF View, Needs, With, ConnRecords

LEMMA BinSet ==
  ASSUME NEW s \in ConnRecords, NEW old, NEW bin
  PROVE  [View(s, old) EXCEPT !.bin = bin] = View(s, bin)
BY DEF View, Needs, With, ConnRecords

LEMMA AgedViews ==
  ASSUME NEW s \in ConnRecords, NEW bin \in Seq(Lines)
  PROVE  View([s EXCEPT !.wait = IF @ > 0 THEN @ - 1 ELSE 0], bin)
           = [View(s, bin) EXCEPT !.wait = IF @ > 0 THEN @ - 1 ELSE 0]
<1> DEFINE n == IF s.wait > 0 THEN s.wait - 1 ELSE 0
<1>1. View(s, bin).wait = s.wait
  BY ViewFields
<1>2. View([s EXCEPT !.wait = n], bin) = [View(s, bin) EXCEPT !.wait = n]
  BY DEF View, Needs, With, ConnRecords
<1> QED
  BY <1>1, <1>2

LEMMA InitViews ==
  ASSUME NEW s \in ConnRecords, s.state = "PENALTY_BOX", s.bout = <<>>, NEW bin
  PROVE  View(Muted(proto_init_conn(s)), bin) = proto_init_conn(View(s, bin))
<1>1. Needs(s) = {} /\ Needs(Muted(proto_init_conn(s))) = {"read"}
  BY InitFields DEF Needs
<1> QED
  BY <1>1 DEF View, With, Muted, proto_init_conn, ConnRecords

LEMMA Longer ==
  ASSUME NEW s \in Seq(Commands), NEW cmd \in Commands
  PROVE  Append(s, cmd) # <<>>
BY AppendProperties

(* A record in which something was added to what is to be written.         *)
LEMMA GrownViews ==
  ASSUME NEW s \in ConnRecords, NEW r \in ConnRecords, s.state # "PENALTY_BOX", r.state # "PENALTY_BOX",
         \/ r.watch = {"write"} /\ r.bout # <<>>
         \/ r.watch = {} /\ r.bout = s.bout,
         NEW bin
  PROVE  View(Muted(r), bin) = With(r, Needs(s) \cup r.watch, bin)
<1>1. Needs(Muted(r)) = Needs(s) \cup r.watch
  BY MutedFields DEF Needs
<1>2. View(Muted(r), bin) = With(Muted(r), Needs(s) \cup r.watch, bin)
  BY <1>1 DEF View
<1> DEFINE w == Needs(s) \cup r.watch
<1> HIDE DEF w
<1>3. With(Muted(r), w, bin) = With(r, w, bin)
  BY DEF With, Muted, ConnRecords
<1> QED
  BY <1>2, <1>3 DEF w

LEMMA WrittenViews ==
  ASSUME NEW s \in ConnRecords, s.state # "PENALTY_BOX", NEW n \in 1 .. Len(s.bout),
         NEW bin \in Seq(Lines)
  PROVE  View(Written(s, n), bin) = Written(View(s, bin), n)
<1> DEFINE rest == SubSeq(s.bout, n + 1, Len(s.bout))
           w == Needs(s)
           v == IF rest = <<>> THEN w \ {"write"} ELSE w
           u == IF rest = <<>> THEN s.watch \ {"write"} ELSE s.watch
<1>1. s.bout \in Seq(Commands)
  BY DEF ConnRecords
<1>2. s.bout # <<>>
  BY <1>1, CutMore
<1>3. Written(s, n) = [s EXCEPT !.bout = rest, !.watch = u]
  BY DEF Written
<1>4. View(s, bin).bout = s.bout /\ View(s, bin).watch = w
  BY ViewFields
<1>5. Written(View(s, bin), n) = [View(s, bin) EXCEPT !.bout = rest, !.watch = v]
  BY <1>4 DEF Written
<1>6. v = IF rest = <<>> THEN {"read"} ELSE {"read", "write"}
  BY <1>2 DEF Needs
<1> HIDE DEF rest, u, v, w
<1>7. Needs(Written(s, n)) = v
  BY <1>3, <1>6 DEF Needs, ConnRecords
<1>8. View(Written(s, n), bin) = With(Written(s, n), v, bin)
  BY <1>7 DEF View
<1>9. View(s, bin) = With(s, w, bin)
  BY DEF View, w
<1>10. With(Written(s, n), v, bin) = [s EXCEPT !.bout = rest, !.watch = v, !.bin = bin]
  BY <1>3 DEF With, ConnRecords
<1>11. [View(s, bin) EXCEPT !.bout = rest, !.watch = v]
         = [s EXCEPT !.bout = rest, !.watch = v, !.bin = bin]
  BY <1>9 DEF With, ConnRecords
<1> QED
  BY <1>5, <1>8, <1>10, <1>11

(* A poll of all connections looks at each.                                *)
PollOf(s) == IF WantsPoll(s) THEN proto_poll_conn(s) ELSE s

LEMMA PolledViews ==
  ASSUME NEW s \in ConnRecords, s.watch = {}, NEW bin \in Seq(Lines)
  PROVE  View(Muted(PollOf(s)), bin) = PollOf(View(s, bin))
<1> DEFINE r == proto_poll_conn(s)
           cmd == Command("POLL", NoArg)
<1>1. WantsPoll(View(s, bin)) <=> WantsPoll(s)
  BY ViewFields DEF WantsPoll
<1>2. CASE ~WantsPoll(s)
  <2>1. Muted(s) = s
    BY DEF Muted, ConnRecords
  <2> QED
    BY <1>1, <1>2, <2>1 DEF PollOf
<1>3. CASE WantsPoll(s)
  <2>1. s.state # "PENALTY_BOX" /\ r \in ConnRecords /\ r.state = s.state
    BY <1>3, PollFields DEF WantsPoll
  <2>2. r.watch = {"write"} /\ r.bout # <<>>
    <3>1. Queues(0, s, r) /\ s.bout \in Seq(Commands)
      BY PollQueues DEF ConnRecords
    <3> HIDE DEF r
    <3>2. r.watch = {"write"} /\ \E x \in Commands : r.bout = Append(s.bout, x)
      BY <3>1 DEF Queues, OurCommands
    <3> QED
      BY <3>1, <3>2, Longer
  <2>3. Needs(s) \in SUBSET {"read", "write"}
    BY DEF Needs
  <2>4. Besides(Needs(s), bin, proto_poll_conn(View(s, bin)), r)
    BY <2>3, CountedBesides DEF View, proto_poll_conn
  <2> HIDE DEF r
  <2>5. View(Muted(r), bin) = With(r, Needs(s) \cup r.watch, bin)
    BY <2>1, <2>2, GrownViews
  <2>6. View(Muted(r), bin) = proto_poll_conn(View(s, bin))
    BY <2>4, <2>5 DEF Besides
  <2> QED
    BY <1>1, <1>3, <2>6 DEF PollOf, r
<1> QED
  BY <1>2, <1>3

(* Processing a line, where the connection stays open.                     *)
LEMMA LineViews ==
  ASSUME NEW c \in Conns, NEW s, Shape(c, s), s.watch = {}, s.state # "PENALTY_BOX",
         NEW line \in Lines, NEW have \in BOOLEAN, ~Closes(s, line),
         NEW bin \in Seq(Lines)
  PROVE  View(Muted(proto_process_line(c, s, line, have)), bin)
           = proto_process_line(c, View(s, bin), line, have)
<1> DEFINE r == proto_process_line(c, s, line, have)
           w == Needs(s)
<1>1. s \in ConnRecords /\ s.bout \in Seq(Commands)
  BY DEF Shape, ConnRecords
<1>2. Shape(c, r)
  BY LineEffect
<1>3. SameSide(s, r) /\ (Queues(c, s, r) \/ Leaves(s, r))
  BY LineQueues
<1>4. w \in SUBSET {"read", "write"}
  BY DEF Needs
<1> HIDE DEF r
<1>5. /\ r.state # "PENALTY_BOX"
      /\ \/ r.watch = {"write"} /\ r.bout # <<>>
         \/ r.watch = {} /\ r.bout = s.bout
  BY <1>1, <1>3, Longer DEF SameSide, Queues, Leaves, OurCommands
<1>6. Besides(w, bin, proto_process_line(c, With(s, w, bin), line, have), r)
  BY <1>1, <1>4, LineBesides DEF r
<1>7. View(Muted(r), bin) = With(r, w \cup r.watch, bin)
  BY <1>1, <1>2, <1>5, GrownViews DEF Shape
<1> QED
  BY <1>6, <1>7 DEF Besides, View, r

-------------------------------------------------------------------------------
(* Descriptors *)

Numbers == [in : Fds, out : Fds]
Home(fds, e) == IF e.end = "in" THEN fds[e.of].in ELSE fds[e.of].out

(* A descriptor in use is the number an open connection keeps for that end.*)
Owned(file, fds, open) ==
    \A x \in Fds : file[x] # Free => file[x].of \in open /\ x = Home(fds, file[x])

(* So there are at most two for each, and enough are free for the others.  *)
LEMMA EnoughFree ==
  ASSUME NEW file \in Files, NEW fds \in [Conns -> FdPairs], NEW open \in SUBSET Conns,
         Owned(file, fds, open), NEW started \in SUBSET (Conns \ open),
         NEW free, free = {x \in Fds : file[x] = Free}
  PROVE  /\ free \in SUBSET Nat /\ IsFiniteSet(free)
         /\ Cardinality(started) \in Nat
         /\ 2 * Cardinality(started) + 1 <= Cardinality(free)
<1> DEFINE used == {x \in Fds : file[x] # Free}
           two == {"in", "out"}
           owner == [x \in used |-> <<file[x].of, file[x].end>>]
<1>1. MaxFd \in Nat /\ MaxFd >= 2 * Cardinality(Conns) + 4 /\ IsFiniteSet(Conns)
  BY FdAssumption
<1>2. IsFiniteSet(Fds) /\ Cardinality(Fds) = MaxFd - 2
  <2>1. Cardinality(Conns) \in Nat
    BY <1>1, FS_CardinalityType
  <2>2. ~(3 > MaxFd)
    BY <1>1, <2>1
  <2> QED
    BY <1>1, <2>2, FS_Interval DEF Fds
<1>3. /\ IsFiniteSet(used) /\ IsFiniteSet(free) /\ Cardinality(used) \in Nat
      /\ Cardinality(free) = Cardinality(Fds) - Cardinality(used)
  <2>1. used \subseteq Fds /\ free = Fds \ used /\ Fds \cap used = used
    OBVIOUS
  <2> HIDE DEF used
  <2>2. IsFiniteSet(used) /\ IsFiniteSet(free)
    BY <1>2, <2>1, FS_Subset
  <2>3. Cardinality(used) \in Nat
    BY <2>2, FS_CardinalityType
  <2>4. Cardinality(Fds \ used) = Cardinality(Fds) - Cardinality(Fds \cap used)
    BY <1>2, <2>2, FS_Difference
  <2> QED
    BY <2>1, <2>2, <2>3, <2>4, Zenon
<1>4. /\ IsFiniteSet(open) /\ IsFiniteSet(started)
      /\ Cardinality(open) \in Nat /\ Cardinality(started) \in Nat
      /\ Cardinality(open) + Cardinality(started) <= Cardinality(Conns)
      /\ Cardinality(Conns) \in Nat
  <2>1. IsFiniteSet(open) /\ IsFiniteSet(started)
    BY <1>1, FS_Subset
  <2>2. /\ Cardinality(open) \in Nat /\ Cardinality(started) \in Nat
        /\ Cardinality(Conns) \in Nat
    BY <1>1, <2>1, FS_CardinalityType
  <2>3. Cardinality(open \cup started) = Cardinality(open) + Cardinality(started)
    <3>1. open \cap started = {}
      OBVIOUS
    <3>2. Cardinality(open \cap started) = 0
      BY <3>1, FS_EmptySet
    <3>3. Cardinality(open \cup started)
            = Cardinality(open) + Cardinality(started) - Cardinality(open \cap started)
      BY <2>1, FS_Union
    <3> QED
      BY <2>2, <3>2, <3>3
  <2>4. Cardinality(open \cup started) <= Cardinality(Conns)
    <3>1. open \cup started \in SUBSET Conns
      OBVIOUS
    <3> QED
      BY <1>1, <3>1, FS_Subset
  <2> QED
    BY <2>1, <2>2, <2>3, <2>4
<1>5. IsFiniteSet(two) /\ Cardinality(two) = 2
  <2>1. IsFiniteSet({"in"}) /\ Cardinality({"in"}) = 1
    BY FS_Singleton
  <2>2. "out" \notin {"in"} /\ two = {"in"} \cup {"out"}
    OBVIOUS
  <2> HIDE DEF two
  <2>3. IsFiniteSet(two) /\ Cardinality(two) = Cardinality({"in"}) + 1
    BY <2>1, <2>2, FS_AddElement
  <2> QED
    BY <2>1, <2>3
<1>6. IsFiniteSet(open \X two) /\ Cardinality(open \X two) = 2 * Cardinality(open)
  <2> HIDE DEF two
  <2>1. /\ IsFiniteSet(open \X two)
        /\ Cardinality(open \X two) = Cardinality(open) * Cardinality(two)
    BY <1>4, <1>5, FS_Product
  <2> QED
    BY <1>4, <1>5, <2>1
<1>7. \A x \in used : /\ file[x] \in Ends /\ file[x].of \in open /\ file[x].end \in two
                      /\ x = Home(fds, file[x])
  BY DEF Owned, Files, Ends
<1>8. owner \in [used -> open \X two]
  BY <1>7
<1>9. Cardinality(used) <= 2 * Cardinality(open)
  <2>1. SUFFICES ASSUME 2 * Cardinality(open) < Cardinality(used) PROVE FALSE
    BY <1>3, <1>4
  <2>2. PICK x \in used, y \in used : x # y /\ owner[x] = owner[y]
    <3> HIDE DEF used, two, owner
    <3>1. Cardinality(open \X two) < Cardinality(used)
      BY <1>6, <2>1
    <3> QED
      BY <1>3, <1>6, <1>8, <3>1, FS_PigeonHole
  <2>3. file[x].of = file[y].of /\ file[x].end = file[y].end
    BY <2>2
  <2> QED
    BY <1>7, <2>2, <2>3 DEF Home
<1>10. free \in SUBSET Nat
  BY <1>1 DEF Fds
<1> HIDE DEF used, two, owner
<1> QED
  BY <1>1, <1>2, <1>3, <1>4, <1>9, <1>10

(* The n-th free descriptor exists, and is no other one.                   *)
LEMMA LowestFreeRank ==
  ASSUME NEW t, FreeFds(t) \in SUBSET Nat, IsFiniteSet(FreeFds(t)),
         NEW n \in Nat, 1 <= n, n <= Cardinality(FreeFds(t))
  PROVE  /\ LowestFree(t, n) \in FreeFds(t)
         /\ Cardinality(Below(FreeFds(t), LowestFree(t, n))) = n - 1
BY RankExists DEF LowestFree, Below

(* Several connections that are started are counted in their order.        *)
LEMMA NthRange ==
  ASSUME NEW started \in SUBSET Nat, IsFiniteSet(started), NEW c \in started
  PROVE  Nth(started, c) \in 1 .. Cardinality(started)
<1> DEFINE first == {d \in started : d <= c}
<1>1. c \in first /\ first \subseteq started
  OBVIOUS
<1> HIDE DEF first
<1>2. IsFiniteSet(first) /\ Cardinality(first) <= Cardinality(started)
  BY <1>1, FS_Subset
<1>3. Cardinality(first) # 0
  BY <1>1, <1>2, FS_EmptySet
<1>4. Cardinality(first) \in Nat /\ Cardinality(started) \in Nat
  BY <1>2, FS_CardinalityType
<1>5. Nth(started, c) = Cardinality(first)
  BY DEF Nth, first
<1> QED
  BY <1>2, <1>3, <1>4, <1>5

LEMMA NthDistinct ==
  ASSUME NEW started \in SUBSET Nat, IsFiniteSet(started),
         NEW c \in started, NEW d \in started, c < d
  PROVE  Nth(started, c) # Nth(started, d)
<1> DEFINE first(e) == {b \in started : b <= e}
<1>1. first(c) \subseteq first(d) /\ d \in first(d) /\ d \notin first(c)
  <2>1. c \in Nat /\ d \in Nat /\ d <= d /\ ~(d <= c)
    OBVIOUS
  <2>2. \A b \in started : b <= c => b <= d
    <3>1. \A b \in Nat : b <= c => b <= d
      BY <2>1
    <3> QED
      BY <3>1
  <2>3. d \in first(d) /\ d \notin first(c)
    BY <2>1
  <2> QED
    BY <2>2, <2>3
<1>2. IsFiniteSet(first(d))
  BY FS_Subset
<1> HIDE DEF first
<1>3. Cardinality(first(c)) # Cardinality(first(d))
  BY <1>1, <1>2, FS_Subset
<1> QED
  BY <1>3 DEF Nth, first

(* What xpopen2 does to a table: each connection that is started has both  *)
(* its ends, on descriptors that were free; everything else stays.         *)
PipesOf(c, file, pair) == /\ pair \in Numbers
                          /\ file[pair.in] = [of |-> c, end |-> "in"]
                          /\ file[pair.out] = [of |-> c, end |-> "out"]

LEMMA PipeNumbers ==
  ASSUME NEW t, t.file \in Files, t.fds \in [Conns -> FdPairs], Conns \subseteq Nat,
         NEW open \in SUBSET Conns, Owned(t.file, t.fds, open),
         NEW started \in SUBSET (Conns \ open)
  PROVE  /\ \A c \in started : /\ PipeOut(t, started, c) \in FreeFds(t)
                               /\ PipeIn(t, started, c) \in FreeFds(t)
         /\ \A c, d \in started :
              /\ PipeOut(t, started, c) # PipeIn(t, started, d)
              /\ c # d => /\ PipeOut(t, started, c) # PipeOut(t, started, d)
                          /\ PipeIn(t, started, c) # PipeIn(t, started, d)
<1> DEFINE free == FreeFds(t)
           rank(x) == Cardinality(Below(free, x))
<1>1. /\ free \in SUBSET Nat /\ IsFiniteSet(free)
      /\ Cardinality(started) \in Nat /\ IsFiniteSet(started) /\ started \in SUBSET Nat
      /\ 2 * Cardinality(started) + 1 <= Cardinality(free)
      /\ Cardinality(free) \in Nat
  <2>1. free = {x \in Fds : t.file[x] = Free}
    BY DEF FreeFds
  <2> HIDE DEF free
  <2>2. IsFiniteSet(started)
    BY FdAssumption, FS_Subset
  <2>3. /\ free \in SUBSET Nat /\ IsFiniteSet(free)
        /\ Cardinality(started) \in Nat
        /\ 2 * Cardinality(started) + 1 <= Cardinality(free)
    BY <2>1, EnoughFree, ZenonT(60)
  <2>4. Cardinality(free) \in Nat
    BY <2>3, FS_CardinalityType
  <2>5. started \in SUBSET Nat
    OBVIOUS
  <2> QED
    BY <2>2, <2>3, <2>4, <2>5
<1>2. \A c \in started : Nth(started, c) \in 1 .. Cardinality(started)
  BY <1>1, NthRange
<1>3. \A c, d \in started : c # d => Nth(started, c) # Nth(started, d)
  <2>1. \A c, d \in started : c < d => Nth(started, c) # Nth(started, d)
    BY <1>1, NthDistinct
  <2>2. \A c, d \in started : c # d => c < d \/ d < c
    BY <1>1
  <2> QED
    BY <2>1, <2>2
<1>4. ASSUME NEW n \in Nat, 1 <= n, n <= Cardinality(free)
      PROVE  LowestFree(t, n) \in free /\ rank(LowestFree(t, n)) = n - 1
  BY <1>1, <1>4, LowestFreeRank
<1>5. ASSUME NEW c \in started
      PROVE  /\ PipeOut(t, started, c) \in free
             /\ rank(PipeOut(t, started, c)) = 2 * Nth(started, c) - 1
  <2>1. PICK n \in Nat : n = 2 * Nth(started, c)
    BY <1>2
  <2>2. 1 <= n /\ n <= Cardinality(free)
    BY <1>1, <1>2, <2>1
  <2>3. PipeOut(t, started, c) = LowestFree(t, n)
    BY <2>1 DEF PipeOut
  <2> HIDE DEF free, rank
  <2> QED
    BY <1>4, <2>1, <2>2, <2>3
<1>6. ASSUME NEW c \in started
      PROVE  /\ PipeIn(t, started, c) \in free
             /\ rank(PipeIn(t, started, c)) = 2 * Nth(started, c)
  <2>1. PICK n \in Nat : n = 2 * Nth(started, c) + 1
    BY <1>2
  <2>2. 1 <= n /\ n <= Cardinality(free) /\ n - 1 = 2 * Nth(started, c)
    BY <1>1, <1>2, <2>1
  <2>3. PipeIn(t, started, c) = LowestFree(t, n)
    BY <2>1 DEF PipeIn
  <2> HIDE DEF free, rank
  <2> QED
    BY <1>4, <2>2, <2>3
<1>7. \A c, d \in started : /\ 2 * Nth(started, c) - 1 # 2 * Nth(started, d)
                            /\ c # d => /\ 2 * Nth(started, c) # 2 * Nth(started, d)
                                        /\ 2 * Nth(started, c) - 1 # 2 * Nth(started, d) - 1
  BY <1>2, <1>3
<1> HIDE DEF free, rank
<1>8. \A c \in started : PipeOut(t, started, c) \in FreeFds(t) /\ PipeIn(t, started, c) \in FreeFds(t)
  BY <1>5, <1>6 DEF free
<1>9. ASSUME NEW c \in started, NEW d \in started
      PROVE  /\ PipeOut(t, started, c) # PipeIn(t, started, d)
             /\ c # d => /\ PipeOut(t, started, c) # PipeOut(t, started, d)
                         /\ PipeIn(t, started, c) # PipeIn(t, started, d)
  <2>1. /\ rank(PipeOut(t, started, c)) # rank(PipeIn(t, started, d))
        /\ c # d => /\ rank(PipeOut(t, started, c)) # rank(PipeOut(t, started, d))
                    /\ rank(PipeIn(t, started, c)) # rank(PipeIn(t, started, d))
    BY <1>5, <1>6, <1>7
  <2> QED
    BY <2>1
<1> QED
  BY <1>8, <1>9

Repiped(t, file, fds) == [t EXCEPT !.file = file, !.fds = fds]

LEMMA PipesMade ==
  ASSUME NEW t, t.file \in Files, t.fds \in [Conns -> FdPairs], Conns \subseteq Nat,
         NEW open \in SUBSET Conns, Owned(t.file, t.fds, open),
         NEW started \in SUBSET (Conns \ open)
  PROVE  \E file \in Files, fds \in [Conns -> FdPairs] :
           /\ xpopen2(t, started) = Repiped(t, file, fds)
           /\ Owned(file, fds, open \cup started)
           /\ \A c \in started : PipesOf(c, file, fds[c])
           /\ \A c \in Conns \ started : fds[c] = t.fds[c]
           /\ \A x \in Fds : t.file[x] # Free => file[x] = t.file[x]
<1> DEFINE outs == [c \in started |-> PipeOut(t, started, c)]
           ins  == [c \in started |-> PipeIn(t, started, c)]
           Whose(x, ends) == {c \in started : ends[c] = x}
           file == [x \in Fds |->
              CASE Whose(x, outs) # {} -> [of |-> CHOOSE c \in Whose(x, outs) : TRUE, end |-> "out"]
                [] Whose(x, ins) # {}  -> [of |-> CHOOSE c \in Whose(x, ins) : TRUE, end |-> "in"]
                [] OTHER               -> t.file[x]]
           fds == [c \in Conns |->
              IF c \in started THEN [in |-> ins[c], out |-> outs[c]] ELSE t.fds[c]]
<1>1. t.file \in Files /\ t.fds \in [Conns -> FdPairs]
  OBVIOUS
<1>2. /\ \A c \in started : outs[c] \in FreeFds(t) /\ ins[c] \in FreeFds(t)
      /\ \A c, d \in started : /\ outs[c] # ins[d]
                               /\ c # d => outs[c] # outs[d] /\ ins[c] # ins[d]
  BY <1>1, PipeNumbers
<1>3. FreeFds(t) = {x \in Fds : t.file[x] = Free}
  BY DEF FreeFds
<1>4. xpopen2(t, started) = Repiped(t, file, fds)
  BY Zenon DEF xpopen2, Repiped
<1> HIDE DEF outs, ins
<1>5. ASSUME NEW c \in started PROVE file[outs[c]] = [of |-> c, end |-> "out"]
  <2>1. Whose(outs[c], outs) = {c} /\ Whose(outs[c], ins) = {}
    BY <1>2
  <2> HIDE DEF Whose
  <2>2. outs[c] \in Fds
    BY <1>2, <1>3
  <2> QED
    BY <2>1, <2>2
<1>6. ASSUME NEW c \in started PROVE file[ins[c]] = [of |-> c, end |-> "in"]
  <2>1. Whose(ins[c], ins) = {c} /\ Whose(ins[c], outs) = {}
    BY <1>2
  <2> HIDE DEF Whose
  <2>2. ins[c] \in Fds
    BY <1>2, <1>3
  <2> QED
    BY <2>1, <2>2
<1>7. ASSUME NEW x \in Fds, \A c \in started : x # outs[c] /\ x # ins[c]
      PROVE  file[x] = t.file[x]
  <2>1. Whose(x, ins) = {} /\ Whose(x, outs) = {}
    BY <1>7
  <2> HIDE DEF Whose
  <2> QED
    BY <2>1
<1>8. /\ \A c \in started : /\ fds[c] = [in |-> ins[c], out |-> outs[c]]
                             /\ fds[c].in = ins[c] /\ fds[c].out = outs[c]
      /\ \A c \in Conns \ started : fds[c] = t.fds[c]
  OBVIOUS
<1>9. DOMAIN file = Fds /\ file = [x \in Fds |-> file[x]]
  OBVIOUS
<1>10. DOMAIN fds = Conns /\ fds = [c \in Conns |-> fds[c]]
  OBVIOUS
<1> HIDE DEF file, fds, Whose
<1>11. ASSUME NEW x \in Fds
       PROVE  \/ \E c \in started : x = outs[c] /\ file[x] = [of |-> c, end |-> "out"]
              \/ \E c \in started : x = ins[c] /\ file[x] = [of |-> c, end |-> "in"]
              \/ file[x] = t.file[x]
  BY <1>5, <1>6, <1>7
<1>12. file \in Files
  <2>1. \A x \in Fds : file[x] \in Ends \cup {Free}
    <3>1. \A x \in Fds : t.file[x] \in Ends \cup {Free}
      BY <1>1 DEF Files
    <3>2. \A c \in started : /\ [of |-> c, end |-> "out"] \in Ends
                             /\ [of |-> c, end |-> "in"] \in Ends
      BY DEF Ends
    <3> QED
      BY <1>11, <3>1, <3>2
  <2> QED
    BY <1>9, <2>1 DEF Files
<1>13. fds \in [Conns -> FdPairs]
  <2>1. \A c \in started : [in |-> ins[c], out |-> outs[c]] \in FdPairs
    BY <1>2, <1>3 DEF FdPairs
  <2>2. \A c \in Conns : fds[c] \in FdPairs
    BY <1>1, <1>8, <2>1
  <2> QED
    BY <1>10, <2>2
<1>14. \A c \in started : PipesOf(c, file, fds[c])
  <2>1. \A c \in started : [in |-> ins[c], out |-> outs[c]] \in Numbers
    BY <1>2, <1>3 DEF Numbers
  <2>2. \A c \in started : /\ fds[c] \in Numbers
                           /\ fds[c].in = ins[c] /\ fds[c].out = outs[c]
    BY <1>8, <2>1
  <2> QED
    BY <1>5, <1>6, <2>2 DEF PipesOf
<1>15. \A x \in Fds : t.file[x] # Free => file[x] = t.file[x]
  BY <1>2, <1>3, <1>7
<1>16. ASSUME NEW x \in Fds, file[x] # Free
       PROVE  file[x].of \in open \cup started /\ x = Home(fds, file[x])
  <2>1. ASSUME NEW c \in started, x = outs[c], file[x] = [of |-> c, end |-> "out"]
        PROVE  file[x].of \in started /\ x = Home(fds, file[x])
    <3>1. file[x].of = c /\ file[x].end # "in"
      BY <2>1
    <3>2. fds[c].out = outs[c]
      BY <1>8
    <3> QED
      BY <2>1, <3>1, <3>2 DEF Home
  <2>2. ASSUME NEW c \in started, x = ins[c], file[x] = [of |-> c, end |-> "in"]
        PROVE  file[x].of \in started /\ x = Home(fds, file[x])
    <3>1. file[x].of = c /\ file[x].end = "in"
      BY <2>2
    <3>2. fds[c].in = ins[c]
      BY <1>8
    <3> QED
      BY <2>2, <3>1, <3>2 DEF Home
  <2>3. ASSUME file[x] = t.file[x] PROVE file[x].of \in open /\ x = Home(fds, file[x])
    <3>1. file[x].of \in open /\ x = Home(t.fds, file[x])
      BY <1>16, <2>3 DEF Owned
    <3>2. file[x].of \in Conns \ started
      BY <3>1
    <3> QED
      BY <1>8, <3>1, <3>2 DEF Home
  <2> QED
    BY <1>11, <2>1, <2>2, <2>3
<1>17. Owned(file, fds, open \cup started)
  BY <1>16 DEF Owned
<1> QED
  BY <1>4, <1>8, <1>12, <1>13, <1>14, <1>15, <1>17

(* What is left of the kernel's table when the numbers of c are closed.    *)
Emptied(t, c) == [x \in Fds |-> IF x \in {t.fds[c].in, t.fds[c].out} THEN Free ELSE t.file[x]]

(* The connections that have descriptors.                                  *)
OpenIn(records) == {c \in Conns : records[c].state # "PENALTY_BOX"}
===============================================================================
