--------------------------- MODULE FileBackEndProof ---------------------------
(***************************************************************************)
(* Proofs about FileBackEnd, for every set of files, everything that may   *)
(* happen to them, and every bound.                                        *)
(***************************************************************************)
EXTENDS FileBackEnd, Counting

-------------------------------------------------------------------------------
(* Types and statuses *)

FolderRecords == [name : Names, last_size : Nat, last_seen : BOOLEAN]
OutLines == [tag : Tags, arg : Names \cup {NoArg}]

(* The requests that get a status.                                         *)
Answerable == {r \in AllRequests : ~Dropped(r)}

(* The positions that are still to be checked are positions, and outside a *)
(* poll there are none.                                                    *)
InRange == \A k \in DOMAIN serving.left : serving.left[k] \in DOMAIN folders
Resting == serving.at # "poll" => serving.left = <<>>

(* StatusPerRequest, in terms of Counting.                                 *)
Busy == IF serving.at \in {"start", "poll"} THEN 1 ELSE 0
Counted == owed = Cardinality(Places(input, Answerable)) + Busy

StatusInv == /\ TypeOK
             /\ InRange
             /\ Resting
             /\ Counted

LEMMA RequestsCounted ==
  ASSUME NEW s \in Seq(AllRequests)
  PROVE  {k \in DOMAIN s : ~Dropped(s[k])} = Places(s, Answerable)
<1>1. \A k \in DOMAIN s : s[k] \in AllRequests
  BY LenProperties, ElementOfSeq
<1> QED
  BY <1>1 DEF Places, Answerable

(* The request main serves next.                                           *)
LEMMA NextTaken ==
  ASSUME NEW r, NextRequest(r), input \in Seq(AllRequests)
  PROVE  /\ r \in AllRequests /\ r = Head(input) /\ input # <<>>
         /\ input' \in Seq(AllRequests) /\ input' = Tail(input)
         /\ serving.at = "idle"
         /\ Cardinality(Places(input', Answerable)) \in Nat
         /\ ~Dropped(r) => Cardinality(Places(input, Answerable))
                             = Cardinality(Places(input', Answerable)) + 1
         /\ Dropped(r) => Cardinality(Places(input, Answerable))
                            = Cardinality(Places(input', Answerable))
<1>1. /\ r = Head(input) /\ input # <<>> /\ input' = Tail(input) /\ serving.at = "idle"
  BY DEF NextRequest
<1>2. r \in AllRequests /\ Tail(input) \in Seq(AllRequests)
  BY <1>1, HeadTailProperties
<1>3. r \in Answerable <=> ~Dropped(r)
  BY <1>2 DEF Answerable
<1> QED
  BY <1>1, <1>2, <1>3, PlacesTail, PlacesFinite

(* A line that is sent.                                                    *)
LEMMA SendType ==
  ASSUME output \in Seq(OutLines), owed \in Int,
         NEW tag \in Tags, NEW f \in Names \cup {NoArg}, netbiff_send(tag, f)
  PROVE  /\ output' \in Seq(OutLines) /\ owed' \in Int
         /\ tag \in {"OK", "NO", "BAD"} => owed' = owed - 1
         /\ tag \notin {"OK", "NO", "BAD"} => owed' = owed
<1>1. Line(tag, f) \in OutLines
  BY DEF Line, OutLines
<1> QED
  BY <1>1, AppendProperties DEF netbiff_send

LEMMA IdleType == Idle \in Servings /\ Idle.at = "idle" /\ Idle.left = <<>>
<1>1. <<>> \in Seq(Nat)
  BY EmptySeq
<1>2. [verb |-> "POLL", arg |-> NoArg] \in AllRequests
  BY DEF AllRequests, Verbs
<1> QED
  BY <1>1, <1>2 DEF Idle, Servings

LEMMA UpdateType ==
  ASSUME files \in [Names -> File], NEW f \in Names
  PROVE  update_folder(f) \in FolderRecords /\ update_folder(f).name = f
<1>1. files[f].size \in Nat
  BY BoundsAssumption DEF File
<1>2. Seen(files[f]) \in BOOLEAN
  BY NamesAssumption DEF Seen
<1> QED
  BY <1>1, <1>2 DEF update_folder, Folder, FolderRecords

LEMMA StatusInit == Init => StatusInv
<1> SUFFICES ASSUME Init PROVE StatusInv
  OBVIOUS
<1>1. serving \in Servings /\ serving.at = "start" /\ serving.left = <<>>
  BY IdleType DEF Init, Idle, Servings
<1>2. files \in [Names -> File] /\ now \in 1 .. MaxTime
  <2>1. 0 \in 0 .. MaxSize /\ 1 \in 0 .. MaxSize /\ 0 \in 0 .. MaxTime /\ 1 \in 0 .. MaxTime
        /\ 1 \in 1 .. MaxTime
    BY BoundsAssumption
  <2>2. Absent \in File /\ OneMail \in File
    BY <2>1 DEF Absent, OneMail, File
  <2> QED
    BY <2>1, <2>2 DEF Init
<1>3. past \in [Names -> History]
  BY DEF Init, Nothing, History
<1>4. TypeOK
  BY <1>1, <1>2, <1>3 DEF Init, TypeOK
<1>5. Counted
  <2>1. Cardinality(Places(input, Answerable)) = 0
    BY PlacesNone DEF Init
  <2> QED
    BY <1>1, <2>1 DEF Init, Counted, Busy
<1> QED
  BY <1>1, <1>4, <1>5 DEF StatusInv, InRange, Resting

(* What happens to a file keeps its type.                                  *)
LEMMA FileSystemType ==
  ASSUME TypeOK, FileSystem
  PROVE  /\ files' \in [Names -> File] /\ now' \in 1 .. MaxTime
         /\ past' \in [Names -> History]
<1>0. /\ files \in [Names -> File] /\ past \in [Names -> History] /\ now \in 1 .. MaxTime
      /\ now \in 0 .. MaxTime
  BY BoundsAssumption DEF TypeOK
<1>1. CASE Tick
  <2>1. now + 1 \in 1 .. MaxTime
    BY <1>0, <1>1, BoundsAssumption DEF Tick
  <2> QED
    BY <1>0, <1>1, <2>1 DEF Tick
<1>2. ASSUME NEW f \in Names, Deliver(f)
      PROVE  files' \in [Names -> File] /\ past' \in [Names -> History] /\ now' = now
  <2>1. files[f].size + 1 \in 0 .. MaxSize
    BY <1>0, <1>2, BoundsAssumption DEF Deliver, File
  <2>2. (IF files[f].there THEN files[f].atime ELSE now) \in 0 .. MaxTime
    BY <1>0 DEF File
  <2>3. files' \in [Names -> File]
    BY <1>0, <1>2, <2>1, <2>2 DEF Deliver, File
  <2> QED
    BY <1>0, <1>2, <2>3, ZenonT(60) DEF Deliver, History
<1>3. ASSUME NEW f \in Names, ReadMail(f)
      PROVE  files' \in [Names -> File] /\ past' \in [Names -> History] /\ now' = now
  <2>1. files' \in [Names -> File] /\ now' = now
    BY <1>0, <1>3 DEF ReadMail, File
  <2> DEFINE later == files[f].mtime < now
  <2>2. later \in BOOLEAN
    OBVIOUS
  <2>3. past' = [past EXCEPT ![f].new = FALSE, ![f].read = later]
    BY <1>3, Zenon DEF ReadMail
  <2> HIDE DEF later
  <2> QED
    BY <1>0, <2>1, <2>2, <2>3, ZenonT(60) DEF History
<1>4. ASSUME NEW f \in Names, Expunge(f)
      PROVE  files' \in [Names -> File] /\ past' \in [Names -> History] /\ now' = now
  <2>1. files[f].size - 1 \in 0 .. MaxSize
    BY <1>0, <1>4, BoundsAssumption DEF Expunge, File
  <2>2. files' \in [Names -> File]
    BY <1>0, <1>4, <2>1 DEF Expunge, File
  <2> QED
    BY <1>0, <1>4, <2>2, ZenonT(60) DEF Expunge, History
<1>5. ASSUME NEW f \in Names, Unlink(f)
      PROVE  files' \in [Names -> File] /\ past' \in [Names -> History] /\ now' = now
  <2>1. 0 \in 0 .. MaxSize /\ 0 \in 0 .. MaxTime
    BY BoundsAssumption
  <2>2. [Absent EXCEPT !.hidden = files[f].hidden] \in File
    BY <1>0, <2>1 DEF Absent, File
  <2>3. files' \in [Names -> File] /\ now' = now
    BY <1>0, <1>5, <2>2 DEF Unlink
  <2> QED
    BY <1>0, <1>5, <2>3, ZenonT(60) DEF Unlink, History
<1>6. ASSUME NEW f \in Names, Forbid(f)
      PROVE  files' \in [Names -> File] /\ past' \in [Names -> History] /\ now' = now
  BY <1>0, <1>6 DEF Forbid, File
<1> QED
  BY <1>0, <1>1, <1>2, <1>3, <1>4, <1>5, <1>6 DEF FileSystem

(* A check is of a folder of the list, and takes away one position.        *)
LEMMA CheckedFolder ==
  ASSUME StatusInv, serving.at = "poll", serving.left # <<>>
  PROVE  /\ Head(serving.left) \in DOMAIN folders
         /\ folders[Head(serving.left)] \in FolderRecords
         /\ Tail(serving.left) \in Seq(Nat)
         /\ \A i \in DOMAIN Tail(serving.left) : Tail(serving.left)[i] \in DOMAIN folders
<1>1. /\ serving.left \in Seq(Nat) /\ folders \in Seq(FolderRecords)
      /\ DOMAIN serving.left = 1 .. Len(serving.left) /\ Len(serving.left) \in Nat \ {0}
  BY LenProperties, EmptySeq DEF StatusInv, TypeOK, Servings, FolderRecords
<1>2. Head(serving.left) = serving.left[1] /\ 1 \in DOMAIN serving.left
  BY <1>1
<1>3. Head(serving.left) \in DOMAIN folders
  BY <1>2 DEF StatusInv, InRange
<1>4. /\ Tail(serving.left) \in Seq(Nat)
      /\ DOMAIN Tail(serving.left) = 1 .. Len(serving.left) - 1
      /\ \A i \in 1 .. Len(serving.left) - 1 : Tail(serving.left)[i] = serving.left[i + 1]
  BY <1>1, HeadTailProperties, LenProperties
<1>5. \A i \in DOMAIN Tail(serving.left) : Tail(serving.left)[i] \in DOMAIN folders
  <2>1. \A i \in 1 .. Len(serving.left) : serving.left[i] \in DOMAIN folders
    BY <1>1 DEF StatusInv, InRange
  <2>2. \A i \in 1 .. Len(serving.left) - 1 : Tail(serving.left)[i] \in DOMAIN folders
    BY <1>1, <1>4, <2>1
  <2> QED
    BY <1>4, <2>2
<1> QED
  BY <1>1, <1>3, <1>4, <1>5, ElementOfSeq, LenProperties

(* A check that succeeds: the folder's record becomes what update_folder   *)
(* makes of it, and at most an event is sent.                              *)
LEMMA CheckSucceeds ==
  ASSUME StatusInv, CheckFolder, ~files[folders[Head(serving.left)].name].hidden
  PROVE  LET k     == Head(serving.left)
             f     == folders[k].name
             event == EventFor(folders[k], update_folder(f))
         IN  /\ k \in DOMAIN folders /\ f \in Names /\ update_folder(f) \in FolderRecords
             /\ update_folder(f).name = f
             /\ event \in {"UPDATE", "RESET", "none"}
             /\ folders' = [folders EXCEPT ![k] = update_folder(f)]
             /\ \A g \in Names \ {f} : past'[g] = past[g]
             /\ past'[f] = [Nothing EXCEPT !.told = Told(past[f].told, event)]
             /\ past' \in [Names -> History]
             /\ IF event = "none" THEN Silent ELSE netbiff_send(event, f)
             /\ UNCHANGED <<input, files, now>>
             /\ serving' = [serving EXCEPT !.left = Tail(@)]
<1> DEFINE k     == Head(serving.left)
           f     == folders[k].name
           event == EventFor(folders[k], update_folder(f))
<1>1. k \in DOMAIN folders /\ folders[k] \in FolderRecords /\ f \in Names
  BY CheckedFolder DEF CheckFolder, FolderRecords
<1>2. update_folder(f) \in FolderRecords /\ update_folder(f).name = f
  BY <1>1, UpdateType DEF StatusInv, TypeOK
<1>3. event \in {"UPDATE", "RESET", "none"}
  <2> DEFINE old == folders[k]
             new == update_folder(f)
  <2>1. old.last_size \in Nat /\ new.last_size \in Nat
    BY <1>1, <1>2 DEF FolderRecords
  <2> HIDE DEF old, new
  <2>2. EventFor(old, new) \in {"UPDATE", "RESET", "none"}
    BY <2>1 DEF EventFor, Grew
  <2> QED
    BY <2>2 DEF old, new
<1>4. /\ folders' = [folders EXCEPT ![k] = update_folder(f)]
      /\ past' = [past EXCEPT ![f] = [Nothing EXCEPT !.told = Told(past[f].told, event)]]
      /\ IF event = "none" THEN Silent ELSE netbiff_send(event, f)
      /\ UNCHANGED <<input, files, now>>
      /\ serving' = [serving EXCEPT !.left = Tail(serving.left)]
  BY Zenon DEF CheckFolder
<1> HIDE DEF k, event
<1>5. past \in [Names -> History] /\ Told(past[f].told, event) \in BOOLEAN
  BY <1>1, Zenon DEF StatusInv, TypeOK, Told
<1>6. [Nothing EXCEPT !.told = Told(past[f].told, event)] \in History
  BY <1>5 DEF Nothing, History
<1>7. /\ \A g \in Names \ {f} : past'[g] = past[g]
      /\ past'[f] = [Nothing EXCEPT !.told = Told(past[f].told, event)]
      /\ past' \in [Names -> History]
  BY <1>1, <1>4, <1>5, <1>6, Zenon
<1> QED
  BY <1>1, <1>2, <1>3, <1>4, <1>7, Zenon DEF k, event

(* What a step of the back end takes from the input it answers, or keeps   *)
(* to answer.                                                              *)
LEMMA ProcessStatus == StatusInv /\ Process => StatusInv'
<1> SUFFICES ASSUME StatusInv, Process PROVE StatusInv'
  OBVIOUS
<1> DEFINE n == Cardinality(Places(input, Answerable))
           m == Cardinality(Places(input', Answerable))
<1>0. /\ input \in Seq(AllRequests) /\ output \in Seq(OutLines) /\ owed \in Int
      /\ folders \in Seq(FolderRecords) /\ serving \in Servings
      /\ files \in [Names -> File] /\ past \in [Names -> History] /\ now \in 1 .. MaxTime
      /\ n \in Nat
  BY PlacesFinite DEF StatusInv, TypeOK, FolderRecords, OutLines
<1>1. owed = n + Busy
  BY DEF StatusInv, Counted
<1> DEFINE Good == /\ input' \in Seq(AllRequests) /\ output' \in Seq(OutLines) /\ owed' \in Int
                   /\ folders' \in Seq(FolderRecords) /\ serving' \in Servings
                   /\ past' \in [Names -> History] /\ UNCHANGED <<files, now>>
                   /\ InRange' /\ Resting'
                   /\ owed' = m + Busy'
<1> HIDE DEF n, m
<1>2. serving'.left = <<>> => InRange' /\ Resting'
  BY DEF InRange, Resting
<1>3. \A t \in {"OK", "NO", "BAD"} : netbiff_send(t, NoArg) =>
        output' \in Seq(OutLines) /\ owed' \in Int /\ owed' = owed - 1
  BY <1>0, SendType DEF Tags
<1>4. UNCHANGED input => m = n
  BY DEF m, n
<1>5. /\ serving.at \in {"start", "poll"} => Busy = 1
      /\ serving.at \in {"idle", "exited"} => Busy = 0
      /\ serving'.at \in {"start", "poll"} => Busy' = 1
      /\ serving'.at \in {"idle", "exited"} => Busy' = 0
  BY DEF Busy
<1> HIDE DEF Busy
<1>6. ASSUME Greet PROVE Good
  BY <1>0, <1>1, <1>2, <1>3, <1>4, <1>5, <1>6, IdleType DEF Greet, fsVars
<1>7. ASSUME FinishPoll PROVE Good
  BY <1>0, <1>1, <1>2, <1>3, <1>4, <1>5, <1>7, IdleType DEF FinishPoll, fsVars
<1>8. ASSUME CheckFolder PROVE Good
  <2>1. /\ serving.at = "poll" /\ serving.left # <<>> /\ UNCHANGED <<input, files, now>>
    BY <1>8 DEF CheckFolder
  <2>2. serving'.left = Tail(serving.left) /\ serving'.at = "poll" /\ serving' \in Servings
    BY <1>0, <1>8, <2>1, CheckedFolder DEF CheckFolder, Servings
  <2>3. CASE files[folders[Head(serving.left)].name].hidden
    <3>1. UNCHANGED <<folders, past, output, owed>>
      BY <1>8, <2>3 DEF CheckFolder, Silent
    <3>2. InRange' /\ Resting'
      BY <2>1, <2>2, <3>1, CheckedFolder DEF InRange, Resting
    <3> QED
      BY <1>0, <1>1, <1>4, <1>5, <2>1, <2>2, <3>1, <3>2
  <2>4. CASE ~files[folders[Head(serving.left)].name].hidden
    <3> DEFINE k     == Head(serving.left)
               f     == folders[k].name
               new   == update_folder(f)
               event == EventFor(folders[k], new)
    <3>1. /\ k \in DOMAIN folders /\ f \in Names /\ new \in FolderRecords
          /\ event \in {"UPDATE", "RESET", "none"}
          /\ folders' = [folders EXCEPT ![k] = new] /\ past' \in [Names -> History]
          /\ IF event = "none" THEN Silent ELSE netbiff_send(event, f)
      BY <1>8, <2>4, CheckSucceeds
    <3> HIDE DEF k, new, event
    <3>2. output' \in Seq(OutLines) /\ owed' = owed
      BY <1>0, <3>1, SendType DEF Silent, Tags
    <3>3. folders' \in Seq(FolderRecords) /\ DOMAIN folders' = DOMAIN folders
      BY <1>0, <3>1, ExceptSeq, LenProperties
    <3>4. InRange' /\ Resting'
      BY <2>1, <2>2, <3>3, CheckedFolder DEF InRange, Resting
    <3> QED
      BY <1>0, <1>1, <1>4, <1>5, <2>1, <2>2, <3>1, <3>2, <3>3, <3>4
  <2> QED
    BY <2>3, <2>4
<1>9. ASSUME NEW r \in AllRequests, Serve(r) PROVE Good
  <2>1. NextRequest(r)
    BY <1>9 DEF Serve, AddFolder, PollAll, PollOne, IgnoreData, Malformed, Quit
  <2>2. /\ input' \in Seq(AllRequests) /\ serving.at = "idle" /\ serving.left = <<>> /\ m \in Nat
        /\ ~Dropped(r) => n = m + 1
        /\ Dropped(r) => n = m
    BY <1>0, <2>1, NextTaken DEF m, n, StatusInv, Resting
  <2>3. CASE AddFolder(r)
    <3>1. ~Dropped(r) /\ UNCHANGED <<serving, files, now>>
      BY <2>3 DEF AddFolder, Dropped
    <3>2. PICK t \in {"OK", "NO"} : netbiff_send(t, NoArg)
      BY <2>3 DEF AddFolder
    <3>3. folders' \in Seq(FolderRecords) /\ past' \in [Names -> History]
      <4>1. CASE UNCHANGED <<folders, past>>
        BY <1>0, <4>1
      <4>2. CASE /\ folders' = <<update_folder(r.arg)>> \o folders
                 /\ past' = [past EXCEPT ![r.arg] = Nothing]
        <5>1. update_folder(r.arg) \in FolderRecords
          BY <1>0, <2>3, UpdateType DEF AddFolder
        <5>2. Nothing \in History
          BY DEF Nothing, History
        <5> QED
          BY <1>0, <4>2, <5>1, <5>2, ConsProperties
      <4> QED
        BY <2>3, <4>1, <4>2 DEF AddFolder
    <3> QED
      BY <1>0, <1>1, <1>2, <1>3, <1>5, <2>2, <3>1, <3>2, <3>3
  <2>4. CASE PollAll(r)
    <3>1. ~Dropped(r) /\ UNCHANGED <<folders, past, files, now, output, owed>>
      BY <2>4 DEF PollAll, Dropped, fsVars, Silent
    <3> DEFINE all == [k \in 1 .. Len(folders) |-> k]
    <3>2. all \in Seq(Nat) /\ DOMAIN all = DOMAIN folders /\ \A k \in DOMAIN all : all[k] = k
      <4>1. DOMAIN folders = 1 .. Len(folders) /\ Len(folders) \in Nat
        BY <1>0, LenProperties
      <4>2. all \in [1 .. Len(folders) -> Nat]
        BY <4>1
      <4> QED
        BY <4>1, <4>2, SeqDef
    <3> HIDE DEF all
    <3>3. serving' \in Servings /\ serving'.at = "poll" /\ serving'.left = all
      BY <2>4, <3>2 DEF PollAll, Servings, all
    <3>4. InRange' /\ Resting'
      BY <3>1, <3>2, <3>3 DEF InRange, Resting
    <3> QED
      BY <1>0, <1>1, <1>5, <2>2, <3>1, <3>3, <3>4
  <2>5. CASE PollOne(r)
    <3>1. ~Dropped(r) /\ UNCHANGED <<folders, past, files, now>>
      BY <2>5 DEF PollOne, Dropped, fsVars
    <3>2. CASE netbiff_send("NO", NoArg) /\ UNCHANGED serving
      BY <1>0, <1>1, <1>2, <1>3, <1>5, <2>2, <3>1, <3>2
    <3>3. ASSUME NEW k \in SameCase(r.arg), Silent,
                 serving' = [ at |-> "poll", cmd |-> r, failed |-> FALSE, all |-> FALSE,
                              left |-> <<k>> ]
          PROVE  Good
      <4>1. k \in DOMAIN folders /\ k \in Nat
        BY <1>0, LenProperties DEF SameCase
      <4>2. <<k>> \in Seq(Nat) /\ DOMAIN <<k>> = {1} /\ <<k>>[1] = k
        BY <4>1
      <4>3. serving' \in Servings /\ serving'.at = "poll" /\ serving'.left = <<k>>
        BY <3>3, <4>2 DEF Servings
      <4>4. InRange' /\ Resting'
        BY <3>1, <4>1, <4>2, <4>3 DEF InRange, Resting
      <4>5. UNCHANGED <<output, owed>>
        BY <3>3 DEF Silent
      <4> QED
        BY <1>0, <1>1, <1>5, <2>2, <3>1, <4>3, <4>4, <4>5
    <3> QED
      BY <2>5, <3>2, <3>3 DEF PollOne
  <2>6. CASE IgnoreData(r)
    <3>1. Dropped(r) /\ UNCHANGED <<folders, serving, past, files, now, output, owed>>
      BY <2>6 DEF IgnoreData, procVars, fsVars, Silent
    <3> QED
      BY <1>0, <1>1, <1>2, <1>5, <2>2, <3>1
  <2>7. CASE Malformed(r)
    <3>1. ~Dropped(r) /\ UNCHANGED <<folders, serving, past, files, now>> /\ netbiff_send("BAD", NoArg)
      BY <2>7, NamesAssumption DEF Malformed, procVars, fsVars, Dropped
    <3> QED
      BY <1>0, <1>1, <1>2, <1>3, <1>5, <2>2, <3>1
  <2>8. CASE Quit(r)
    <3>1. ~Dropped(r) /\ UNCHANGED <<folders, past, files, now>> /\ netbiff_send("OK", NoArg)
      BY <2>8 DEF Quit, fsVars, Dropped
    <3>2. serving' \in Servings /\ serving'.at = "exited" /\ serving'.left = <<>>
      BY <1>0, <2>2, <2>8 DEF Quit, Servings
    <3> QED
      BY <1>0, <1>1, <1>2, <1>3, <1>5, <2>2, <3>1, <3>2
  <2> QED
    BY <1>9, <2>3, <2>4, <2>5, <2>6, <2>7, <2>8 DEF Serve
<1> QED
  BY <1>0, <1>6, <1>7, <1>8, <1>9 DEF Process, StatusInv, TypeOK, Counted, m, OutLines, FolderRecords

LEMMA StatusStep == StatusInv /\ [Next]_vars => StatusInv'
<1> SUFFICES ASSUME StatusInv, [Next]_vars PROVE StatusInv'
  OBVIOUS
<1>0. /\ input \in Seq(AllRequests) /\ output \in Seq(OutLines) /\ owed \in Int
      /\ Cardinality(Places(input, Answerable)) \in Nat
  BY PlacesFinite DEF StatusInv, TypeOK, OutLines
<1>1. CASE FileSystem
  BY <1>1, FileSystemType
     DEF FileSystem, StatusInv, TypeOK, InRange, Resting, Counted, Busy, pipeVars, procVars
<1>2. CASE Request
  <2>1. PICK r \in Requests : /\ input' = Append(input, r)
                              /\ owed' = IF Dropped(r) THEN owed ELSE owed + 1
    BY <1>2 DEF Request
  <2>2. r \in AllRequests
    BY RequestsAssumption
  <2>3. r \in Answerable <=> ~Dropped(r)
    BY <2>2 DEF Answerable
  <2>4. /\ input' \in Seq(AllRequests)
        /\ ~Dropped(r) => Cardinality(Places(input', Answerable))
                            = Cardinality(Places(input, Answerable)) + 1
        /\ Dropped(r) => Cardinality(Places(input', Answerable))
                           = Cardinality(Places(input, Answerable))
    BY <1>0, <2>1, <2>2, <2>3, AppendProperties, PlacesAppend
  <2>5. UNCHANGED <<output, folders, serving, files, now, past>>
    BY <1>2 DEF Request, procVars, fsVars
  <2>6. owed' = Cardinality(Places(input', Answerable)) + Busy /\ owed' \in Int
    <3>1. owed = Cardinality(Places(input, Answerable)) + Busy /\ Busy \in Nat
      BY DEF StatusInv, Counted, Busy
    <3> HIDE DEF Busy
    <3>2. CASE Dropped(r)
      BY <1>0, <2>1, <2>4, <3>1, <3>2
    <3>3. CASE ~Dropped(r)
      BY <1>0, <2>1, <2>4, <3>1, <3>3
    <3> QED
      BY <3>2, <3>3
  <2> QED
    BY <2>4, <2>5, <2>6 DEF StatusInv, TypeOK, InRange, Resting, Counted, Busy
<1>3. CASE Taken
  <2>1. output' \in Seq(OutLines)
    BY <1>0, <1>3, HeadTailProperties DEF Taken
  <2> QED
    BY <1>3, <2>1 DEF Taken, StatusInv, TypeOK, InRange, Resting, Counted, Busy,
                      procVars, fsVars, OutLines
<1>4. CASE Process
  BY <1>4, ProcessStatus
<1>5. CASE UNCHANGED vars
  BY <1>5 DEF vars, StatusInv, TypeOK, InRange, Resting, Counted, Busy
<1> QED
  BY <1>1, <1>2, <1>3, <1>4, <1>5 DEF Next

LEMMA FileStatusInv == Spec => []StatusInv
  BY StatusInit, StatusStep, PTL DEF Spec

(* The variables of the file back end and of the files it looks at keep    *)
(* their types: it never looks for a folder past the end of its list.      *)
THEOREM FileTypeOK == Spec => []TypeOK
<1>1. StatusInv => TypeOK
  BY DEF StatusInv
<1> QED
  BY <1>1, FileStatusInv, PTL

(* One status for every request but DATARESPONSE (PROTO:37-38), whatever   *)
(* becomes of the files.                                                   *)
THEOREM FileStatusPerRequest == Spec => []StatusPerRequest
<1>1. StatusInv => StatusPerRequest
  BY RequestsCounted DEF StatusInv, Counted, Busy, StatusPerRequest, TypeOK
<1> QED
  BY <1>1, FileStatusInv, PTL
-------------------------------------------------------------------------------
(* What the checks say of the mail *)

Known == {folders[k].name : k \in DOMAIN folders}
ToAdd == {r \in AllRequests : r.verb = "FOLDER" /\ r.arg \in Names}

(* What the time stamps of a file say of what happened to it.              *)
Stamped(f) ==
    /\ ~files[f].there => files[f].size = 0
    /\ files[f].there => files[f].atime \in 1 .. now /\ files[f].mtime \in 1 .. now
    /\ past[f].new => files[f].there /\ files[f].mtime >= files[f].atime
    /\ past[f].read => files[f].there /\ files[f].mtime < files[f].atime

(* What the size at the last check says of it.                             *)
Moved(f, n) ==
    /\ ~past[f].arrived => files[f].size <= n
    /\ ~past[f].shrunk => files[f].size >= n
    /\ past[f].new /\ ~past[f].shrunk => files[f].size > n

(* A folder is in the list once, and asked for at most once, so that the   *)
(* history of a file since it was looked at is that of its folder.         *)
MailInv ==
    /\ \A f \in Names : Stamped(f)
    /\ \A j, k \in DOMAIN folders : folders[j].name = folders[k].name => j = k
    /\ \A k \in DOMAIN input : input[k] \in ToAdd =>
         /\ input[k].arg \notin Known
         /\ \A j \in DOMAIN input : input[j] = input[k] => j = k
    /\ \A k \in DOMAIN folders : Moved(folders[k].name, folders[k].last_size)
    /\ \A f \in Names : past[f].told => f \in Known

(* A folder that is added becomes the first of the list, and a known one.  *)
LEMMA AddedFolder ==
  ASSUME NEW f \in Names, files \in [Names -> File],
         folders \in Seq(FolderRecords), folders' = <<update_folder(f)>> \o folders
  PROVE  /\ DOMAIN folders' = 1 .. Len(folders) + 1
         /\ folders'[1] = update_folder(f)
         /\ \A i \in 2 .. Len(folders) + 1 : i - 1 \in DOMAIN folders /\ folders'[i] = folders[i - 1]
         /\ Known' = Known \cup {f}
<1> DEFINE new == update_folder(f)
<1>1. /\ new \in FolderRecords /\ new.name = f
      /\ DOMAIN folders = 1 .. Len(folders) /\ Len(folders) \in Nat
  BY UpdateType, LenProperties
<1> HIDE DEF new
<1>2. /\ DOMAIN folders' = 1 .. Len(folders) + 1
      /\ folders'[1] = new
      /\ \A i \in 2 .. Len(folders) + 1 : folders'[i] = folders[i - 1]
  BY <1>1, ConsProperties DEF new
<1>3. \A i \in 2 .. Len(folders) + 1 : i - 1 \in DOMAIN folders
  BY <1>1
<1>4. ASSUME NEW n PROVE n \in Known' <=> n \in Known \cup {f}
  <2>1. n \in Known' => n \in Known \cup {f}
    <3>1. SUFFICES ASSUME NEW i \in DOMAIN folders', n = folders'[i].name
                   PROVE  n \in Known \cup {f}
      BY DEF Known
    <3>2. CASE i = 1
      BY <1>1, <1>2, <3>1, <3>2
    <3>3. CASE i # 1
      <4>1. i \in 2 .. Len(folders) + 1
        BY <1>1, <1>2, <3>3
      <4>2. i - 1 \in DOMAIN folders /\ n = folders[i - 1].name
        BY <1>2, <1>3, <3>1, <4>1
      <4> QED
        BY <4>2 DEF Known
    <3> QED
      BY <3>2, <3>3
  <2>2. \A i \in DOMAIN folders : i + 1 \in DOMAIN folders' /\ folders'[i + 1] = folders[i]
    BY <1>1, <1>2
  <2>3. 1 \in DOMAIN folders'
    BY <1>1, <1>2
  <2>4. n \in Known \cup {f} => n \in Known'
    <3>1. n \in Known => n \in Known'
      BY <2>2 DEF Known
    <3>2. f \in Known'
      BY <1>1, <1>2, <2>3 DEF Known
    <3> QED
      BY <3>1, <3>2
  <2> QED
    BY <2>1, <2>4
<1>5. Known' = Known \cup {f}
  BY <1>4
<1> QED
  BY <1>2, <1>3, <1>5 DEF new

(* What is asked for, after a step that asks for no folder.                *)
LEMMA StillToAdd ==
  ASSUME StatusInv, MailInv,
         \/ UNCHANGED input
         \/ \E r \in AllRequests : input' = Append(input, r) /\ r \notin ToAdd
         \/ input # <<>> /\ input' = Tail(input)
  PROVE  /\ \A k \in DOMAIN input' : input'[k] \in ToAdd =>
              /\ input'[k].arg \notin Known
              /\ \A j \in DOMAIN input' : input'[j] = input'[k] => j = k
         /\ input # <<>> /\ input' = Tail(input) =>
              \A k \in DOMAIN input' : input'[k] \in ToAdd => input'[k] # Head(input)
<1>0. /\ input \in Seq(AllRequests) /\ DOMAIN input = 1 .. Len(input) /\ Len(input) \in Nat
  BY LenProperties DEF StatusInv, TypeOK
<1>1. PICK d \in {0, 1} : \A j \in DOMAIN input' : input'[j] \in ToAdd =>
        j \in Nat /\ j + d \in DOMAIN input /\ input[j + d] = input'[j]
  BY <1>0, PlacesKept, SMTT(30)
<1>2. ASSUME NEW k \in DOMAIN input', input'[k] \in ToAdd,
             NEW j \in DOMAIN input', input'[j] = input'[k]
      PROVE  j = k
  <2>1. /\ k \in Nat /\ k + d \in DOMAIN input /\ input[k + d] = input'[k]
        /\ j \in Nat /\ j + d \in DOMAIN input /\ input[j + d] = input'[j]
    BY <1>1, <1>2
  <2>2. j + d = k + d
    BY <1>2, <2>1 DEF MailInv
  <2> QED
    BY <2>1, <2>2
<1>3. \A k \in DOMAIN input' : input'[k] \in ToAdd => input'[k].arg \notin Known
  BY <1>1 DEF MailInv
<1>4. ASSUME input # <<>>, input' = Tail(input),
             NEW k \in DOMAIN input', input'[k] \in ToAdd
      PROVE  input'[k] # Head(input)
  <2>1. /\ Head(input) = input[1] /\ 1 \in DOMAIN input
        /\ input'[k] = input[k + 1] /\ k + 1 \in DOMAIN input /\ k + 1 # 1
    BY <1>0, <1>4, TailPlaces
  <2> QED
    BY <1>4, <2>1 DEF MailInv
<1> QED
  BY <1>2, <1>3, <1>4

(* A step that leaves folders and files alone.                             *)
LEMMA MailKept ==
  ASSUME StatusInv, MailInv, UNCHANGED <<folders, files, now, past>>,
         \/ UNCHANGED input
         \/ \E r \in AllRequests : input' = Append(input, r) /\ r \notin ToAdd
         \/ input # <<>> /\ input' = Tail(input)
  PROVE  MailInv'
<1>1. UNCHANGED Known
  BY DEF Known
<1>2. \A k \in DOMAIN input' : input'[k] \in ToAdd =>
        /\ input'[k].arg \notin Known
        /\ \A j \in DOMAIN input' : input'[j] = input'[k] => j = k
  BY StillToAdd
<1> QED
  BY <1>1, <1>2 DEF MailInv, Moved, Stamped

(* Whatever happens to a file, its history tells.                          *)
LEMMA FileSystemMoves ==
  ASSUME StatusInv, FileSystem, NEW f \in Names, Stamped(f)
  PROVE  /\ Stamped(f)'
         /\ \A n \in Nat : Moved(f, n) => Moved(f, n)'
         /\ past'[f].told = past[f].told
<1>0. /\ files \in [Names -> File] /\ past \in [Names -> History]
      /\ now \in 1 .. MaxTime /\ now \in Nat /\ files[f] \in File /\ past[f] \in History
      /\ files[f].size \in Nat /\ files[f].atime \in Nat /\ files[f].mtime \in Nat
  BY BoundsAssumption DEF StatusInv, TypeOK, File
<1> DEFINE Good == /\ Stamped(f)'
                   /\ \A n \in Nat : Moved(f, n) => Moved(f, n)'
                   /\ past'[f].told = past[f].told
<1>1. CASE UNCHANGED <<files[f], past[f]>> /\ now' \in {now, now + 1}
  BY <1>0, <1>1 DEF Stamped, Moved
<1>2. CASE Tick
  BY <1>1, <1>2 DEF Tick
<1>3. ASSUME NEW g \in Names, g # f,
             Deliver(g) \/ ReadMail(g) \/ Expunge(g) \/ Unlink(g) \/ Forbid(g)
      PROVE  Good
  <2>1. UNCHANGED <<files[f], past[f], now>>
    BY <1>0, <1>3, Zenon DEF Deliver, ReadMail, Expunge, Unlink, Forbid
  <2> QED
    BY <1>1, <2>1
<1>4. CASE Deliver(f)
  <2>1. /\ files'[f].there /\ files'[f].size = files[f].size + 1 /\ files'[f].mtime = now
        /\ files'[f].atime = IF files[f].there THEN files[f].atime ELSE now
        /\ now' = now
    BY <1>0, <1>4 DEF Deliver
  <2>2. /\ past'[f].arrived /\ past'[f].new /\ ~past'[f].read
        /\ past'[f].shrunk = past[f].shrunk /\ past'[f].told = past[f].told
    BY <1>0, <1>4 DEF Deliver, History
  <2> QED
    BY <1>0, <2>1, <2>2 DEF Stamped, Moved
<1>5. CASE ReadMail(f)
  <2>1. /\ files'[f].there /\ files'[f].size = files[f].size /\ files'[f].mtime = files[f].mtime
        /\ files'[f].atime = now /\ now' = now /\ files[f].there
    BY <1>0, <1>5 DEF ReadMail, File
  <2> DEFINE later == files[f].mtime < now
  <2>2. later \in BOOLEAN
    OBVIOUS
  <2>3. past' = [past EXCEPT ![f].new = FALSE, ![f].read = later]
    BY <1>5, Zenon DEF ReadMail
  <2>4. later => files[f].mtime < now
    OBVIOUS
  <2> HIDE DEF later
  <2>5. /\ ~past'[f].new /\ (past'[f].read => later) /\ past'[f].arrived = past[f].arrived
        /\ past'[f].shrunk = past[f].shrunk /\ past'[f].told = past[f].told
    BY <1>0, <2>2, <2>3 DEF History
  <2> QED
    BY <1>0, <2>1, <2>4, <2>5 DEF Stamped, Moved
<1>6. CASE Expunge(f)
  <2>1. /\ files'[f].there /\ files'[f].size = files[f].size - 1 /\ files'[f].mtime = now
        /\ files'[f].atime = now /\ now' = now
    BY <1>0, <1>6 DEF Expunge
  <2>2. /\ ~past'[f].new /\ ~past'[f].read /\ past'[f].shrunk
        /\ past'[f].arrived = past[f].arrived /\ past'[f].told = past[f].told
    BY <1>0, <1>6 DEF Expunge, History
  <2> QED
    BY <1>0, <2>1, <2>2 DEF Stamped, Moved
<1>7. CASE Unlink(f)
  <2>1. ~files'[f].there /\ files'[f].size = 0 /\ now' = now
    BY <1>0, <1>7 DEF Unlink, Absent
  <2>2. /\ ~past'[f].new /\ ~past'[f].read /\ past'[f].shrunk
        /\ past'[f].arrived = past[f].arrived /\ past'[f].told = past[f].told
    BY <1>0, <1>7 DEF Unlink, History
  <2> QED
    BY <1>0, <2>1, <2>2 DEF Stamped, Moved
<1>8. CASE Forbid(f)
  <2>1. /\ files'[f].there = files[f].there /\ files'[f].size = files[f].size
        /\ files'[f].mtime = files[f].mtime /\ files'[f].atime = files[f].atime
        /\ UNCHANGED <<past, now>>
    BY <1>0, <1>8 DEF Forbid, File
  <2> QED
    BY <1>0, <2>1 DEF Stamped, Moved
<1> QED
  BY <1>2, <1>3, <1>4, <1>5, <1>6, <1>7, <1>8 DEF FileSystem

(* The size that is recorded is the file's.                                *)
LEMMA UpdateSize ==
  ASSUME NEW f \in Names, Stamped(f)
  PROVE  update_folder(f).last_size = files[f].size
BY DEF update_folder, Folder, Stamped

LEMMA MailStep ==
  ASSUME StatusInv, StatusInv', MailInv, [Next]_vars
  PROVE  MailInv'
<1>0. /\ input \in Seq(AllRequests) /\ input' \in Seq(AllRequests)
      /\ folders \in Seq(FolderRecords) /\ files \in [Names -> File]
      /\ past \in [Names -> History] /\ serving \in Servings
      /\ DOMAIN input = 1 .. Len(input) /\ Len(input) \in Nat
      /\ DOMAIN folders = 1 .. Len(folders) /\ Len(folders) \in Nat
      /\ \A k \in DOMAIN folders : folders[k] \in FolderRecords
  BY LenProperties, ElementOfSeq DEF StatusInv, TypeOK, FolderRecords
<1>1. CASE FileSystem
  <2>1. UNCHANGED <<input, folders, Known>>
    BY <1>1 DEF FileSystem, Known, pipeVars, procVars
  <2>2. \A f \in Names : /\ Stamped(f)' /\ past'[f].told = past[f].told
                        /\ \A n \in Nat : Moved(f, n) => Moved(f, n)'
    BY <1>1, FileSystemMoves DEF MailInv
  <2>3. ASSUME NEW k \in DOMAIN folders PROVE Moved(folders[k].name, folders[k].last_size)'
    <3>1. PICK g \in Names, n \in Nat : g = folders[k].name /\ n = folders[k].last_size
      BY <1>0 DEF FolderRecords
    <3>2. Moved(g, n)'
      BY <2>2, <3>1 DEF MailInv
    <3> QED
      BY <2>1, <3>1, <3>2 DEF Moved
  <2> QED
    BY <2>1, <2>2, <2>3 DEF MailInv
<1>2. CASE Request
  <2>1. PICK r \in Requests :
          /\ r.verb = "FOLDER" => /\ \A k \in DOMAIN folders : folders[k].name # r.arg
                                 /\ \A k \in DOMAIN input : input[k] # r
          /\ input' = Append(input, r)
    BY <1>2 DEF Request
  <2>2. r \in AllRequests /\ UNCHANGED <<folders, files, now, past, Known>>
    BY <1>2, RequestsAssumption DEF Request, procVars, fsVars, Known
  <2>3. CASE r \notin ToAdd
    BY <2>1, <2>2, <2>3, MailKept
  <2>4. CASE r \in ToAdd
    <3>1. /\ DOMAIN input' = 1 .. Len(input) + 1 /\ input'[Len(input) + 1] = r
          /\ \A i \in 1 .. Len(input) : input'[i] = input[i]
      BY <1>0, <2>1, <2>2, AppendProperties, LenProperties
    <3>2. r.arg \notin Known /\ \A k \in DOMAIN input : input[k] # r
      BY <2>1, <2>4 DEF ToAdd, Known
    <3>3. ASSUME NEW k \in DOMAIN input', input'[k] \in ToAdd
          PROVE  /\ input'[k].arg \notin Known
                 /\ \A j \in DOMAIN input' : input'[j] = input'[k] => j = k
      <4>1. CASE k = Len(input) + 1
        BY <1>0, <3>1, <3>2, <4>1, SMTT(30)
      <4>2. CASE k # Len(input) + 1
        <5>1. k \in 1 .. Len(input) /\ input'[k] = input[k]
          BY <1>0, <3>1, <4>2
        <5>2. input[k].arg \notin Known /\ \A j \in 1 .. Len(input) : input[j] = input[k] => j = k
          BY <1>0, <3>3, <5>1 DEF MailInv
        <5> QED
          BY <1>0, <3>1, <3>2, <5>1, <5>2
      <4> QED
        BY <4>1, <4>2
    <3> QED
      BY <2>2, <3>3 DEF MailInv, Moved, Stamped
  <2> QED
    BY <2>3, <2>4
<1>3. CASE Taken
  <2>1. UNCHANGED <<input, folders, files, now, past>>
    BY <1>3 DEF Taken, procVars, fsVars
  <2> QED
    BY <2>1, MailKept
<1>4. CASE Greet \/ FinishPoll
  <2>1. UNCHANGED <<input, folders, files, now, past>>
    BY <1>4 DEF Greet, FinishPoll, fsVars
  <2> QED
    BY <2>1, MailKept
<1>5. CASE CheckFolder
  <2>1. /\ UNCHANGED <<input, files, now>> /\ serving.at = "poll" /\ serving.left # <<>>
    BY <1>5 DEF CheckFolder
  <2>2. CASE files[folders[Head(serving.left)].name].hidden
    BY <1>5, <2>1, <2>2, MailKept DEF CheckFolder
  <2>3. CASE ~files[folders[Head(serving.left)].name].hidden
    <3> DEFINE k     == Head(serving.left)
               f     == folders[k].name
               new   == update_folder(f)
               event == EventFor(folders[k], new)
    <3>1. /\ k \in DOMAIN folders /\ f \in Names /\ new \in FolderRecords /\ new.name = f
          /\ folders' = [folders EXCEPT ![k] = new]
          /\ \A g \in Names \ {f} : past'[g] = past[g]
          /\ past'[f] = [Nothing EXCEPT !.told = Told(past[f].told, event)]
      BY <1>5, <2>3, CheckSucceeds
    <3>2. new.last_size = files[f].size
      BY <3>1, UpdateSize DEF MailInv
    <3>3. /\ ~past'[f].arrived /\ ~past'[f].new /\ ~past'[f].read /\ ~past'[f].shrunk
      BY <3>1 DEF Nothing
    <3> HIDE DEF k, new, event
    <3>4. /\ DOMAIN folders' = DOMAIN folders /\ folders'[k] = new
          /\ \A i \in DOMAIN folders : i # k => folders'[i] = folders[i]
          /\ \A i \in DOMAIN folders : folders'[i].name = folders[i].name
      BY <1>0, <3>1
    <3>5. UNCHANGED Known /\ f \in Known
      BY <3>1, <3>4 DEF Known
    <3>6. \A g \in Names : Stamped(g)'
      <4>1. ASSUME NEW g \in Names PROVE Stamped(g)'
        <5>1. CASE g = f
          BY <2>1, <3>3, <5>1 DEF MailInv, Stamped
        <5>2. CASE g # f
          BY <2>1, <3>1, <5>2 DEF MailInv, Stamped
        <5> QED
          BY <5>1, <5>2
      <4> QED
        BY <4>1
    <3>7. ASSUME NEW i \in DOMAIN folders' PROVE Moved(folders[i].name, folders[i].last_size)'
      <4>1. PICK g \in Names, n \in Nat : g = folders'[i].name /\ n = folders'[i].last_size
        BY <1>0, <3>1, <3>4 DEF FolderRecords
      <4>2. CASE i = k
        <5>1. g = f /\ n = files[f].size /\ n >= n /\ n <= n
          BY <3>1, <3>2, <3>4, <4>1, <4>2
        <5>2. Moved(g, n)'
          BY <2>1, <3>3, <5>1 DEF Moved
        <5> QED
          BY <4>1, <5>2 DEF Moved
      <4>3. CASE i # k
        <5>1. g # f /\ Moved(g, n)
          BY <3>1, <3>4, <4>1, <4>3 DEF MailInv
        <5>2. Moved(g, n)'
          BY <2>1, <3>1, <5>1 DEF Moved
        <5> QED
          BY <4>1, <5>2 DEF Moved
      <4> QED
        BY <4>2, <4>3
    <3>8. \A g \in Names : past'[g].told => g \in Known'
      BY <3>1, <3>5 DEF MailInv
    <3>9. \A i, j \in DOMAIN folders' : folders'[i].name = folders'[j].name => i = j
      BY <3>4 DEF MailInv
    <3>10. \A i \in DOMAIN input' : input'[i] \in ToAdd =>
             /\ input'[i].arg \notin Known'
             /\ \A j \in DOMAIN input' : input'[j] = input'[i] => j = i
      BY <2>1, <3>5 DEF MailInv
    <3> QED
      BY <3>6, <3>7, <3>8, <3>9, <3>10 DEF MailInv
  <2> QED
    BY <2>2, <2>3
<1>6. ASSUME NEW r \in AllRequests, Serve(r) PROVE MailInv'
  <2>1. NextRequest(r)
    BY <1>6 DEF Serve, AddFolder, PollAll, PollOne, IgnoreData, Malformed, Quit
  <2>2. input # <<>> /\ input' = Tail(input) /\ r = Head(input)
    BY <2>1 DEF NextRequest
  <2>3. CASE UNCHANGED <<folders, files, now, past>>
    BY <2>2, <2>3, MailKept
  <2>4. CASE AddFolder(r) /\ ~UNCHANGED <<folders, files, now, past>>
    <3>1. /\ r.verb = "FOLDER" /\ r.arg \in Names /\ UNCHANGED <<files, now>>
          /\ folders' = <<update_folder(r.arg)>> \o folders
          /\ past' = [past EXCEPT ![r.arg] = Nothing]
      BY <2>4 DEF AddFolder
    <3>2. PICK f \in Names : f = r.arg
      BY <3>1
    <3> DEFINE new == update_folder(f)
    <3>3. /\ new \in FolderRecords /\ new.name = f /\ new.last_size = files[f].size
      BY <1>0, UpdateType, UpdateSize DEF MailInv
    <3>4. /\ DOMAIN folders' = 1 .. Len(folders) + 1
          /\ folders'[1] = new
          /\ \A i \in 2 .. Len(folders) + 1 :
               i - 1 \in DOMAIN folders /\ folders'[i] = folders[i - 1]
          /\ Known' = Known \cup {f}
      BY <1>0, <3>1, <3>2, AddedFolder
    <3> HIDE DEF new
    <3>5. f \notin Known
      <4>1. 1 \in DOMAIN input /\ Head(input) = input[1] /\ r \in ToAdd
        BY <1>0, <2>2, <3>1, EmptySeq DEF ToAdd
      <4> QED
        BY <2>2, <3>2, <4>1 DEF MailInv
    <3>6. /\ past'[f] = Nothing /\ \A g \in Names \ {f} : past'[g] = past[g]
      BY <1>0, <3>1, <3>2
    <3>7. \A g \in Names : Stamped(g)'
      <4>1. ASSUME NEW g \in Names PROVE Stamped(g)'
        <5>1. CASE g = f
          BY <3>1, <3>6, <5>1 DEF MailInv, Stamped, Nothing
        <5>2. CASE g # f
          BY <3>1, <3>6, <5>2 DEF MailInv, Stamped
        <5> QED
          BY <5>1, <5>2
      <4> QED
        BY <4>1
    <3>8. ASSUME NEW i \in DOMAIN folders'
          PROVE  /\ Moved(folders[i].name, folders[i].last_size)'
                 /\ i # 1 => /\ i - 1 \in DOMAIN folders /\ folders'[i] = folders[i - 1]
                             /\ folders'[i].name \in Known
      <4>1. CASE i = 1
        <5>1. PICK n \in Nat : n = files[f].size /\ n = folders'[i].last_size /\ f = folders'[i].name
          BY <3>3, <3>4, <4>1 DEF FolderRecords
        <5>2. Moved(f, n)'
          BY <3>1, <3>6, <5>1 DEF Moved, Nothing
        <5> QED
          BY <4>1, <5>1, <5>2 DEF Moved
      <4>2. CASE i # 1
        <5>1. i - 1 \in DOMAIN folders /\ folders'[i] = folders[i - 1]
          BY <1>0, <3>4, <4>2
        <5>2. PICK g \in Names, n \in Nat : g = folders'[i].name /\ n = folders'[i].last_size
          BY <1>0, <5>1 DEF FolderRecords
        <5>3. g \in Known /\ Moved(g, n)
          BY <5>1, <5>2 DEF MailInv, Known
        <5>4. Moved(g, n)'
          BY <3>1, <3>5, <3>6, <5>3 DEF Moved
        <5> QED
          BY <4>2, <5>1, <5>2, <5>3, <5>4 DEF Moved
      <4> QED
        BY <4>1, <4>2
    <3>9. \A i, j \in DOMAIN folders' : folders'[i].name = folders'[j].name => i = j
      <4>1. SUFFICES ASSUME NEW i \in DOMAIN folders', NEW j \in DOMAIN folders',
                            folders'[i].name = folders'[j].name
                     PROVE  i = j
        OBVIOUS
      <4>2. CASE i = 1 \/ j = 1
        BY <3>3, <3>4, <3>5, <3>8, <4>1, <4>2
      <4>3. CASE i # 1 /\ j # 1
        <5>1. /\ i - 1 \in DOMAIN folders /\ folders'[i] = folders[i - 1]
              /\ j - 1 \in DOMAIN folders /\ folders'[j] = folders[j - 1]
          BY <3>8, <4>3
        <5>2. i - 1 = j - 1
          BY <4>1, <5>1 DEF MailInv
        <5>3. i \in Nat /\ j \in Nat
          BY <1>0, <3>4
        <5> QED
          BY <5>2, <5>3
      <4> QED
        BY <4>2, <4>3
    <3>10. \A g \in Names : past'[g].told => g \in Known'
      BY <3>4, <3>6 DEF MailInv
    <3>11. \A k \in DOMAIN input' : input'[k] \in ToAdd =>
             /\ input'[k].arg \notin Known'
             /\ \A j \in DOMAIN input' : input'[j] = input'[k] => j = k
      <4>1. \A k \in DOMAIN input' : input'[k] \in ToAdd =>
              /\ input'[k].arg \notin Known /\ input'[k] # r
              /\ \A j \in DOMAIN input' : input'[j] = input'[k] => j = k
        BY <2>2, StillToAdd
      <4>2. \A e \in ToAdd : e # r => e.arg # f
        BY <3>1, <3>2 DEF ToAdd, AllRequests
      <4> QED
        BY <3>4, <4>1, <4>2
    <3> QED
      BY <3>7, <3>8, <3>9, <3>10, <3>11 DEF MailInv
  <2>5. CASE PollAll(r) \/ PollOne(r) \/ IgnoreData(r) \/ Malformed(r) \/ Quit(r)
    BY <2>3, <2>5 DEF PollAll, PollOne, IgnoreData, Malformed, Quit, procVars, fsVars
  <2> QED
    BY <1>6, <2>3, <2>4, <2>5 DEF Serve
<1>7. CASE UNCHANGED vars
  BY <1>7, MailKept DEF vars
<1> QED
  BY <1>1, <1>2, <1>3, <1>4, <1>5, <1>6, <1>7 DEF Next, Process

LEMMA FileMailInv == Spec => []MailInv
<1>1. Init => MailInv
  <2> SUFFICES ASSUME Init PROVE MailInv
    OBVIOUS
  <2>1. \A f \in Names : past[f] = Nothing /\ files[f] \in {Absent, OneMail}
    BY DEF Init
  <2>2. \A f \in Names : Stamped(f)
    BY <2>1 DEF Init, Stamped, Absent, OneMail, Nothing
  <2> QED
    BY <2>1, <2>2 DEF Init, MailInv, Nothing
<1>2. StatusInv /\ StatusInv' /\ MailInv /\ [Next]_vars => MailInv'
  BY MailStep
<1> QED
  BY <1>1, <1>2, FileStatusInv, PTL DEF Spec

(* While access times count, what a check of a folder says is what         *)
(* happened to its file since the last one (check_folder): new mail is     *)
(* announced, mail that was read is reset, and what did not arrive is not  *)
(* announced.                                                              *)
THEOREM FileEventsMatchMail ==
  ASSUME UseAtime
  PROVE  Spec => EventsMatchMail
<1> DEFINE Match == \A f \in Names : \A event \in Tags \cup {"none"} : Checked(f, event) =>
                      /\ past[f].new /\ ~past[f].shrunk => event = "UPDATE"
                      /\ past[f].read /\ files[f].there => event = "RESET"
                      /\ event = "UPDATE" => past[f].arrived
<1>1. StatusInv /\ MailInv => Match
  <2> SUFFICES ASSUME StatusInv, MailInv, NEW f \in Names, NEW event \in Tags \cup {"none"},
                      Checked(f, event)
               PROVE  /\ past[f].new /\ ~past[f].shrunk => event = "UPDATE"
                      /\ past[f].read /\ files[f].there => event = "RESET"
                      /\ event = "UPDATE" => past[f].arrived
    OBVIOUS
  <2> DEFINE k    == Head(serving.left)
             old  == folders[k]
             new  == update_folder(f)
             said == EventFor(old, new)
  <2>1. /\ k \in DOMAIN folders /\ old.name = f /\ new \in FolderRecords
        /\ said \in {"UPDATE", "RESET", "none"}
        /\ IF said = "none" THEN Silent ELSE netbiff_send(said, f)
    BY CheckSucceeds DEF Checked
  <2>2. old \in FolderRecords /\ Moved(f, old.last_size) /\ Stamped(f)
    <3>1. old \in FolderRecords
      BY CheckedFolder DEF Checked
    <3>2. Moved(folders[k].name, old.last_size)
      BY <2>1 DEF MailInv
    <3> QED
      BY <2>1, <3>1, <3>2 DEF MailInv
  <2>3. new.last_size = files[f].size /\ files[f] \in File
    BY <2>2, UpdateSize DEF StatusInv, TypeOK
  <2>4. new.last_seen <=> ~files[f].there \/ Seen(files[f])
    BY NamesAssumption DEF update_folder, Folder, Seen
  <2>5. event = said
    <3>1. output \in Seq(OutLines) /\ Len(output) \in Nat
      BY LenProperties DEF StatusInv, TypeOK, OutLines
    <3>2. event = IF output' = output THEN "none" ELSE Last(output').tag
      BY DEF Checked
    <3> HIDE DEF said, k, new
    <3>3. CASE said = "none"
      BY <2>1, <3>2, <3>3 DEF Silent
    <3>4. CASE said # "none"
      <4>1. output' = Append(output, Line(said, f)) /\ Line(said, f).tag = said
        BY <2>1, <3>4 DEF netbiff_send, Line
      <4>2. Len(output') = Len(output) + 1 /\ output'[Len(output) + 1] = Line(said, f)
        BY <3>1, <4>1
      <4> QED
        BY <3>1, <3>2, <4>1, <4>2 DEF Last
    <3> QED
      BY <3>3, <3>4
  <2>6. /\ old.last_size \in Nat /\ new.last_size \in Nat /\ new.last_seen \in BOOLEAN
        /\ files[f].size \in Nat /\ files[f].atime \in Nat /\ files[f].mtime \in Nat
        /\ files[f].there \in BOOLEAN
    BY <2>1, <2>2, <2>3, BoundsAssumption DEF FolderRecords, File
  <2> HIDE DEF k, old, new
  <2>7. /\ Grew(old, new) /\ ~new.last_seen => said = "UPDATE"
        /\ new.last_seen => said = "RESET"
        /\ said = "UPDATE" => old.last_size < new.last_size
    BY <2>6 DEF EventFor, Grew
  <2>8. ASSUME past[f].new, ~past[f].shrunk PROVE Grew(old, new) /\ ~new.last_seen
    <3>1. files[f].there /\ files[f].mtime >= files[f].atime
          /\ files[f].atime # 0 /\ files[f].mtime # 0
      BY <2>2, <2>6, <2>8 DEF Stamped
    <3>2. ~Seen(files[f])
      BY <2>6, <3>1 DEF Seen
    <3> QED
      BY <2>2, <2>3, <2>4, <2>8, <3>1, <3>2 DEF Moved, Grew
  <2>9. ASSUME past[f].read, files[f].there PROVE new.last_seen
    BY <2>2, <2>4, <2>9 DEF Stamped, Seen
  <2>10. ASSUME said = "UPDATE" PROVE past[f].arrived
    BY <2>2, <2>3, <2>6, <2>7, <2>10 DEF Moved
  <2> QED
    BY <2>5, <2>7, <2>8, <2>9, <2>10
<1>2. StatusInv /\ MailInv /\ [Next]_vars => [Match]_vars
  BY <1>1
<1>3. Spec => [][Match]_vars
  <2> HIDE DEF Match
  <2> QED
    BY <1>2, FileStatusInv, FileMailInv, PTL DEF Spec
<1> QED
  BY <1>3 DEF EventsMatchMail
-------------------------------------------------------------------------------
(* As one of the back ends of BackEnd *)

(* A request that is not answered at once is for a poll.                   *)
PollInv == serving.at = "poll" => serving.cmd.verb = "POLL"

(* The requests that are not answered yet, and the folders that the front  *)
(* end was told have mail.                                                 *)
Waiting == (IF serving.at = "poll" THEN <<serving.cmd>> ELSE <<>>) \o input
News == {f \in Names : past[f].told}

(* What a step must do to be one of BackEnd's.                             *)
LEMMA AnswerRefines ==
  ASSUME NEW t \in {"OK", "NO"}, netbiff_send(t, NoArg),
         serving.at \notin {"start", "exited"}, serving'.at \notin {"start", "exited"},
         Waiting # <<>>, Waiting' = Tail(Waiting), UNCHANGED News,
         Known' = IF Head(Waiting).verb = "FOLDER" /\ t = "OK"
                    THEN Known \cup {Head(Waiting).arg} ELSE Known
  PROVE  B!Answer(Me)
BY DEF B!Answer, B!Say, B!Line, Line, netbiff_send, Waiting, News, Known, B!NoArg, NoArg

LEMMA GreetRefines ==
  ASSUME netbiff_send("OK", NoArg), serving.at = "start", serving'.at = "idle",
         UNCHANGED <<Waiting, News, Known>>
  PROVE  B!Greet(Me)
BY DEF B!Greet, B!Say, B!Line, Line, netbiff_send, Waiting, News, Known, B!NoArg, NoArg

LEMMA NotifyRefines ==
  ASSUME NEW t \in {"UPDATE", "RESET"}, NEW f \in Known, netbiff_send(t, f),
         serving.at = "poll", serving'.at = "poll", UNCHANGED <<Waiting, Known>>,
         News' = IF t = "UPDATE" THEN News \cup {f} ELSE News \ {f}
  PROVE  B!Notify(Me)
<1> DEFINE me == [c \in {Me} |->
                    [ up      |-> serving.at # "exited",
                      greeted |-> serving.at # "start",
                      asking  |-> FALSE,
                      known   |-> {folders[k].name : k \in DOMAIN folders},
                      news    |-> {g \in Names : past[g].told} ]]
<1>1. B!Say(Me, Line(t, f))
  BY DEF B!Say, netbiff_send
<1>2. /\ me[Me].greeted /\ f \in B!Spoken(Me)
      /\ t \in [c \in {Me} |-> {"UPDATE", "RESET"}][Me]
  BY DEF Known, B!Spoken
<1>3. [c \in {Me} |-> Waiting]' = [c \in {Me} |-> Waiting]
  OBVIOUS
<1>4. {folders'[k].name : k \in DOMAIN folders'} = {folders[k].name : k \in DOMAIN folders}
  BY DEF Known
<1>5. CASE t = "UPDATE"
  <2>1. B!Say(Me, B!Line("UPDATE", f))
    BY <1>1, <1>5 DEF B!Line, Line
  <2>2. {g \in Names : past'[g].told} = {g \in Names : past[g].told} \cup {f}
    BY <1>5 DEF News
  <2>3. me' = [me EXCEPT ![Me].news = @ \cup {f}]
    BY <1>4, <2>2
  <2> QED
    BY <1>2, <1>3, <1>5, <2>1, <2>3, Zenon DEF B!Notify, Waiting
<1>6. CASE t = "RESET"
  <2>1. B!Say(Me, B!Line("RESET", f))
    BY <1>1, <1>6 DEF B!Line, Line
  <2>2. {g \in Names : past'[g].told} = {g \in Names : past[g].told} \ {f}
    BY <1>6 DEF News
  <2>3. me' = [me EXCEPT ![Me].news = @ \ {f}]
    BY <1>4, <2>2
  <2> QED
    BY <1>2, <1>3, <1>6, <2>1, <2>3, Zenon DEF B!Notify, Waiting
<1> QED
  BY <1>5, <1>6

LEMMA Stutters ==
  ASSUME UNCHANGED <<Waiting, News, Known, output>>,
         \A at \in {"start", "exited"} : serving.at = at <=> serving'.at = at
  PROVE  UNCHANGED B!backVars
BY DEF B!backVars, Waiting, News, Known

LEMMA PollStep == StatusInv /\ PollInv /\ [Next]_vars => PollInv'
<1> SUFFICES ASSUME StatusInv, PollInv, [Next]_vars PROVE PollInv'
  OBVIOUS
<1>0. serving \in Servings
  BY DEF StatusInv, TypeOK
<1>1. CASE FileSystem \/ Request \/ Taken \/ UNCHANGED vars
  <2>1. UNCHANGED serving
    BY <1>1 DEF FileSystem, Request, Taken, vars, procVars
  <2> QED
    BY <2>1 DEF PollInv
<1>2. CASE Greet \/ FinishPoll
  BY <1>2 DEF Greet, FinishPoll, Idle, PollInv
<1>3. CASE CheckFolder
  <2>1. serving'.cmd = serving.cmd /\ serving.at = "poll"
    BY <1>0, <1>3 DEF CheckFolder, Servings
  <2> QED
    BY <2>1 DEF PollInv
<1>4. ASSUME NEW r \in AllRequests, Serve(r) PROVE PollInv'
  <2>1. CASE AddFolder(r) \/ IgnoreData(r) \/ Malformed(r)
    <3>1. UNCHANGED serving
      BY <2>1 DEF AddFolder, IgnoreData, Malformed, procVars
    <3> QED
      BY <3>1 DEF PollInv
  <2>2. CASE PollAll(r)
    BY <2>2 DEF PollAll, PollInv
  <2>3. CASE PollOne(r)
    BY <2>3 DEF PollOne, PollInv
  <2>4. CASE Quit(r)
    BY <1>0, <2>4 DEF Quit, PollInv, Servings
  <2> QED
    BY <1>4, <2>1, <2>2, <2>3, <2>4 DEF Serve
<1> QED
  BY <1>1, <1>2, <1>3, <1>4 DEF Next, Process

LEMMA CheckRefines ==
  ASSUME StatusInv, CheckFolder
  PROVE  B!BackEndStep(Me) \/ UNCHANGED B!backVars
<1> DEFINE k     == Head(serving.left)
           f     == folders[k].name
           new   == update_folder(f)
           event == EventFor(folders[k], new)
<1>0. /\ folders \in Seq(FolderRecords) /\ past \in [Names -> History] /\ serving \in Servings
  BY SMTT(30) DEF StatusInv, TypeOK, FolderRecords
<1>1. /\ serving.at = "poll" /\ serving'.at = "poll" /\ serving'.cmd = serving.cmd
      /\ UNCHANGED <<input, Waiting>>
  BY <1>0 DEF CheckFolder, Servings, Waiting
<1>2. CASE files[f].hidden
  <2>1. UNCHANGED <<folders, past, output>>
    BY <1>2 DEF CheckFolder, Silent
  <2> QED
    BY <1>1, <2>1, Stutters DEF News, Known
<1>3. CASE ~files[f].hidden
  <2>1. /\ k \in DOMAIN folders /\ f \in Names /\ new.name = f
        /\ event \in {"UPDATE", "RESET", "none"}
        /\ folders' = [folders EXCEPT ![k] = new]
        /\ \A g \in Names \ {f} : past'[g] = past[g]
        /\ past'[f] = [Nothing EXCEPT !.told = Told(past[f].told, event)]
        /\ IF event = "none" THEN Silent ELSE netbiff_send(event, f)
    BY <1>3, CheckSucceeds
  <2>2. past'[f].told = Told(past[f].told, event) /\ past[f].told \in BOOLEAN
    BY <1>0, <2>1 DEF Nothing, History
  <2> HIDE DEF k, new, event
  <2>3. UNCHANGED Known /\ f \in Known
    <3>1. /\ DOMAIN folders' = DOMAIN folders
          /\ \A i \in DOMAIN folders : folders'[i].name = folders[i].name
      BY <1>0, <2>1
    <3> QED
      BY <2>1, <3>1 DEF Known
  <2>4. CASE event = "none"
    <3>1. past'[f].told = past[f].told
      BY <2>2, <2>4, Zenon DEF Told
    <3>2. UNCHANGED <<News, output>>
      BY <2>1, <2>4, <3>1 DEF News, Silent
    <3> QED
      BY <1>1, <2>3, <3>2, Stutters
  <2>5. CASE event = "UPDATE"
    <3>1. past'[f].told
      BY <2>2, <2>5 DEF Told
    <3>2. News' = News \cup {f}
      BY <2>1, <3>1 DEF News
    <3>3. B!Notify(Me)
      BY <1>1, <2>1, <2>3, <2>5, <3>2, NotifyRefines
    <3> QED
      BY <3>3 DEF B!BackEndStep
  <2>6. CASE event = "RESET"
    <3>1. ~past'[f].told
      BY <2>2, <2>6 DEF Told
    <3>2. News' = News \ {f}
      BY <2>1, <3>1 DEF News
    <3>3. B!Notify(Me)
      BY <1>1, <2>1, <2>3, <2>6, <3>2, NotifyRefines
    <3> QED
      BY <3>3 DEF B!BackEndStep
  <2> QED
    BY <2>1, <2>4, <2>5, <2>6
<1> QED
  BY <1>2, <1>3

(* A request that is served is answered, or kept until it is.              *)
LEMMA ServeRefines ==
  ASSUME StatusInv, MailInv, NEW r \in AllRequests, Serve(r)
  PROVE  Unusual \/ B!BackEndStep(Me) \/ UNCHANGED B!backVars
<1>0. /\ input \in Seq(AllRequests) /\ serving \in Servings /\ files \in [Names -> File]
      /\ past \in [Names -> History] /\ folders \in Seq(FolderRecords)
  BY DEF StatusInv, TypeOK, FolderRecords
<1>1. NextRequest(r)
  BY DEF Serve, AddFolder, PollAll, PollOne, IgnoreData, Malformed, Quit
<1>2. /\ input # <<>> /\ r = Head(input) /\ input' = Tail(input) /\ serving.at = "idle"
      /\ <<r>> \o Tail(input) = input
  BY <1>0, <1>1, ConsHeadTail DEF NextRequest
<1>3. Waiting = input
  BY <1>0, <1>2 DEF Waiting
<1>4. CASE r \notin FrontEndRequests
  BY <1>2, <1>4 DEF Unusual
<1>5. CASE AddFolder(r)
  <2>1. UNCHANGED serving /\ r.verb = "FOLDER" /\ r.arg \in Names
    BY <1>5 DEF AddFolder
  <2>2. Waiting' = Tail(Waiting)
    <3>1. Tail(input) \in Seq(AllRequests) /\ <<>> \o Tail(input) = Tail(input)
      BY <1>0, <1>2, HeadTailProperties
    <3>2. Waiting' = <<>> \o Tail(input)
      BY <1>2, <2>1 DEF Waiting
    <3> QED
      BY <1>3, <3>1, <3>2
  <2>3. CASE /\ folders' = <<update_folder(r.arg)>> \o folders
             /\ past' = [past EXCEPT ![r.arg] = Nothing] /\ netbiff_send("OK", NoArg)
    <3>1. Known' = Known \cup {r.arg}
      BY <1>0, <2>1, <2>3, AddedFolder
    <3>2. r.arg \notin Known
      <4>1. 1 \in DOMAIN input /\ input[1] = r /\ r \in ToAdd
        BY <1>0, <1>2, <2>1, TailPlaces DEF ToAdd
      <4> QED
        BY <4>1 DEF MailInv
    <3>3. ~past[r.arg].told /\ ~past'[r.arg].told /\ \A g \in Names \ {r.arg} : past'[g] = past[g]
      BY <1>0, <2>1, <2>3, <3>2 DEF MailInv, Nothing
    <3>4. UNCHANGED News
      BY <3>3 DEF News
    <3>5. B!Answer(Me)
      BY <1>2, <1>3, <2>1, <2>2, <2>3, <3>1, <3>4, AnswerRefines
    <3> QED
      BY <3>5 DEF B!BackEndStep
  <2>4. CASE netbiff_send("NO", NoArg) /\ UNCHANGED <<folders, past>>
    <3>1. B!Answer(Me)
      BY <1>2, <1>3, <2>1, <2>2, <2>4, AnswerRefines DEF News, Known
    <3> QED
      BY <3>1 DEF B!BackEndStep
  <2> QED
    BY <1>5, <2>3, <2>4 DEF AddFolder
<1>6. CASE PollAll(r)
  <2>1. serving'.at = "poll" /\ serving'.cmd = r /\ UNCHANGED <<folders, past, output>>
    BY <1>6 DEF PollAll, fsVars, Silent
  <2>2. UNCHANGED <<Waiting, News, Known>>
    BY <1>2, <1>3, <2>1 DEF Waiting, News, Known
  <2> QED
    BY <1>2, <2>1, <2>2, Stutters
<1>7. CASE PollOne(r) \/ IgnoreData(r) \/ Malformed(r) \/ Quit(r)
  <2>1. r \notin FrontEndRequests
    BY <1>7, NamesAssumption DEF PollOne, IgnoreData, Dropped, Malformed, Quit, FrontEndRequests
  <2> QED
    BY <1>4, <2>1
<1> QED
  BY <1>5, <1>6, <1>7 DEF Serve

(* Every step is one that BackEnd allows a back end, or a stutter, or      *)
(* answers a request no front end makes: to a front end that asks for      *)
(* folders and polls, this is one of the back ends that Frontend, TextLoop *)
(* and GtkLoop were checked with.                                          *)
THEOREM FileAsBackEnd == Spec => AsBackEnd
<1>1. Spec => []PollInv
  <2>1. Init => PollInv
    BY DEF Init, PollInv, Idle
  <2> QED
    BY <2>1, PollStep, FileStatusInv, PTL DEF Spec
<1>2. ASSUME StatusInv, MailInv, PollInv, [Next]_vars
      PROVE  [Request \/ Taken \/ Unusual \/ B!BackEndStep(Me)]_(B!backVars)
  <2>0. /\ serving \in Servings /\ input \in Seq(AllRequests) /\ folders \in Seq(FolderRecords)
    BY <1>2 DEF StatusInv, TypeOK, FolderRecords
  <2>1. CASE FileSystem
    <3>1. UNCHANGED <<input, serving, output, Waiting, Known>>
      BY <2>1 DEF FileSystem, Waiting, Known, pipeVars, procVars
    <3>2. UNCHANGED News
      BY <1>2, <2>1, FileSystemMoves DEF News, MailInv
    <3> QED
      BY <3>1, <3>2, Stutters
  <2>2. CASE UNCHANGED vars
    BY <2>2, Stutters DEF vars, Waiting, Known, News
  <2>3. CASE Greet
    <3>1. /\ netbiff_send("OK", NoArg) /\ serving.at = "start" /\ serving'.at = "idle"
          /\ UNCHANGED <<input, folders, past>>
      BY <2>3 DEF Greet, Idle, fsVars
    <3>2. B!Greet(Me)
      BY <3>1, GreetRefines DEF Waiting, News, Known
    <3> QED
      BY <3>2 DEF B!BackEndStep
  <2>4. CASE FinishPoll
    <3>1. PICK t \in {"OK", "NO"} : netbiff_send(t, NoArg)
      BY <2>4 DEF FinishPoll
    <3>2. serving.at = "poll" /\ serving'.at = "idle" /\ UNCHANGED <<input, folders, past>>
      BY <2>4 DEF FinishPoll, Idle, fsVars
    <3>3. /\ Waiting = <<serving.cmd>> \o input /\ Waiting' = input
          /\ Waiting # <<>> /\ Head(Waiting) = serving.cmd /\ Waiting' = Tail(Waiting)
      BY <2>0, <3>2, ConsProperties DEF Waiting, Servings
    <3>4. serving.cmd.verb # "FOLDER"
      BY <1>2, <3>2 DEF PollInv
    <3>5. B!Answer(Me)
      BY <3>1, <3>2, <3>3, <3>4, AnswerRefines DEF News, Known
    <3> QED
      BY <3>5 DEF B!BackEndStep
  <2>5. CASE CheckFolder
    BY <1>2, <2>5, CheckRefines
  <2>6. ASSUME NEW r \in AllRequests, Serve(r)
        PROVE  [Request \/ Taken \/ Unusual \/ B!BackEndStep(Me)]_(B!backVars)
    BY <1>2, <2>6, ServeRefines
  <2> QED
    BY <1>2, <2>1, <2>2, <2>3, <2>4, <2>5, <2>6 DEF Next, Process
<1> QED
  BY <1>1, <1>2, FileStatusInv, FileMailInv, PTL DEF AsBackEnd, Spec
===============================================================================
