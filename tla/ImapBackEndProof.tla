--------------------------- MODULE ImapBackEndProof ---------------------------
(***************************************************************************)
(* Proofs about ImapBackEnd, for every set of mailboxes, every kind of     *)
(* server and every bound.                                                 *)
(***************************************************************************)
EXTENDS ImapBackEnd, Counting

-------------------------------------------------------------------------------
(* Types and statuses *)

OutLines == [tag : Tags, arg : Names \cup {NoArg}]
StatusLines == {l \in OutLines : l.tag \in Statuses}

(* The positions that are still to be checked are positions.               *)
InRange == \A k \in DOMAIN serving.left : serving.left[k] \in DOMAIN folders

(* Outside a poll there is nothing to check.                               *)
Resting == serving.at # "poll" => serving.left = <<>>

(* StatusPerRequest, in terms of Counting.                                 *)
Counted == pending = Len(input) + Cardinality(Places(output, StatusLines))
                       + (IF serving.at \in {"start", "asked", "poll"} THEN 1 ELSE 0)

StatusInv == /\ TypeOK
             /\ InRange
             /\ Resting
             /\ Counted

(* What the property counts, in terms of Counting.                         *)
LEMMA StatusesCounted ==
  ASSUME NEW s \in Seq(OutLines)
  PROVE  {k \in DOMAIN s : s[k].tag \in Statuses} = Places(s, StatusLines)
<1>1. \A k \in DOMAIN s : s[k] \in OutLines
  BY LenProperties, ElementOfSeq
<1> QED
  BY <1>1 DEF Places, StatusLines

(* A line that is sent.                                                    *)
LEMMA SendCounts ==
  ASSUME NEW tag \in Tags, NEW f \in Names \cup {NoArg}, netbiff_send(tag, f),
         output \in Seq(OutLines)
  PROVE  /\ output' \in Seq(OutLines)
         /\ Cardinality(Places(output, StatusLines)) \in Nat
         /\ tag \in Statuses => Cardinality(Places(output', StatusLines))
                                  = Cardinality(Places(output, StatusLines)) + 1
         /\ tag \notin Statuses => Cardinality(Places(output', StatusLines))
                                     = Cardinality(Places(output, StatusLines))
<1>1. Line(tag, f) \in OutLines /\ Line(tag, f).tag = tag
  BY DEF Line, OutLines
<1>2. Line(tag, f) \in StatusLines <=> tag \in Statuses
  BY <1>1 DEF StatusLines
<1>3. output' = Append(output, Line(tag, f))
  BY DEF netbiff_send
<1>4. Append(output, Line(tag, f)) \in Seq(OutLines)
  BY <1>1, AppendProperties
<1> QED
  BY <1>1, <1>2, <1>3, <1>4, PlacesAppend, PlacesFinite

(* The request main serves next.                                           *)
LEMMA NextTaken ==
  ASSUME NEW r, NextRequest(r), input \in Seq(AllRequests)
  PROVE  /\ r \in AllRequests /\ r = Head(input)
         /\ input' \in Seq(AllRequests) /\ Len(input') = Len(input) - 1
         /\ Len(input) \in Nat \ {0}
         /\ serving.at = "idle"
BY HeadTailProperties, EmptySeq, LenProperties DEF NextRequest

(* What may be returned by a login, and by a STATUS command.               *)
LEMMA LoginType == imap_login \subseteq Contexts
BY DEF imap_login, Contexts

LEMMA CountType ==
  ASSUME TypeOK, NEW f \in Names
  PROVE  imap_get_recent(f) \subseteq [count : Nat, recent : Nat]
<1>1. unseen[f] \in Nat /\ imap.recent \in Nat
  BY LimitsAssumption DEF TypeOK, Contexts
<1> QED
  BY <1>1 DEF imap_get_recent

(* All the positions of the list, as PollAll and a login check them.       *)
LEMMA EverythingInRange ==
  ASSUME folders \in Seq([name : Names, recent : Nat])
  PROVE  /\ Everything \in Seq(Nat)
         /\ DOMAIN Everything = DOMAIN folders
         /\ \A k \in DOMAIN Everything : Everything[k] \in DOMAIN folders
<1>1. Len(folders) \in Nat /\ DOMAIN folders = 1 .. Len(folders)
  BY LenProperties
<1>2. Everything \in [1 .. Len(folders) -> Nat]
  BY <1>1 DEF Everything
<1>3. Everything \in Seq(Nat)
  BY <1>1, <1>2, SeqDef
<1> QED
  BY <1>1, <1>3 DEF Everything

LEMMA IdleType == Idle \in Servings
<1>1. <<>> \in Seq(Nat)
  BY EmptySeq
<1>2. Ask("POLL", NoArg) \in AllRequests
  BY DEF Ask, AllRequests, Verbs
<1> QED
  BY <1>1, <1>2 DEF Idle, Servings

LEMMA StatusInit == Init => StatusInv
<1> SUFFICES ASSUME Init PROVE StatusInv
  OBVIOUS
<1>1. serving \in Servings /\ serving.at = "start" /\ serving.left = <<>>
  BY IdleType DEF Init, Idle, Servings
<1>2. imap \in Contexts
  BY DEF Init, NoContext, Contexts
<1>3. past \in [Names -> History]
  BY DEF Init, History
<1>4. TypeOK
  BY <1>1, <1>2, <1>3 DEF Init, TypeOK
<1>5. Counted
  <2>1. Len(input) = 0 /\ Cardinality(Places(output, StatusLines)) = 0
    BY PlacesNone DEF Init
  <2> QED
    BY <1>1, <2>1 DEF Init, Counted
<1> QED
  BY <1>1, <1>4, <1>5 DEF StatusInv, InRange, Resting

(* A check is of a folder of the list.                                     *)
LEMMA CheckedFolder ==
  ASSUME StatusInv, CheckFolder
  PROVE  /\ Head(serving.left) \in DOMAIN folders
         /\ folders[Head(serving.left)] \in [name : Names, recent : Nat]
<1>1. /\ serving.left \in Seq(Nat) /\ serving.left # <<>>
      /\ folders \in Seq([name : Names, recent : Nat])
  BY DEF StatusInv, TypeOK, Servings, CheckFolder
<1>2. Head(serving.left) = serving.left[1] /\ 1 \in DOMAIN serving.left
  BY <1>1, EmptySeq, LenProperties
<1>3. Head(serving.left) \in DOMAIN folders
  BY <1>2 DEF StatusInv, InRange
<1> QED
  BY <1>1, <1>3, ElementOfSeq, LenProperties

(* What a step of the back end adds to the output, and what it leaves to   *)
(* answer, are one status for each request.                                *)
LEMMA ProcessStatus == StatusInv /\ Process => StatusInv'
<1> SUFFICES ASSUME StatusInv, Process PROVE StatusInv'
  OBVIOUS
<1> DEFINE Busy(at) == IF at \in {"start", "asked", "poll"} THEN 1 ELSE 0
           n == Cardinality(Places(output, StatusLines))
<1>0. /\ output \in Seq(OutLines) /\ n \in Nat
      /\ input \in Seq(AllRequests) /\ Len(input) \in Nat
      /\ pending \in Nat /\ serving \in Servings /\ imap \in Contexts
      /\ folders \in Seq([name : Names, recent : Nat])
      /\ unseen \in [Names -> 0 .. MaxUnseen] /\ past \in [Names -> History]
  BY PlacesFinite, LenProperties DEF StatusInv, TypeOK, OutLines
<1>1. pending = Len(input) + n + Busy(serving.at)
  BY DEF StatusInv, Counted
<1> DEFINE m == Cardinality(Places(output', StatusLines))
           Good == /\ output' \in Seq(OutLines) /\ input' \in Seq(AllRequests)
                   /\ folders' \in Seq([name : Names, recent : Nat])
                   /\ imap' \in Contexts /\ serving' \in Servings
                   /\ past' \in [Names -> History]
                   /\ UNCHANGED <<unseen, pending>>
                   /\ InRange' /\ Resting'
                   /\ m \in Nat
                   /\ Len(input') + m + Busy(serving'.at) = Len(input) + n + Busy(serving.at)
<1> HIDE DEF Busy, n, m
<1>2. Good
  <2> DEFINE Replied(t) == /\ output' \in Seq(OutLines) /\ m \in Nat
                           /\ t \in Statuses => m = n + 1
                           /\ t \notin Statuses => m = n
  <2>1. ASSUME NEW t \in Tags, NEW f \in Names \cup {NoArg}, netbiff_send(t, f)
        PROVE  Replied(t)
    BY <1>0, <2>1, SendCounts DEF n, m, PlacesFinite
  <2>2. UNCHANGED output => output' \in Seq(OutLines) /\ m \in Nat /\ m = n
    BY <1>0 DEF m, n
  <2>3. /\ Busy("start") = 1 /\ Busy("asked") = 1 /\ Busy("poll") = 1
        /\ Busy("idle") = 0 /\ Busy("failed") = 0 /\ Busy("exited") = 0
    BY DEF Busy
  <2>4. serving'.left = <<>> => InRange' /\ Resting'
    BY DEF InRange, Resting
  <2>6. Idle \in Servings /\ Idle.at = "idle" /\ Idle.left = <<>>
    BY IdleType DEF Idle
  <2> HIDE DEF Replied
  <2>10. CASE Start
    <3>1. imap' \in Contexts
      BY <2>10, LoginType DEF Start, NoContext, Contexts
    <3>0. serving.at = "start" /\ UNCHANGED <<input, folders, unseen, past, pending>>
      BY <2>10, Zenon DEF Start
    <3>2. CASE netbiff_send("NO", NoArg) /\ serving' = [serving EXCEPT !.at = "failed"]
      <4>1. Replied("NO")
        BY <2>1, <3>2 DEF Tags
      <4>2. serving' \in Servings /\ serving'.at = "failed" /\ serving'.left = <<>>
        BY <1>0, <2>10, <3>2 DEF Start, Servings, StatusInv, Resting
      <4>3. m = n + 1 /\ m \in Nat /\ output' \in Seq(OutLines)
        BY <4>1 DEF Replied, Statuses
      <4> QED
        BY <1>0, <2>3, <2>4, <3>0, <3>1, <4>2, <4>3
    <3>3. CASE netbiff_send("OK", NoArg) /\ serving' = Idle
      <4>1. Replied("OK")
        BY <2>1, <3>3 DEF Tags
      <4>2. m = n + 1 /\ m \in Nat /\ output' \in Seq(OutLines)
        BY <4>1 DEF Replied, Statuses
      <4> QED
        BY <1>0, <2>3, <2>4, <2>6, <3>0, <3>1, <3>3, <4>2
    <3> QED
      BY <2>10, <3>2, <3>3 DEF Start
  <2>11. CASE Asked
    <3>1. Replied("OK")
      BY <2>1, <2>11, SMTT(30) DEF Asked, Tags
    <3> QED
      BY <1>0, <2>3, <2>4, <2>6, <2>11, <3>1 DEF Asked, Replied, Statuses
  <2>12. CASE CheckFolder
    <3> DEFINE k == Head(serving.left)
    <3>1. /\ serving.left \in Seq(Nat) /\ serving.left # <<>> /\ serving.at = "poll"
          /\ DOMAIN serving.left = 1 .. Len(serving.left)
          /\ Len(serving.left) \in Nat \ {0}
      BY <1>0, <2>12, LenProperties, EmptySeq DEF CheckFolder, Servings
    <3>2. k \in DOMAIN folders /\ folders[k] \in [name : Names, recent : Nat]
      BY <2>12, CheckedFolder
    <3> DEFINE f == folders[k].name
    <3>3. PICK got \in imap_get_recent(f) :
            LET event == EventFor(folders[k].recent, got.count)
            IN  /\ IF event = "none" THEN UNCHANGED output
                                     ELSE netbiff_send(event, f)
                /\ folders' = Record(k, got.count)
                /\ imap' = [imap EXCEPT !.recent = got.recent]
                /\ past' = [past EXCEPT ![f] =
                              [came |-> FALSE, went |-> FALSE, told |-> Told(@.told, event)]]
      BY <2>12 DEF CheckFolder
    <3>4. got \in [count : Nat, recent : Nat]
      BY <3>2, <3>3, CountType DEF StatusInv
    <3> DEFINE event == EventFor(folders[k].recent, got.count)
    <3> HIDE DEF k
    <3>5. event \in {"UPDATE", "RESET", "none"}
      BY <3>2, <3>4 DEF EventFor
    <3>6. output' \in Seq(OutLines) /\ m \in Nat /\ m = n
      <4>1. CASE event = "none"
        BY <2>2, <3>3, <4>1
      <4>2. CASE event # "none"
        <5>1. Replied(event) /\ event \notin Statuses
          BY <2>1, <3>2, <3>3, <3>5, <4>2 DEF Tags, Statuses
        <5> QED
          BY <5>1 DEF Replied
      <4> QED
        BY <4>1, <4>2
    <3>7. /\ folders' \in Seq([name : Names, recent : Nat])
          /\ Len(folders') = Len(folders) /\ DOMAIN folders' = DOMAIN folders
      <4>0. [folders[k] EXCEPT !.recent = got.count]
              = [name |-> folders[k].name, recent |-> got.count]
        BY <3>2, <3>4
      <4>1. folders' = [folders EXCEPT ![k] = [name |-> folders[k].name, recent |-> got.count]]
        BY <3>3, <4>0, Zenon DEF Record
      <4>2. [name |-> folders[k].name, recent |-> got.count] \in [name : Names, recent : Nat]
        BY <3>2, <3>4
      <4>3. k \in 1 .. Len(folders)
        BY <1>0, <3>2, LenProperties
      <4> QED
        BY <1>0, <4>1, <4>2, <4>3, ExceptSeq
    <3>8. past' \in [Names -> History]
      <4>1. Told(past[f].told, event) \in BOOLEAN
        BY <1>0, <3>2 DEF Told, History
      <4> QED
        BY <1>0, <3>2, <3>3, <4>1 DEF History
    <3>9. imap' \in Contexts
      BY <1>0, <3>3, <3>4 DEF Contexts
    <3>10. /\ serving' \in Servings /\ serving'.at = "poll"
           /\ serving'.left = Tail(serving.left)
      BY <1>0, <2>12, <3>1, HeadTailProperties DEF CheckFolder, Servings
    <3>11. InRange'
      <4>1. /\ DOMAIN Tail(serving.left) = 1 .. Len(serving.left) - 1
            /\ \A i \in 1 .. Len(serving.left) - 1 : Tail(serving.left)[i] = serving.left[i + 1]
        BY <3>1, HeadTailProperties, LenProperties
      <4>2. \A i \in 1 .. Len(serving.left) : serving.left[i] \in DOMAIN folders
        BY <3>1 DEF StatusInv, InRange
      <4>3. \A i \in 1 .. Len(serving.left) - 1 : Tail(serving.left)[i] \in DOMAIN folders
        BY <3>1, <4>1, <4>2
      <4> QED
        BY <3>7, <3>10, <4>1, <4>3 DEF InRange
    <3> QED
      BY <1>0, <2>3, <2>4, <2>12, <3>1, <3>6, <3>7, <3>8, <3>9, <3>10, <3>11 DEF CheckFolder, Resting
  <2>13. CASE CheckFails
    <3>1. Replied("NO")
      BY <2>1, <2>13 DEF CheckFails, Tags
    <3>2. /\ serving' \in Servings /\ serving'.at = "failed" /\ serving'.left = <<>>
          /\ imap' \in Contexts
      BY <1>0, <2>13, EmptySeq DEF CheckFails, GiveUp, Servings, Contexts
    <3> QED
      BY <1>0, <2>3, <2>4, <2>13, <3>1, <3>2
         DEF CheckFails, Replied, Statuses
  <2>14. CASE FinishPoll
    <3>1. Replied("OK")
      BY <2>1, <2>14 DEF FinishPoll, Tags
    <3> QED
      BY <1>0, <2>3, <2>4, <2>6, <2>14, <3>1 DEF FinishPoll, Replied, Statuses
  <2>15. CASE Exit
    <3>1. /\ serving' \in Servings /\ serving'.at = "exited" /\ serving'.left = <<>>
          /\ imap' \in Contexts
      BY <1>0, <2>15 DEF Exit, Servings, NoContext, Contexts, StatusInv, Resting
    <3> QED
      BY <1>0, <2>2, <2>3, <2>4, <2>15, <3>1 DEF Exit
  <2>20. ASSUME NEW r \in AllRequests, Serve(r) PROVE Good
    <3>1. NextRequest(r)
      BY <2>20 DEF Serve, AddFolder, AskPassword, PollAll, PollOne, DataResponse,
                   OtherData, Malformed, Quit
    <3>2. /\ r = Head(input) /\ input' \in Seq(AllRequests)
          /\ Len(input') = Len(input) - 1 /\ Len(input') \in Nat
          /\ serving.at = "idle" /\ serving.left = <<>>
      BY <1>0, <3>1, NextTaken DEF StatusInv, Resting
    <3>3. UNCHANGED <<unseen, pending>>
      BY <2>20 DEF Serve, AddFolder, AskPassword, PollAll, PollOne, DataResponse,
                   OtherData, Malformed, Quit
    <3>4. \A p \in Seq(Nat) : /\ Polling(r, p) \in Servings
                               /\ Polling(r, p).at = "poll" /\ Polling(r, p).left = p
      BY DEF Polling, Servings
    <3>5. CASE AddFolder(r)
      <4>1. Replied("OK")
        BY <2>1, <3>5 DEF AddFolder, Tags
      <4>2. folders' \in Seq([name : Names, recent : Nat])
        <5>1. <<[name |-> r.arg, recent |-> 0]>> \in Seq([name : Names, recent : Nat])
          BY <3>5 DEF AddFolder
        <5> QED
          BY <1>0, <3>5, <5>1, ConcatProperties DEF AddFolder
      <4>3. past' \in [Names -> History]
        <5> DEFINE new == unseen[r.arg] > 0
        <5>1. new \in BOOLEAN
          OBVIOUS
        <5>2. past' = [past EXCEPT ![r.arg].came = new, ![r.arg].went = FALSE]
          BY <3>5, Zenon DEF AddFolder
        <5>3. r.arg \in Names
          BY <3>5 DEF AddFolder
        <5> HIDE DEF new
        <5> QED
          BY <1>0, <5>1, <5>2, <5>3 DEF History
      <4>4. UNCHANGED <<imap, serving>>
        BY <3>5 DEF AddFolder
      <4>5. m = n + 1 /\ m \in Nat /\ output' \in Seq(OutLines)
        BY <4>1 DEF Replied, Statuses
      <4>6. InRange' /\ Resting'
        BY <2>4, <3>2, <4>4
      <4>7. Len(input') + m + Busy(serving'.at) = Len(input) + n + Busy(serving.at)
        BY <1>0, <2>3, <3>2, <4>4, <4>5
      <4> QED
        BY <1>0, <3>2, <3>3, <4>2, <4>3, <4>4, <4>5, <4>6, <4>7
    <3>6. CASE AskPassword(r)
      <4>1. Replied("DATAREQUEST")
        BY <2>1, <3>6 DEF AskPassword, Tags
      <4>2. serving' \in Servings /\ serving'.at = "asked" /\ serving'.left = <<>>
        BY <1>0, <3>2, <3>6 DEF AskPassword, Servings
      <4>3. UNCHANGED <<folders, imap, past>>
        BY <3>6 DEF AskPassword
      <4>4. m = n /\ m \in Nat /\ output' \in Seq(OutLines)
        BY <1>0, <4>1 DEF Replied, Statuses
      <4>5. InRange' /\ Resting'
        BY <2>4, <4>2
      <4>6. Len(input') + m + Busy(serving'.at) = Len(input) + n + Busy(serving.at)
        BY <1>0, <2>3, <3>2, <4>2, <4>4
      <4> QED
        BY <1>0, <3>2, <3>3, <4>2, <4>3, <4>4, <4>5, <4>6
    <3>7. CASE PollAll(r)
      BY <1>0, <2>2, <2>3, <3>2, <3>3, <3>4, <3>7, EverythingInRange DEF PollAll, InRange, Resting
    <3>8. CASE PollOne(r)
      <4>1. CASE Named(r.arg) = {} /\ netbiff_send("NO", NoArg) /\ UNCHANGED serving
        <5>1. Replied("NO")
          BY <2>1, <4>1 DEF Tags
        <5> QED
          BY <1>0, <2>3, <2>4, <3>2, <3>3, <3>8, <4>1, <5>1
             DEF PollOne, Replied, Statuses
      <4>2. ASSUME NEW k \in Named(r.arg), serving' = Polling(r, <<k>>), UNCHANGED output
            PROVE  Good
        <5>1. k \in DOMAIN folders /\ k \in Nat
          BY <1>0, LenProperties DEF Named
        <5>2. <<k>> \in Seq(Nat) /\ DOMAIN <<k>> = {1} /\ <<k>>[1] = k
          BY <5>1
        <5>3. UNCHANGED <<folders, imap, past>>
          BY <3>8 DEF PollOne
        <5>4. serving' \in Servings /\ serving'.at = "poll" /\ serving'.left = <<k>>
          BY <3>4, <4>2, <5>2
        <5>5. InRange' /\ Resting'
          BY <5>1, <5>2, <5>3, <5>4 DEF InRange, Resting
        <5> QED
          BY <1>0, <2>2, <2>3, <3>2, <3>3, <4>2, <5>3, <5>4, <5>5
      <4> QED
        BY <3>8, <4>1, <4>2 DEF PollOne
    <3>9. CASE DataResponse(r)
      <4>1. imap' \in Contexts
        BY <3>9, LoginType DEF DataResponse
      <4>2. CASE netbiff_send("NO", NoArg) /\ UNCHANGED serving
        <5>1. Replied("NO")
          BY <2>1, <4>2 DEF Tags
        <5>2. UNCHANGED <<folders, serving, past>>
          BY <3>9, <4>2 DEF DataResponse
        <5>3. m = n + 1 /\ m \in Nat /\ output' \in Seq(OutLines)
          BY <5>1 DEF Replied, Statuses
        <5>4. InRange' /\ Resting' /\ serving'.at = "idle" /\ serving.at = "idle"
          BY <2>4, <3>2, <5>2
        <5>5. Len(input') + m + Busy(serving'.at) = Len(input) + n + Busy(serving.at)
          BY <1>0, <2>3, <3>2, <5>3, <5>4
        <5> QED
          BY <1>0, <3>2, <3>3, <4>1, <5>2, <5>3, <5>4, <5>5
      <4>3. CASE serving' = Polling(r, Everything) /\ UNCHANGED output
        BY <1>0, <2>2, <2>3, <3>2, <3>3, <3>4, <3>9, <4>1, <4>3, EverythingInRange
           DEF DataResponse, InRange, Resting
      <4> QED
        BY <3>9, <4>2, <4>3 DEF DataResponse
    <3>10. CASE OtherData(r) \/ Malformed(r)
      <4>1. Replied("NO") \/ Replied("BAD")
        BY <2>1, <3>10 DEF OtherData, Malformed, Tags
      <4>2. UNCHANGED <<folders, imap, serving, past>>
        BY <3>10 DEF OtherData, Malformed
      <4>3. m = n + 1 /\ m \in Nat /\ output' \in Seq(OutLines)
        BY <4>1 DEF Replied, Statuses
      <4>4. InRange' /\ Resting'
        BY <2>4, <3>2, <4>2
      <4>5. Len(input') + m + Busy(serving'.at) = Len(input) + n + Busy(serving.at)
        BY <1>0, <2>3, <3>2, <4>2, <4>3
      <4> QED
        BY <1>0, <3>2, <3>3, <4>2, <4>3, <4>4, <4>5
    <3>11. CASE Quit(r)
      <4>1. Replied("OK")
        BY <2>1, <3>11 DEF Quit, Tags
      <4>2. /\ serving' \in Servings /\ serving'.at = "exited" /\ serving'.left = <<>>
            /\ imap' \in Contexts
        BY <1>0, <3>2, <3>11 DEF Quit, Servings, NoContext, Contexts
      <4>3. UNCHANGED <<folders, past>>
        BY <3>11 DEF Quit
      <4>4. m = n + 1 /\ m \in Nat /\ output' \in Seq(OutLines)
        BY <4>1 DEF Replied, Statuses
      <4> QED
        BY <1>0, <2>3, <2>4, <3>2, <3>3, <4>2, <4>3, <4>4
    <3> QED
      BY <2>20, <3>5, <3>6, <3>7, <3>8, <3>9, <3>10, <3>11 DEF Serve
  <2> QED
    BY <2>10, <2>11, <2>12, <2>13, <2>14, <2>15, <2>20 DEF Process
<1> QED
  BY <1>1, <1>2 DEF StatusInv, TypeOK, Counted, Busy, m, OutLines

LEMMA StatusStep == StatusInv /\ [Next]_vars => StatusInv'
<1> SUFFICES ASSUME StatusInv, [Next]_vars PROVE StatusInv'
  OBVIOUS
<1> DEFINE n == Cardinality(Places(output, StatusLines))
<1>0. /\ output \in Seq(OutLines) /\ n \in Nat
      /\ input \in Seq(AllRequests) /\ Len(input) \in Nat
      /\ pending \in Nat /\ serving \in Servings /\ imap \in Contexts
      /\ folders \in Seq([name : Names, recent : Nat])
      /\ unseen \in [Names -> 0 .. MaxUnseen] /\ past \in [Names -> History]
  BY PlacesFinite, LenProperties DEF StatusInv, TypeOK, OutLines
<1> USE DEF StatusInv
<1>1. CASE Server
  <2> USE <1>1 DEF Server
  <2>1. imap' \in Contexts /\ unseen' \in [Names -> 0 .. MaxUnseen] /\ past' \in [Names -> History]
    <3>1. CASE HangUp
      BY <1>0, <3>1 DEF HangUp, Contexts
    <3>2. ASSUME NEW f \in Names, Deliver(f)
          PROVE  imap' \in Contexts /\ unseen' \in [Names -> 0 .. MaxUnseen] /\ past' \in [Names -> History]
      <4>1. unseen[f] + 1 \in 0 .. MaxUnseen
        BY <1>0, <3>2, LimitsAssumption DEF Deliver
      <4> QED
        BY <1>0, <3>2, <4>1 DEF Deliver, History
    <3>3. ASSUME NEW f \in Names, See(f)
          PROVE  imap' \in Contexts /\ unseen' \in [Names -> 0 .. MaxUnseen] /\ past' \in [Names -> History]
      <4>1. unseen[f] - 1 \in 0 .. MaxUnseen
        BY <1>0, <3>3, LimitsAssumption DEF See
      <4> QED
        BY <1>0, <3>3, <4>1 DEF See, History
    <3> QED
      BY <3>1, <3>2, <3>3
  <2> QED
    BY <1>0, <2>1 DEF TypeOK, InRange, Resting, Counted
<1>2. CASE Request
  <2> PICK r \in FrontEndRequests \cup Extras : input' = Append(input, r)
    BY <1>2 DEF Request
  <2>1. r \in AllRequests
    BY ExtrasAssumption DEF FrontEndRequests, Ask, AllRequests, Verbs
  <2>2. input' \in Seq(AllRequests) /\ Len(input') = Len(input) + 1
    BY <1>0, <2>1, AppendProperties
  <2>3. TypeOK'
    BY <1>2, <2>2 DEF TypeOK, Request, backVars
  <2> QED
    BY <1>0, <1>2, <2>2, <2>3 DEF Request, backVars, InRange, Resting, Counted
<1>3. CASE Taken
  <2>1. /\ Head(output) \in OutLines /\ output' \in Seq(OutLines)
        /\ Head(output).tag \in Statuses => n = Cardinality(Places(output', StatusLines)) + 1
        /\ Head(output).tag \notin Statuses => n = Cardinality(Places(output', StatusLines))
        /\ Cardinality(Places(output', StatusLines)) \in Nat
    <3>1. output # <<>> /\ output' = Tail(output)
      BY <1>3 DEF Taken
    <3>2. Head(output) \in OutLines /\ output' \in Seq(OutLines)
      BY <1>0, <3>1, HeadTailProperties
    <3>3. Head(output) \in StatusLines <=> Head(output).tag \in Statuses
      BY <3>2 DEF StatusLines
    <3> QED
      BY <1>0, <3>1, <3>2, <3>3, PlacesTail, PlacesFinite
  <2>2. UNCHANGED backVars
    BY <1>3 DEF Taken
  <2> HIDE DEF n
  <2>3. PICK m \in Nat, w \in Nat :
          /\ m = Cardinality(Places(output', StatusLines))
          /\ w = IF serving.at \in {"start", "asked", "poll"} THEN 1 ELSE 0
    BY <2>1
  <2>4. pending = Len(input) + n + w
    BY <2>3 DEF Counted, n
  <2>5. (input' \in Seq(AllRequests) /\ pending' \in Nat) /\ pending' = Len(input') + m + w
    <3>1. CASE Head(output).tag \in Statuses /\ pending' = pending - 1 /\ UNCHANGED input
      <4>1. n = m + 1
        BY <2>1, <2>3, <3>1
      <4> QED
        BY <1>0, <2>4, <3>1, <4>1
    <3>2. CASE Head(output).tag \notin Statuses /\ UNCHANGED <<input, pending>>
      <4>1. n = m
        BY <2>1, <2>3, <3>2
      <4> QED
        BY <1>0, <2>4, <3>2, <4>1
    <3>3. CASE /\ Head(output).tag \notin Statuses
               /\ input' = Append(input, Ask("DATARESPONSE", NoArg)) /\ pending' = pending + 1
      <4>1. Ask("DATARESPONSE", NoArg) \in AllRequests
        BY DEF Ask, AllRequests, Verbs
      <4>2. input' \in Seq(AllRequests) /\ Len(input') = Len(input) + 1
        BY <1>0, <3>3, <4>1, AppendProperties
      <4>3. n = m
        BY <2>1, <2>3, <3>3
      <4> QED
        BY <1>0, <2>4, <3>3, <4>2, <4>3
    <3> QED
      BY <1>3, <3>1, <3>2, <3>3 DEF Taken, Statuses
  <2>6. Counted'
    BY <2>2, <2>3, <2>5 DEF Counted, backVars
  <2> QED
    BY <1>0, <2>1, <2>2, <2>5, <2>6 DEF TypeOK, backVars, InRange, Resting, OutLines
<1>4. CASE Process
  BY <1>4, ProcessStatus
<1>5. CASE UNCHANGED vars
  BY <1>0, <1>5 DEF vars, TypeOK, InRange, Resting, Counted
<1> QED
  BY <1>1, <1>2, <1>3, <1>4, <1>5 DEF Next

LEMMA ImapStatusInv == Spec => []StatusInv
  BY StatusInit, StatusStep, PTL DEF Spec

(* The variables of the IMAP back end and of those around it keep their    *)
(* types: it never looks for a folder past the end of its list (InRange).  *)
THEOREM ImapTypeOK == Spec => []TypeOK
<1>1. StatusInv => TypeOK
  BY DEF StatusInv
<1> QED
  BY <1>1, ImapStatusInv, PTL

(* Every request gets its one status (PROTO:37), whatever the server does. *)
THEOREM ImapStatusPerRequest == Spec => []StatusPerRequest
<1>1. StatusInv => StatusPerRequest
  BY StatusesCounted DEF StatusInv, Counted, StatusPerRequest, TypeOK, OutLines
<1> QED
  BY <1>1, ImapStatusInv, PTL

-------------------------------------------------------------------------------
(* Passwords *)

Password == Ask("DATARESPONSE", NoArg)
Prompts == {k \in DOMAIN output : output[k].tag = "DATAREQUEST"}
Answers == {k \in DOMAIN input : input[k] = Password}

(* A status is to be read after the line at k.                             *)
Followed(k) == \E j \in DOMAIN output : j > k /\ output[j].tag \in Statuses

(* There is never more than one request in the pipe.  While the front end  *)
(* is being asked there is none, it is asked once, and a status is to      *)
(* follow: so it does not make any before it has answered.                 *)
PromptInv ==
    /\ Len(input) <= 1
    /\ \A k \in Prompts :
         /\ input = <<>>
         /\ \A j \in Prompts : j = k
         /\ serving.at = "asked" \/ Followed(k)
    /\ Prompts # {} \/ Answers # {} => imap.session = "none"
    /\ serving.at = "poll" => imap.session # "none"
    /\ serving.at = "start" => input = <<>> /\ output = <<>> /\ imap.session = "none"

(* A line that is sent does not undo that another is followed by a status, *)
(* and a status follows all that was sent before.                          *)
LEMMA SendPrompts ==
  ASSUME NEW tag \in Tags, NEW f \in Names \cup {NoArg}, netbiff_send(tag, f),
         output \in Seq(OutLines)
  PROVE  /\ tag # "DATAREQUEST" => Prompts' = Prompts
         /\ tag = "DATAREQUEST" => Prompts' = Prompts \cup {Len(output) + 1}
         /\ \A k \in Prompts : Followed(k) => Followed(k)'
         /\ tag \in Statuses => \A k \in Prompts : Followed(k)'
         /\ output' # <<>>
<1>1. Line(tag, f) \in OutLines /\ Line(tag, f).tag = tag
  BY DEF Line, OutLines
<1>2. output' = Append(output, Line(tag, f)) /\ Len(output) \in Nat
  BY LenProperties DEF netbiff_send
<1>3. /\ DOMAIN output = 1 .. Len(output) /\ DOMAIN output' = 1 .. Len(output) + 1
      /\ \A i \in 1 .. Len(output) : output'[i] = output[i]
      /\ output'[Len(output) + 1] = Line(tag, f)
  BY <1>1, <1>2, AppendProperties, LenProperties
<1>4. /\ tag # "DATAREQUEST" => Prompts' = Prompts
      /\ tag = "DATAREQUEST" => Prompts' = Prompts \cup {Len(output) + 1}
  BY <1>1, <1>2, <1>3 DEF Prompts
<1>5. \A k \in Prompts : Followed(k) => Followed(k)'
  BY <1>2, <1>3 DEF Followed
<1>6. tag \in Statuses => \A k \in Prompts : Followed(k)'
  BY <1>1, <1>2, <1>3 DEF Followed, Prompts
<1>7. output' # <<>>
  BY <1>2, <1>3
<1> QED
  BY <1>4, <1>5, <1>6, <1>7

(* Nothing is to be read, nor to be answered, when the front end waits for *)
(* nothing.                                                                *)
LEMMA NothingPending ==
  ASSUME StatusInv
  PROVE  /\ pending = 0 => /\ input = <<>> /\ serving.at \notin {"start", "asked", "poll"}
                          /\ \A k \in DOMAIN output : output[k].tag \notin Statuses
         /\ serving.at = "start" => pending # 0
<1> DEFINE n == Cardinality(Places(output, StatusLines))
<1>1. /\ output \in Seq(OutLines) /\ input \in Seq(AllRequests)
      /\ n \in Nat /\ Len(input) \in Nat /\ IsFiniteSet(Places(output, StatusLines))
  BY PlacesFinite, LenProperties DEF StatusInv, TypeOK, OutLines
<1>2. pending = Len(input) + n + (IF serving.at \in {"start", "asked", "poll"} THEN 1 ELSE 0)
  BY DEF StatusInv, Counted
<1> HIDE DEF n
<1>3. serving.at = "start" => pending # 0
  BY <1>1, <1>2
<1>4. pending = 0 => Len(input) = 0 /\ n = 0 /\ serving.at \notin {"start", "asked", "poll"}
  BY <1>1, <1>2
<1>5. n = 0 => Places(output, StatusLines) = {}
  BY <1>1, FS_EmptySet DEF n
<1>6. Len(input) = 0 => input = <<>>
  BY <1>1, EmptySeq
<1> QED
  BY <1>1, <1>3, <1>4, <1>5, <1>6, StatusesCounted

(* What a check may send is an event about a folder of the list.           *)
LEMMA CheckSends ==
  ASSUME StatusInv, CheckFolder
  PROVE  UNCHANGED output \/ \E t \in {"UPDATE", "RESET"}, f \in Names : netbiff_send(t, f)
<1> DEFINE old == folders[Head(serving.left)]
<1>1. old \in [name : Names, recent : Nat]
  BY CheckedFolder
<1>2. PICK got \in imap_get_recent(old.name) :
        IF EventFor(old.recent, got.count) = "none"
          THEN UNCHANGED output ELSE netbiff_send(EventFor(old.recent, got.count), old.name)
  BY DEF CheckFolder
<1>3. got \in [count : Nat, recent : Nat]
  BY <1>1, <1>2, CountType DEF StatusInv
<1> HIDE DEF old
<1>4. EventFor(old.recent, got.count) \in {"UPDATE", "RESET", "none"}
  BY <1>1, <1>3 DEF EventFor
<1> QED
  BY <1>1, <1>2, <1>4

LEMMA PromptStep ==
  ASSUME Password \notin Extras, StatusInv, PromptInv, [Next]_vars
  PROVE  PromptInv'
<1>0. /\ output \in Seq(OutLines) /\ input \in Seq(AllRequests)
      /\ Len(input) \in Nat /\ Len(output) \in Nat
      /\ DOMAIN output = 1 .. Len(output) /\ DOMAIN input = 1 .. Len(input)
      /\ serving \in Servings /\ imap \in Contexts
  BY LenProperties DEF StatusInv, TypeOK, OutLines
<1>1. CASE UNCHANGED <<input, output, serving>> /\ (imap'.session = "none" <=> imap.session = "none")
  BY <1>1 DEF PromptInv, Prompts, Answers, Followed
<1>2. CASE Server
  <2>1. imap'.session = "none" <=> imap.session = "none"
    BY <1>0, <1>2 DEF Server, HangUp, Deliver, See, Contexts
  <2> QED
    BY <1>1, <1>2, <2>1 DEF Server
<1>3. CASE Request
  <2>1. PICK r \in FrontEndRequests \cup Extras : input' = Append(input, r)
    BY <1>3 DEF Request
  <2>2. r # Password
    BY DEF FrontEndRequests, Password, Ask
  <2>3. /\ input = <<>> /\ serving.at \notin {"start", "asked", "poll"}
        /\ \A k \in DOMAIN output : output[k].tag \notin Statuses
    BY <1>3, NothingPending DEF Request
  <2>4. Prompts = {}
    BY <2>3 DEF PromptInv, Followed
  <2>5. input' = <<r>>
    BY <2>1, <2>3
  <2>6. Len(input') = 1 /\ Answers' = {}
    BY <2>2, <2>5 DEF Answers
  <2>7. UNCHANGED <<output, imap, serving>>
    BY <1>3 DEF Request, backVars
  <2>8. Prompts' = {}
    BY <2>4, <2>7 DEF Prompts
  <2> QED
    BY <2>3, <2>6, <2>7, <2>8 DEF PromptInv
<1>4. CASE Taken
  <2>1. /\ output # <<>> /\ Head(output) = output[1] /\ Len(output) # 0
        /\ DOMAIN output' = 1 .. Len(output) - 1
        /\ \A k \in 1 .. Len(output) - 1 : output'[k] = output[k + 1]
    BY <1>0, <1>4, HeadTailProperties, EmptySeq, LenProperties DEF Taken
  <2>2. UNCHANGED <<imap, serving>>
    BY <1>4 DEF Taken, backVars
  <2>3. Prompts' \subseteq Nat /\ \A k \in Nat : k \in Prompts' <=> k # 0 /\ k + 1 \in Prompts
    BY <1>0, <2>1 DEF Prompts
  <2>4. CASE Head(output).tag # "DATAREQUEST" /\ UNCHANGED input
    <3>1. ASSUME NEW k \in Prompts', Followed(k + 1) PROVE Followed(k)'
      <4>1. PICK j \in DOMAIN output : j > k + 1 /\ output[j].tag \in Statuses
        BY <3>1 DEF Followed
      <4>2. j - 1 \in DOMAIN output' /\ j - 1 > k /\ output'[j - 1] = output[j]
        BY <1>0, <2>1, <2>3, <4>1
      <4> QED
        BY <4>1, <4>2 DEF Followed
    <3>2. \A k \in Prompts' : k + 1 \in Prompts
      BY <2>3
    <3>3. ASSUME NEW k \in Prompts'
          PROVE  /\ input' = <<>>
                 /\ \A j \in Prompts' : j = k
                 /\ serving'.at = "asked" \/ Followed(k)'
      <4>1. /\ input = <<>>
            /\ \A j \in Prompts : j = k + 1
            /\ serving.at = "asked" \/ Followed(k + 1)
        BY <3>2 DEF PromptInv
      <4>2. \A j \in Prompts' : j = k
        BY <2>3, <3>2, <4>1
      <4> QED
        BY <2>2, <2>4, <3>1, <4>1, <4>2
    <3>4. Answers' = Answers /\ (Prompts' # {} => Prompts # {})
      BY <2>4, <3>2 DEF Answers
    <3>5. serving.at # "start"
      BY <2>1 DEF PromptInv
    <3> QED
      BY <2>2, <2>4, <3>3, <3>4, <3>5 DEF PromptInv
  <2>5. CASE Head(output).tag = "DATAREQUEST"
    <3>1. 1 \in Prompts
      BY <1>0, <2>1, <2>5 DEF Prompts
    <3>2. input = <<>> /\ (\A j \in Prompts : j = 1) /\ imap.session = "none"
      BY <3>1 DEF PromptInv
    <3>3. Prompts' = {}
      BY <2>3, <3>2
    <3>4. input' = <<>> \/ input' = <<Password>>
      BY <1>4, <2>5, <3>2 DEF Taken, Password, Statuses
    <3>5. Len(input') <= 1
      <4>1. CASE input' = <<>>
        BY <4>1
      <4>2. CASE input' = <<Password>>
        <5>1. Len(input') = 1
          BY <4>2
        <5> QED
          BY <5>1
      <4> QED
        BY <3>4, <4>1, <4>2
    <3>6. serving.at # "start" /\ serving.at # "poll"
      BY <2>1, <3>2 DEF PromptInv
    <3> QED
      BY <2>2, <3>2, <3>3, <3>5, <3>6 DEF PromptInv
  <2> QED
    BY <1>4, <2>4, <2>5 DEF Taken, Statuses
<1>5. CASE UNCHANGED vars
  BY <1>1, <1>5 DEF vars
<1>6. CASE Start
  <2>1. input = <<>> /\ output = <<>> /\ serving.at = "start"
    BY <1>6 DEF Start, PromptInv
  <2>2. PICK t \in Statuses : netbiff_send(t, NoArg)
    BY <1>6, Zenon DEF Start, Statuses
  <2>3. Prompts' = {}
    <3>1. Prompts = {}
      BY <2>1 DEF Prompts
    <3> QED
      BY <1>0, <2>2, <3>1, SendPrompts DEF Tags, Statuses
  <2>4. serving'.at \in {"idle", "failed"} /\ UNCHANGED input
    BY <1>0, <1>6 DEF Start, Idle, Servings
  <2>5. Len(input') = 0 /\ Answers' = {}
    BY <2>1, <2>4 DEF Answers
  <2> QED
    BY <2>3, <2>4, <2>5 DEF PromptInv
<1>7. ASSUME NEW t \in Statuses, netbiff_send(t, NoArg),
             UNCHANGED <<input, imap>> \/ (Prompts = {} /\ Answers = {} /\ UNCHANGED input),
             serving'.at \in {"idle", "failed"}
      PROVE  PromptInv'
  <2>1. Prompts' = Prompts /\ \A k \in Prompts : Followed(k)'
    BY <1>0, <1>7, SendPrompts DEF Tags, Statuses
  <2>2. Answers' = Answers
    BY <1>7 DEF Answers
  <2> QED
    BY <1>7, <2>1, <2>2 DEF PromptInv
<1>8. CASE Asked \/ FinishPoll
  BY <1>7, <1>8 DEF Asked, FinishPoll, Idle, Statuses
<1>9. CASE CheckFails
  <2>1. Prompts = {} /\ Answers = {}
    BY <1>9 DEF CheckFails, PromptInv
  <2>2. serving'.at = "failed"
    BY <1>0, <1>9 DEF CheckFails, GiveUp, Servings
  <2> QED
    BY <1>7, <1>9, <2>1, <2>2 DEF CheckFails, Statuses
<1>10. CASE CheckFolder
  <2>1. /\ Prompts = {} /\ Answers = {} /\ serving.at = "poll" /\ UNCHANGED input
    BY <1>10 DEF CheckFolder, PromptInv
  <2>2. serving'.at = "poll" /\ imap'.session # "none"
    BY <1>0, <1>10 DEF CheckFolder, Servings, Contexts
  <2>3. Prompts' = {}
    <3>1. UNCHANGED output \/ \E t \in {"UPDATE", "RESET"}, f \in Names : netbiff_send(t, f)
      BY <1>10, CheckSends
    <3>2. ASSUME NEW t \in {"UPDATE", "RESET"}, NEW f \in Names, netbiff_send(t, f)
          PROVE  Prompts' = Prompts
      BY <1>0, <3>2, SendPrompts DEF Tags
    <3> QED
      BY <2>1, <3>1, <3>2 DEF Prompts
  <2>4. Answers' = {}
    BY <2>1 DEF Answers
  <2> QED
    BY <2>1, <2>2, <2>3, <2>4 DEF PromptInv
<1>11. CASE Exit
  <2>1. serving'.at = "exited" /\ imap'.session = "none" /\ UNCHANGED <<input, output>>
    BY <1>0, <1>11 DEF Exit, Servings, NoContext
  <2>2. serving.at = "failed" /\ Prompts' = Prompts /\ Answers' = Answers
        /\ \A k : Followed(k)' = Followed(k)
    BY <1>11, <2>1 DEF Exit, Prompts, Answers, Followed
  <2> QED
    BY <2>1, <2>2 DEF PromptInv
<1>12. ASSUME NEW r \in AllRequests, Serve(r) PROVE PromptInv'
  <2>1. NextRequest(r)
    BY <1>12 DEF Serve, AddFolder, AskPassword, PollAll, PollOne, DataResponse,
                 OtherData, Malformed, Quit
  <2>2. input # <<>> /\ input' \in Seq(AllRequests) /\ Len(input') = Len(input) - 1 /\ serving.at = "idle"
    BY <1>0, <2>1, NextTaken DEF NextRequest
  <2>3. Prompts = {} /\ Len(input') = 0
    BY <1>0, <2>2, LenProperties DEF PromptInv
  <2>4. input' = <<>> /\ Answers' = {}
    BY <2>2, <2>3, EmptySeq DEF Answers
  <2>5. CASE AskPassword(r)
    <3>1. Prompts' = {Len(output) + 1}
      BY <1>0, <2>3, <2>5, SendPrompts DEF AskPassword, Tags
    <3>2. serving'.at = "asked" /\ imap'.session = "none"
      BY <1>0, <2>5 DEF AskPassword, Servings
    <3> QED
      BY <2>3, <2>4, <3>1, <3>2 DEF PromptInv
  <2>6. CASE UNCHANGED output \/ \E t \in Statuses : netbiff_send(t, NoArg)
    <3>1. Prompts' = {}
      <4>1. ASSUME NEW t \in Statuses, netbiff_send(t, NoArg) PROVE Prompts' = Prompts
        BY <1>0, <4>1, SendPrompts DEF Tags, Statuses
      <4> QED
        BY <2>3, <2>6, <4>1 DEF Prompts
    <3>2. \A p : Polling(r, p).at = "poll"
      BY DEF Polling
    <3>3. CASE AddFolder(r) \/ OtherData(r) \/ Malformed(r)
      <4>1. UNCHANGED serving
        BY <3>3 DEF AddFolder, OtherData, Malformed
      <4> QED
        BY <2>2, <2>3, <2>4, <3>1, <4>1 DEF PromptInv
    <3>4. CASE PollAll(r) \/ PollOne(r)
      <4>1. UNCHANGED imap /\ imap.session # "none" /\ serving'.at \in {"idle", "poll"}
        BY <2>2, <3>2, <3>4 DEF PollAll, PollOne
      <4> QED
        BY <2>3, <2>4, <3>1, <4>1 DEF PromptInv
    <3>5. CASE DataResponse(r)
      <4>1. \/ serving'.at = "idle"
            \/ imap'.session # "none" /\ serving'.at = "poll"
        BY <2>2, <3>2, <3>5 DEF DataResponse
      <4> QED
        BY <2>3, <2>4, <3>1, <4>1 DEF PromptInv
    <3>6. CASE Quit(r)
      <4>1. serving'.at = "exited"
        BY <1>0, <3>6 DEF Quit, Servings
      <4> QED
        BY <2>3, <2>4, <3>1, <4>1 DEF PromptInv
    <3>7. CASE AskPassword(r)
      BY <2>5, <3>7
    <3> QED
      BY <1>12, <3>3, <3>4, <3>5, <3>6, <3>7 DEF Serve
  <2> QED
    BY <1>12, <2>5, <2>6 DEF Serve, AddFolder, AskPassword, PollAll, PollOne, DataResponse,
                 OtherData, Malformed, Quit, Statuses
<1> QED
  BY <1>2, <1>3, <1>4, <1>5, <1>6, <1>8, <1>9, <1>10, <1>11, <1>12 DEF Next, Process

(* To a front end that gives a password only when asked for one, no second *)
(* password is ever on its way (netbiffd-imap.c:116-121, 149).             *)
THEOREM ImapOnePassword ==
  ASSUME Password \notin Extras
  PROVE  Spec => []OnePassword
<1>1. Init => PromptInv
  BY EmptySeq DEF Init, PromptInv, Prompts, Answers, NoContext, Idle
<1>2. Spec => []PromptInv
  <2>1. StatusInv /\ PromptInv /\ [Next]_vars => PromptInv'
    BY PromptStep
  <2> QED
    BY <1>1, <2>1, ImapStatusInv, PTL DEF Spec
<1>3. PromptInv => OnePassword
  BY DEF PromptInv, Answers, OnePassword, Password
<1> QED
  BY <1>2, <1>3, PTL

-------------------------------------------------------------------------------
(* Counts *)

(* What is remembered of a mailbox is its count when it was last looked    *)
(* at, and the history says how the count has moved since.                 *)
Moved(f, recent) ==
    /\ past[f].came /\ ~past[f].went => unseen[f] > recent
    /\ past[f].went /\ ~past[f].came => unseen[f] < recent
    /\ ~past[f].came /\ ~past[f].went => unseen[f] = recent

(* No two folders have a name, so that one mailbox has one count.  For     *)
(* that, a folder is not asked for again while it is being added.          *)
CountInv ==
    /\ \A j, k \in DOMAIN folders : folders[j].name = folders[k].name => j = k
    /\ \A k \in DOMAIN input : input[k].verb = "FOLDER" /\ input[k].arg \in Names =>
         /\ input[k].arg \notin Known
         /\ \A j \in DOMAIN input : input[j].verb = "FOLDER" /\ input[j].arg \in Names => j = k
    /\ \A k \in DOMAIN folders : Moved(folders[k].name, folders[k].recent)

(* A server that answers STATUS, and a front end that asks for a folder    *)
(* only once.                                                              *)
Answering == ServerFaults \subseteq {"wrong", "lost"}
AskedOnce == \A r \in Extras : r.verb = "FOLDER" => r.arg \notin Names

LEMMA CountIs ==
  ASSUME Answering, NEW f
  PROVE  imap_get_recent(f) = {[count |-> unseen[f], recent |-> unseen[f]]}
BY DEF Answering, imap_get_recent

(* The requests for folders that are still in the pipe, and those before.  *)
LEMMA RequestsKept ==
  ASSUME NEW s \in Seq(AllRequests), NEW t
  PROVE  \/ t = s
         \/ \E r \in AllRequests : t = Append(s, r) /\ r.verb # "FOLDER"
         \/ s # <<>> /\ t = Tail(s)
         => \E d \in {0, 1} : \A j \in DOMAIN t : t[j].verb = "FOLDER" =>
              j \in Nat /\ j + d \in DOMAIN s /\ s[j + d] = t[j]
<1> DEFINE Adding == {r \in AllRequests : r.verb = "FOLDER"}
<1>1. SUFFICES ASSUME \/ t = s
                      \/ \E r \in AllRequests : t = Append(s, r) /\ r.verb # "FOLDER"
                      \/ s # <<>> /\ t = Tail(s)
               PROVE  \E d \in {0, 1} : \A j \in DOMAIN t : t[j].verb = "FOLDER" =>
                        j \in Nat /\ j + d \in DOMAIN s /\ s[j + d] = t[j]
  OBVIOUS
<1>2. t \in Seq(AllRequests)
  BY <1>1, AppendProperties, HeadTailProperties
<1>3. \A j \in DOMAIN t : t[j] \in AllRequests
  BY <1>2, LenProperties, ElementOfSeq
<1>4. \A r \in AllRequests : r \in Adding <=> r.verb = "FOLDER"
  OBVIOUS
<1> HIDE DEF Adding
<1>5. PICK d \in {0, 1} : \A j \in DOMAIN t : t[j] \in Adding =>
        j \in Nat /\ j + d \in DOMAIN s /\ s[j + d] = t[j]
  BY <1>1, <1>4, PlacesKept
<1> QED
  BY <1>3, <1>4, <1>5

(* A folder that is added becomes the first of the list, and a known one.  *)
LEMMA AddedFolder ==
  ASSUME StatusInv, NEW r, AddFolder(r)
  PROVE  /\ DOMAIN folders' = 1 .. Len(folders) + 1
         /\ folders'[1] = [name |-> r.arg, recent |-> 0]
         /\ \A i \in 2 .. Len(folders) + 1 : i - 1 \in DOMAIN folders /\ folders'[i] = folders[i - 1]
         /\ Known' = Known \cup {r.arg}
<1> DEFINE new == [name |-> r.arg, recent |-> 0]
<1>1. /\ new \in [name : Names, recent : Nat] /\ new.name = r.arg
      /\ folders \in Seq([name : Names, recent : Nat])
      /\ DOMAIN folders = 1 .. Len(folders) /\ Len(folders) \in Nat
  BY LenProperties DEF AddFolder, StatusInv, TypeOK
<1>2. folders' = <<new>> \o folders
  BY DEF AddFolder
<1> HIDE DEF new
<1>3. /\ DOMAIN folders' = 1 .. Len(folders) + 1
      /\ folders'[1] = new
      /\ \A i \in 2 .. Len(folders) + 1 : folders'[i] = folders[i - 1]
  BY <1>1, <1>2, ConsProperties
<1>4. \A i \in 2 .. Len(folders) + 1 : i - 1 \in DOMAIN folders
  BY <1>1
<1>5. ASSUME NEW n PROVE n \in Known' <=> n \in Known \cup {r.arg}
  <2>1. n \in Known' => n \in Known \cup {r.arg}
    <3>1. SUFFICES ASSUME NEW i \in DOMAIN folders', n = folders'[i].name
                   PROVE  n \in Known \cup {r.arg}
      BY DEF Known
    <3>2. CASE i = 1
      BY <1>1, <1>3, <3>1, <3>2
    <3>3. CASE i # 1
      <4>1. i \in 2 .. Len(folders) + 1
        BY <1>1, <1>3, <3>3
      <4>2. i - 1 \in DOMAIN folders /\ n = folders[i - 1].name
        BY <1>3, <1>4, <3>1, <4>1
      <4> QED
        BY <4>2 DEF Known
    <3> QED
      BY <3>2, <3>3
  <2>2. \A i \in DOMAIN folders : i + 1 \in DOMAIN folders' /\ folders'[i + 1] = folders[i]
    BY <1>1, <1>3
  <2>3. 1 \in DOMAIN folders'
    BY <1>1, <1>3
  <2>4. n \in Known \cup {r.arg} => n \in Known'
    BY <1>1, <1>3, <2>2, <2>3 DEF Known
  <2> QED
    BY <2>1, <2>4
<1>6. Known' = Known \cup {r.arg}
  BY <1>5
<1> QED
  BY <1>3, <1>4, <1>6 DEF new

(* Unless the server, the front end or the list of folders has a part in   *)
(* it, a step leaves counts, history and requests as they are.             *)
LEMMA CountKept ==
  ASSUME input \in Seq(AllRequests), CountInv, UNCHANGED <<folders, unseen, past>>,
         \/ UNCHANGED input
         \/ \E r \in AllRequests : input' = Append(input, r) /\ r.verb # "FOLDER"
         \/ input # <<>> /\ input' = Tail(input)
  PROVE  CountInv'
<1>1. UNCHANGED Known
  BY DEF Known
<1>2. PICK d \in {0, 1} : \A j \in DOMAIN input' : input'[j].verb = "FOLDER" =>
        j \in Nat /\ j + d \in DOMAIN input /\ input[j + d] = input'[j]
  BY RequestsKept
<1>3. ASSUME NEW k \in DOMAIN input', input'[k].verb = "FOLDER", input'[k].arg \in Names
      PROVE  /\ input'[k].arg \notin Known
             /\ \A j \in DOMAIN input' :
                  input'[j].verb = "FOLDER" /\ input'[j].arg \in Names => j = k
  <2>1. k \in Nat /\ k + d \in DOMAIN input /\ input[k + d] = input'[k]
    BY <1>2, <1>3
  <2>2. ASSUME NEW j \in DOMAIN input', input'[j].verb = "FOLDER", input'[j].arg \in Names
        PROVE  j = k
    <3>1. j \in Nat /\ j + d \in DOMAIN input /\ input[j + d] = input'[j]
      BY <1>2, <2>2
    <3>2. j + d = k + d
      BY <1>3, <2>1, <2>2, <3>1 DEF CountInv
    <3> QED
      BY <2>1, <3>1, <3>2
  <2> QED
    BY <1>3, <2>1, <2>2 DEF CountInv
<1> QED
  BY <1>1, <1>3 DEF CountInv, Moved

LEMMA CountStep ==
  ASSUME Answering, AskedOnce, StatusInv, StatusInv', CountInv, [Next]_vars
  PROVE  CountInv'
<1>0. /\ input \in Seq(AllRequests) /\ input' \in Seq(AllRequests)
      /\ folders \in Seq([name : Names, recent : Nat])
      /\ unseen \in [Names -> 0 .. MaxUnseen] /\ past \in [Names -> History]
      /\ DOMAIN input = 1 .. Len(input) /\ DOMAIN input' = 1 .. Len(input')
      /\ DOMAIN folders = 1 .. Len(folders) /\ Len(folders) \in Nat
      /\ \A k \in DOMAIN folders : folders[k] \in [name : Names, recent : Nat]
  BY LenProperties, ElementOfSeq DEF StatusInv, TypeOK
<1>1. CASE Server
  <2>1. UNCHANGED <<input, folders, Known>>
    BY <1>1 DEF Server, Known
  <2>2. ASSUME NEW k \in DOMAIN folders
        PROVE  Moved(folders[k].name, folders[k].recent)'
    <3>0. PICK g \in Names, n \in Nat : g = folders[k].name /\ n = folders[k].recent
      BY <1>0
    <3>1. unseen[g] \in Nat /\ Moved(g, n)
      BY <1>0, <3>0, LimitsAssumption DEF CountInv
    <3>2. ASSUME HangUp PROVE Moved(g, n)'
      BY <3>1, <3>2 DEF HangUp, Moved
    <3>3. ASSUME NEW f \in Names, Deliver(f) PROVE Moved(g, n)'
      <4>1. CASE f = g
        <5>1. unseen'[g] = unseen[g] + 1 /\ past'[g].came /\ past'[g].went = past[g].went
          BY <1>0, <3>0, <3>3, <4>1 DEF Deliver, History
        <5>2. ~past[g].went => unseen[g] >= n
          BY <3>1 DEF Moved
        <5>3. ~past[g].went => unseen[g] + 1 > n
          BY <3>1, <5>2
        <5> QED
          BY <5>1, <5>3 DEF Moved
      <4>2. CASE f # g
        <5>1. unseen'[g] = unseen[g] /\ past'[g] = past[g]
          BY <1>0, <3>0, <3>3, <4>2 DEF Deliver
        <5> QED
          BY <3>1, <5>1 DEF Moved
      <4> QED
        BY <4>1, <4>2
    <3>4. ASSUME NEW f \in Names, See(f) PROVE Moved(g, n)'
      <4>1. CASE f = g
        <5>1. unseen'[g] = unseen[g] - 1 /\ past'[g].went /\ past'[g].came = past[g].came
          BY <1>0, <3>0, <3>4, <4>1 DEF See, History
        <5>2. ~past[g].came => unseen[g] <= n
          BY <3>1 DEF Moved
        <5>3. ~past[g].came => unseen[g] - 1 < n
          BY <3>1, <5>2
        <5> QED
          BY <5>1, <5>3 DEF Moved
      <4>2. CASE f # g
        <5>1. unseen'[g] = unseen[g] /\ past'[g] = past[g]
          BY <1>0, <3>0, <3>4, <4>2 DEF See
        <5> QED
          BY <3>1, <5>1 DEF Moved
      <4> QED
        BY <4>1, <4>2
    <3>5. Moved(g, n)'
      BY <1>1, <3>2, <3>3, <3>4 DEF Server
    <3> QED
      BY <2>1, <3>0, <3>5 DEF Moved
  <2> QED
    BY <2>1, <2>2 DEF CountInv
<1>2. CASE Request
  <2>1. PICK r \in FrontEndRequests \cup Extras : input' = Append(input, r)
    BY <1>2 DEF Request
  <2>2. input = <<>>
    BY <1>2, NothingPending DEF Request
  <2>3. DOMAIN input' = {1} /\ input'[1] = r
    BY <2>1, <2>2
  <2>4. UNCHANGED <<folders, unseen, past, Known>>
    BY <1>2 DEF Request, backVars, Known
  <2>5. r.verb = "FOLDER" /\ r.arg \in Names => r.arg \notin Known
    BY DEF AskedOnce, FrontEndRequests, Ask
  <2> QED
    BY <2>3, <2>4, <2>5 DEF CountInv, Moved
<1>3. CASE Taken
  <2>1. /\ Ask("DATARESPONSE", NoArg) \in AllRequests
        /\ Ask("DATARESPONSE", NoArg).verb # "FOLDER"
    BY DEF Ask, AllRequests, Verbs
  <2>2. UNCHANGED <<folders, unseen, past>>
    BY <1>3 DEF Taken, backVars
  <2>3. UNCHANGED input \/ input' = Append(input, Ask("DATARESPONSE", NoArg))
    BY <1>3 DEF Taken
  <2> QED
    BY <1>0, <2>1, <2>2, <2>3, CountKept
<1>4. CASE UNCHANGED vars \/ Start \/ Asked \/ CheckFails \/ FinishPoll \/ Exit
  <2>1. UNCHANGED <<input, folders, unseen, past>>
    BY <1>4, Zenon DEF vars, Start, Asked, CheckFails, FinishPoll, Exit
  <2> QED
    BY <1>0, <2>1, CountKept
<1>5. CASE CheckFolder
  <2> DEFINE k == Head(serving.left)
             f == folders[k].name
  <2>1. k \in DOMAIN folders /\ f \in Names
    BY <1>5, CheckedFolder
  <2>2. /\ folders' = Record(k, unseen[f])
        /\ \E told : past' = [past EXCEPT ![f] = [came |-> FALSE, went |-> FALSE, told |-> told]]
        /\ UNCHANGED <<input, unseen>>
    <3>1. PICK got \in imap_get_recent(f) :
            /\ folders' = Record(k, got.count)
            /\ \E told : past' = [past EXCEPT ![f] =
                                    [came |-> FALSE, went |-> FALSE, told |-> told]]
      BY <1>5, Zenon DEF CheckFolder
    <3>2. got.count = unseen[f]
      BY <3>1, CountIs
    <3> QED
      BY <1>5, <3>1, <3>2 DEF CheckFolder
  <2> HIDE DEF k
  <2>3. /\ DOMAIN folders' = DOMAIN folders
        /\ \A i \in DOMAIN folders : folders'[i].name = folders[i].name
        /\ folders'[k].recent = unseen[f]
        /\ \A i \in DOMAIN folders \ {k} : folders'[i] = folders[i]
    BY <1>0, <2>1, <2>2 DEF Record
  <2>4. UNCHANGED Known
    BY <2>3 DEF Known
  <2>5. ~past'[f].came /\ ~past'[f].went /\ \A g \in Names \ {f} : past'[g] = past[g]
    BY <1>0, <2>1, <2>2
  <2>6. \A i \in DOMAIN folders' : Moved(folders[i].name, folders[i].recent)'
    <3> SUFFICES ASSUME NEW i \in DOMAIN folders
                 PROVE  Moved(folders[i].name, folders[i].recent)'
      BY <2>3
    <3>1. CASE i = k
      BY <2>2, <2>3, <2>5, <3>1 DEF Moved
    <3>2. CASE i # k
      <4>1. folders[i].name # f /\ folders[i].name \in Names
        BY <1>0, <2>1, <3>2 DEF CountInv
      <4> DEFINE g == folders[i].name
      <4>2. Moved(g, folders[i].recent)
        BY DEF CountInv
      <4>3. past'[g] = past[g] /\ folders'[i] = folders[i] /\ unseen' = unseen
        BY <2>2, <2>3, <2>5, <3>2, <4>1
      <4> QED
        BY <4>2, <4>3 DEF Moved
    <3> QED
      BY <3>1, <3>2
  <2> QED
    BY <2>2, <2>3, <2>4, <2>6 DEF CountInv
<1>6. ASSUME NEW r \in AllRequests, Serve(r), ~AddFolder(r) PROVE CountInv'
  <2>1. UNCHANGED <<folders, unseen, past>> /\ NextRequest(r)
    BY <1>6 DEF Serve, AskPassword, PollAll, PollOne, DataResponse, OtherData, Malformed, Quit
  <2>2. input # <<>> /\ input' = Tail(input)
    BY <2>1 DEF NextRequest
  <2> QED
    BY <1>0, <2>1, <2>2, CountKept
<1>7. ASSUME NEW r \in AllRequests, AddFolder(r) PROVE CountInv'
  <2>1. /\ r.verb = "FOLDER" /\ r.arg \in Names
        /\ input # <<>> /\ r = input[1] /\ input' = Tail(input)
        /\ folders' = <<[name |-> r.arg, recent |-> 0]>> \o folders
        /\ UNCHANGED unseen
    BY <1>0, <1>7 DEF AddFolder, NextRequest
  <2>2. 1 \in DOMAIN input
    BY <1>0, <2>1, EmptySeq, LenProperties
  <2>3. r.arg \notin Known
    BY <2>1, <2>2 DEF CountInv
  <2>4. \A k \in DOMAIN input' : ~(input'[k].verb = "FOLDER" /\ input'[k].arg \in Names)
    <3>1. \A k \in DOMAIN input' : k + 1 \in DOMAIN input /\ k + 1 # 1 /\ input'[k] = input[k + 1]
      BY <1>0, <2>1, HeadTailProperties, LenProperties
    <3> QED
      BY <2>1, <2>2, <3>1 DEF CountInv
  <2>5. /\ DOMAIN folders' = 1 .. Len(folders) + 1
        /\ folders'[1] = [name |-> r.arg, recent |-> 0]
        /\ \A i \in 2 .. Len(folders) + 1 : i - 1 \in DOMAIN folders /\ folders'[i] = folders[i - 1]
    BY <1>7, AddedFolder
  <2>6. \A i \in 2 .. Len(folders) + 1 : folders'[i].name # r.arg /\ folders'[i].name \in Names
    BY <1>0, <2>3, <2>5 DEF Known
  <2>7. \A i, j \in DOMAIN folders' : folders'[i].name = folders'[j].name => i = j
    <3> SUFFICES ASSUME NEW i \in DOMAIN folders', NEW j \in DOMAIN folders',
                        folders'[i].name = folders'[j].name
                 PROVE  i = j
      OBVIOUS
    <3>1. CASE i # 1 /\ j # 1
      <4>1. /\ i - 1 \in DOMAIN folders /\ folders'[i] = folders[i - 1]
            /\ j - 1 \in DOMAIN folders /\ folders'[j] = folders[j - 1]
        BY <1>0, <2>5, <3>1, SMTT(30)
      <4>2. i - 1 = j - 1
        BY <4>1 DEF CountInv
      <4> QED
        BY <2>5, <1>0, <4>2
    <3>2. CASE i = 1 \/ j = 1
      BY <1>0, <2>5, <2>6, <3>2, SMTT(30)
    <3> QED
      BY <3>1, <3>2
  <2>8. /\ past'[r.arg].came = (unseen[r.arg] > 0) /\ ~past'[r.arg].went
        /\ \A g \in Names \ {r.arg} : past'[g] = past[g]
    <3> DEFINE new == unseen[r.arg] > 0
    <3>1. past' = [past EXCEPT ![r.arg].came = new, ![r.arg].went = FALSE]
      BY <1>7, Zenon DEF AddFolder
    <3> HIDE DEF new
    <3>2. past'[r.arg].came = new /\ ~past'[r.arg].went /\ \A g \in Names \ {r.arg} : past'[g] = past[g]
      BY <1>0, <2>1, <3>1 DEF History
    <3> QED
      BY <3>2 DEF new
  <2>9. \A i \in DOMAIN folders' : Moved(folders[i].name, folders[i].recent)'
    <3> SUFFICES ASSUME NEW i \in DOMAIN folders'
                 PROVE  Moved(folders[i].name, folders[i].recent)'
      OBVIOUS
    <3>1. CASE i = 1
      <4>1. unseen[r.arg] \in Nat
        BY <1>0, <2>1, LimitsAssumption
      <4>2. folders'[i].name = r.arg /\ folders'[i].recent = 0
        BY <2>5, <3>1
      <4>3. unseen'[r.arg] = unseen[r.arg] /\ (unseen[r.arg] > 0 \/ unseen[r.arg] = 0)
        BY <2>1, <4>1
      <4> QED
        BY <2>8, <4>2, <4>3 DEF Moved
    <3>2. CASE i # 1
      <4>1. i - 1 \in DOMAIN folders /\ folders'[i] = folders[i - 1]
        BY <1>0, <2>5, <3>2
      <4>2. folders'[i].name # r.arg /\ folders'[i].name \in Names
        BY <1>0, <2>5, <2>6, <3>2
      <4> QED
        BY <2>1, <2>8, <4>1, <4>2 DEF Moved, CountInv
    <3> QED
      BY <3>1, <3>2
  <2> QED
    BY <2>4, <2>7, <2>9 DEF CountInv
<1> QED
  BY <1>1, <1>2, <1>3, <1>4, <1>5, <1>6, <1>7 DEF Next, Process

(* With a server that answers STATUS and a front end that asks for each    *)
(* folder once, check_folder says what happened to the mailbox: the count  *)
(* it keeps is the one of the last check, also across polls that failed.   *)
THEOREM ImapEventsMatchUnseen ==
  ASSUME Answering, AskedOnce
  PROVE  Spec => EventsMatchUnseen
<1>1. Init => CountInv
  BY DEF Init, CountInv
<1>2. Spec => []CountInv
  <2>1. StatusInv /\ StatusInv' /\ CountInv /\ [Next]_vars => CountInv'
    BY CountStep
  <2> QED
    BY <1>1, <2>1, ImapStatusInv, PTL DEF Spec
<1> DEFINE Match == \A f \in Names : Checked(f) =>
                      /\ past[f].came /\ ~past[f].went => Sent = "UPDATE"
                      /\ past[f].went /\ ~past[f].came => Sent = "RESET"
                      /\ ~past[f].came /\ ~past[f].went => Sent = "none"
<1>3. StatusInv /\ CountInv => Match
  <2> SUFFICES ASSUME StatusInv, CountInv, NEW f \in Names, Checked(f)
               PROVE  /\ past[f].came /\ ~past[f].went => Sent = "UPDATE"
                      /\ past[f].went /\ ~past[f].came => Sent = "RESET"
                      /\ ~past[f].came /\ ~past[f].went => Sent = "none"
    OBVIOUS
  <2> DEFINE old == folders[Head(serving.left)]
             event == EventFor(old.recent, unseen[f])
  <2>1. /\ old.name = f /\ old.recent \in Nat /\ Moved(f, old.recent)
        /\ unseen[f] \in Nat /\ output \in Seq(OutLines) /\ Len(output) \in Nat
    BY CheckedFolder, LimitsAssumption, LenProperties
       DEF Checked, CountInv, StatusInv, TypeOK, OutLines
  <2>2. IF event = "none" THEN UNCHANGED output ELSE netbiff_send(event, f)
    BY <2>1, CountIs DEF Checked, CheckFolder
  <2> HIDE DEF old
  <2>3. Sent = event
    <3>1. CASE event = "none"
      BY <2>2, <3>1 DEF Sent
    <3>2. CASE event # "none"
      <4>1. output' = Append(output, Line(event, f)) /\ Line(event, f).tag = event
        BY <2>2, <3>2 DEF netbiff_send, Line
      <4>2. Len(output') = Len(output) + 1 /\ output'[Len(output) + 1] = Line(event, f)
        BY <2>1, <4>1
      <4> QED
        BY <2>1, <4>1, <4>2 DEF Sent, Last
    <3> QED
      BY <3>1, <3>2
  <2>4. /\ unseen[f] > old.recent => event = "UPDATE"
        /\ unseen[f] < old.recent => event = "RESET"
        /\ unseen[f] = old.recent => event = "none"
    BY <2>1 DEF EventFor
  <2> QED
    BY <2>1, <2>3, <2>4 DEF Moved
<1>4. StatusInv /\ CountInv /\ [Next]_vars => [Match]_vars
  BY <1>3
<1>5. Spec => [][Match]_vars
  <2> HIDE DEF Match
  <2> QED
    BY <1>2, <1>4, ImapStatusInv, PTL DEF Spec
<1> QED
  BY <1>5 DEF EventsMatchUnseen

(* What the run ImapRefused finds violated holds of servers that answer    *)
(* STATUS: a RESET is sent only when messages were seen, as README.IMAP    *)
(* says (README.IMAP:39-40).                                               *)
THEOREM ImapResetMeansDecrease ==
  ASSUME Answering, AskedOnce
  PROVE  Spec => ResetMeansDecrease
<1> DEFINE Match(f) == Checked(f) =>
                         /\ past[f].came /\ ~past[f].went => Sent = "UPDATE"
                         /\ past[f].went /\ ~past[f].came => Sent = "RESET"
                         /\ ~past[f].came /\ ~past[f].went => Sent = "none"
           Decrease(f) == Checked(f) /\ Sent = "RESET" => past[f].went
<1>1. (\A f \in Names : Match(f)) => \A f \in Names : Decrease(f)
  OBVIOUS
<1>2. [\A f \in Names : Match(f)]_vars => [\A f \in Names : Decrease(f)]_vars
  BY <1>1
<1>3. EventsMatchUnseen => ResetMeansDecrease
  BY <1>2, PTL DEF EventsMatchUnseen, ResetMeansDecrease
<1> QED
  BY <1>3, ImapEventsMatchUnseen, PTL

-------------------------------------------------------------------------------
(* As one of the back ends of BackEnd *)

(* Requests are those of a front end, and those not answered yet are not   *)
(* for a folder, which is added at once.                                   *)
UsualRequests ==
    Extras \cup {Password, Ask("POLL", NoArg)} \cup {Ask("FOLDER", f) : f \in Names}

RequestInv == /\ input \in Seq(UsualRequests)
              /\ serving.at \in {"asked", "poll"} => serving.cmd.verb # "FOLDER"

(* The requests that are not answered yet, and the folders that the front  *)
(* end was told have mail.                                                 *)
Waiting == (IF serving.at \in {"asked", "poll"} THEN <<serving.cmd>> ELSE <<>>) \o input
News == {f \in Names : past[f].told}

(* What a step must do to be one of BackEnd's.                             *)
LEMMA AnswerRefines ==
  ASSUME NEW t \in {"OK", "NO"}, netbiff_send(t, NoArg),
         serving.at \notin {"start", "exited"}, serving'.at \notin {"start", "exited", "asked"},
         Waiting # <<>>, Waiting' = Tail(Waiting), UNCHANGED News,
         Known' = IF Head(Waiting).verb = "FOLDER" /\ t = "OK"
                    THEN Known \cup {Head(Waiting).arg} ELSE Known
  PROVE  B!Answer(Me)
BY DEF B!Answer, B!Say, B!Line, Line, netbiff_send, Waiting, News, B!NoArg, NoArg

LEMMA GreetRefines ==
  ASSUME NEW t \in {"OK", "NO"}, netbiff_send(t, NoArg),
         serving.at = "start", serving'.at \notin {"start", "exited", "asked"},
         UNCHANGED <<Waiting, News, Known>>
  PROVE  B!Greet(Me)
BY DEF B!Greet, B!Say, B!Line, Line, netbiff_send, Waiting, News, B!NoArg, NoArg

LEMMA AskRefines ==
  ASSUME netbiff_send("DATAREQUEST", NoArg),
         serving.at \notin {"start", "exited", "asked"}, serving'.at = "asked",
         UNCHANGED <<Waiting, News, Known>>
  PROVE  B!Ask(Me)
BY DEF B!Ask, B!Say, B!Line, Line, netbiff_send, Waiting, News, B!NoArg, NoArg

LEMMA NotifyRefines ==
  ASSUME NEW t \in {"UPDATE", "RESET"}, NEW f \in Known, netbiff_send(t, f),
         serving.at = "poll", serving'.at = "poll", UNCHANGED <<Waiting, Known>>,
         News' = IF t = "UPDATE" THEN News \cup {f} ELSE News \ {f}
  PROVE  B!Notify(Me)
<1>1. B!Say(Me, Line(t, f))
  BY DEF B!Say, netbiff_send
<1>2. f \in B!Spoken(Me)
  BY DEF B!Spoken
<1>3. CASE t = "UPDATE"
  <2>1. B!Say(Me, B!Line("UPDATE", f))
    BY <1>1, <1>3 DEF B!Line, Line
  <2> DEFINE me == [c \in {Me} |->
                      [ up      |-> serving.at # "exited",
                        greeted |-> serving.at # "start",
                        asking  |-> serving.at = "asked",
                        known   |-> Known,
                        news    |-> {g \in Names : past[g].told} ]]
  <2>2. /\ me[Me].greeted
        /\ "UPDATE" \in [c \in {Me} |-> {"UPDATE", "RESET", "DATAREQUEST"}][Me]
    OBVIOUS
  <2>3. {g \in Names : past'[g].told} = {g \in Names : past[g].told} \cup {f}
    BY <1>3 DEF News
  <2>4. me' = [me EXCEPT ![Me].news = @ \cup {f}]
    BY <2>3
  <2>5. [c \in {Me} |-> Waiting]' = [c \in {Me} |-> Waiting]
    OBVIOUS
  <2> QED
    BY <1>2, <2>1, <2>2, <2>4, <2>5, Zenon DEF B!Notify, Waiting
<1>4. CASE t = "RESET"
  <2>1. B!Say(Me, B!Line("RESET", f))
    BY <1>1, <1>4 DEF B!Line, Line
  <2>2. News' = News \ {f}
    BY <1>4
  <2> QED
    BY <1>2, <2>1, <2>2, ZenonT(60) DEF B!Notify, Waiting, News
<1> QED
  BY <1>3, <1>4

LEMMA ExitRefines ==
  ASSUME serving.at = "failed", serving'.at = "exited",
         UNCHANGED <<Waiting, News, Known, output>>
  PROVE  B!Exit(Me)
BY DEF B!Exit, Waiting, News

LEMMA Stutters ==
  ASSUME UNCHANGED <<Waiting, News, Known, output>>,
         \A at \in {"start", "asked", "exited"} : serving.at = at <=> serving'.at = at
  PROVE  UNCHANGED B!backVars
BY DEF B!backVars, Waiting, News

LEMMA RequestStep == StatusInv /\ RequestInv /\ [Next]_vars => RequestInv'
<1> SUFFICES ASSUME StatusInv, RequestInv, [Next]_vars PROVE RequestInv'
  OBVIOUS
<1>0. /\ input \in Seq(UsualRequests) /\ serving \in Servings
      /\ \A r : Idle.at = "idle" /\ \A p : Polling(r, p).cmd = r
  BY DEF RequestInv, StatusInv, TypeOK, Idle, Polling
<1>1. CASE Server \/ UNCHANGED vars
  BY <1>1 DEF Server, vars, RequestInv
<1>2. CASE Request
  <2>1. PICK r \in FrontEndRequests \cup Extras : input' = Append(input, r)
    BY <1>2 DEF Request
  <2>2. r \in UsualRequests
    BY DEF FrontEndRequests, UsualRequests
  <2> QED
    BY <1>0, <1>2, <2>1, <2>2, AppendProperties DEF Request, backVars, RequestInv
<1>3. CASE Taken
  <2>1. Password \in UsualRequests
    BY DEF UsualRequests
  <2>2. UNCHANGED input \/ input' = Append(input, Password)
    BY <1>3 DEF Taken, Password
  <2> QED
    BY <1>0, <1>3, <2>1, <2>2, AppendProperties DEF Taken, backVars, RequestInv
<1>4. CASE Start \/ Asked \/ CheckFails \/ FinishPoll \/ Exit
  <2>1. UNCHANGED input
    BY <1>4, Zenon DEF Start, Asked, CheckFails, FinishPoll, Exit
  <2>2. serving'.at \in {"idle", "failed", "exited"}
    BY <1>0, <1>4 DEF Start, Asked, CheckFails, FinishPoll, Exit, Servings, GiveUp
  <2> QED
    BY <1>0, <2>1, <2>2 DEF RequestInv
<1>5. CASE CheckFolder
  <2>1. UNCHANGED input /\ serving'.at = "poll" /\ serving'.cmd = serving.cmd /\ serving.at = "poll"
    BY <1>0, <1>5 DEF CheckFolder, Servings
  <2> QED
    BY <2>1 DEF RequestInv
<1>6. ASSUME NEW r \in AllRequests, Serve(r) PROVE RequestInv'
  <2>1. NextRequest(r) /\ (serving'.at \in {"asked", "poll"} => serving'.cmd.verb # "FOLDER")
    <3>1. CASE AddFolder(r) \/ OtherData(r) \/ Malformed(r)
      <4>1. UNCHANGED serving /\ NextRequest(r)
        BY <3>1 DEF AddFolder, OtherData, Malformed
      <4> QED
        BY <4>1 DEF NextRequest
    <3>2. CASE AskPassword(r)
      BY <1>0, <3>2 DEF AskPassword, Servings
    <3>3. CASE PollAll(r) \/ PollOne(r)
      <4>1. NextRequest(r) /\ r.verb = "POLL"
        BY <3>3, Zenon DEF PollAll, PollOne
      <4>2. UNCHANGED serving \/ \E p : serving' = Polling(r, p)
        BY <3>3, Zenon DEF PollAll, PollOne
      <4>3. serving.at = "idle"
        BY <4>1 DEF NextRequest
      <4> QED
        BY <4>1, <4>2, <4>3 DEF Polling
    <3>4. CASE DataResponse(r)
      BY <1>0, <3>4 DEF DataResponse, NextRequest
    <3>5. CASE Quit(r)
      BY <1>0, <3>5 DEF Quit, Servings
    <3> QED
      BY <1>6, <3>1, <3>2, <3>3, <3>4, <3>5 DEF Serve
  <2> QED
    BY <1>0, <2>1, HeadTailProperties DEF RequestInv, NextRequest
<1> QED
  BY <1>1, <1>2, <1>3, <1>4, <1>5, <1>6 DEF Next, Process

LEMMA CheckRefines ==
  ASSUME StatusInv, CheckFolder
  PROVE  B!BackEndStep(Me) \/ UNCHANGED B!backVars
<1> DEFINE k == Head(serving.left)
           f == folders[k].name
<1>0. /\ k \in DOMAIN folders /\ folders[k] \in [name : Names, recent : Nat]
      /\ folders \in Seq([name : Names, recent : Nat])
      /\ past \in [Names -> History] /\ serving \in Servings
  BY CheckedFolder DEF StatusInv, TypeOK
<1>1. PICK got \in imap_get_recent(f) :
        LET event == EventFor(folders[k].recent, got.count)
        IN  /\ IF event = "none" THEN UNCHANGED output ELSE netbiff_send(event, f)
            /\ folders' = Record(k, got.count)
            /\ past' = [past EXCEPT ![f] =
                          [came |-> FALSE, went |-> FALSE, told |-> Told(@.told, event)]]
  BY Zenon DEF CheckFolder
<1>2. got.count \in Nat
  BY <1>0, <1>1, CountType DEF StatusInv
<1>3. /\ serving.at = "poll" /\ serving'.at = "poll" /\ serving'.cmd = serving.cmd
      /\ UNCHANGED input
  BY <1>0 DEF CheckFolder, Servings
<1>4. PICK event \in {"UPDATE", "RESET", "none"} :
        /\ IF event = "none" THEN UNCHANGED output ELSE netbiff_send(event, f)
        /\ past' = [past EXCEPT ![f] =
                      [came |-> FALSE, went |-> FALSE, told |-> Told(past[f].told, event)]]
  <2> DEFINE event == EventFor(folders[k].recent, got.count)
  <2>1. event \in {"UPDATE", "RESET", "none"}
    BY <1>0, <1>2 DEF EventFor
  <2> HIDE DEF event
  <2> QED
    BY <1>1, <2>1 DEF event
<1> HIDE DEF k
<1>5. UNCHANGED <<Waiting, Known>> /\ f \in Known
  <2>1. /\ DOMAIN folders' = DOMAIN folders
        /\ \A i \in DOMAIN folders : folders'[i].name = folders[i].name
    BY <1>0, <1>1 DEF Record
  <2> QED
    BY <1>0, <1>3, <2>1 DEF Waiting, Known
<1>6. /\ f \in Names /\ past'[f].told = Told(past[f].told, event)
      /\ \A g \in Names \ {f} : past'[g] = past[g]
  BY <1>0, <1>4
<1>7. CASE event = "none"
  <2>1. past'[f].told = past[f].told
    BY <1>0, <1>6, <1>7 DEF Told, History
  <2>2. UNCHANGED <<News, output>>
    BY <1>4, <1>6, <1>7, <2>1 DEF News
  <2> QED
    BY <1>3, <1>5, <2>2, Stutters
<1>8. CASE event = "UPDATE"
  <2>1. past'[f].told
    BY <1>6, <1>8 DEF Told
  <2>2. News' = News \cup {f}
    BY <1>6, <2>1 DEF News
  <2>3. B!Notify(Me)
    BY <1>3, <1>4, <1>5, <1>8, <2>2, NotifyRefines
  <2> QED
    BY <2>3 DEF B!BackEndStep
<1>9. CASE event = "RESET"
  <2>1. ~past'[f].told
    BY <1>6, <1>9 DEF Told
  <2>2. News' = News \ {f}
    BY <1>6, <2>1 DEF News
  <2>3. B!Notify(Me)
    BY <1>3, <1>4, <1>5, <1>9, <2>2, NotifyRefines
  <2> QED
    BY <2>3 DEF B!BackEndStep
<1> QED
  BY <1>4, <1>7, <1>8, <1>9

(* A request that is served is answered, or kept until it is.              *)
LEMMA ServeRefines ==
  ASSUME StatusInv, RequestInv, NEW r \in AllRequests, Serve(r)
  PROVE  Unusual \/ B!BackEndStep(Me) \/ UNCHANGED B!backVars
<1>0. /\ input \in Seq(UsualRequests) /\ serving \in Servings
      /\ past \in [Names -> History] /\ folders \in Seq([name : Names, recent : Nat])
  BY DEF RequestInv, StatusInv, TypeOK
<1>1. NextRequest(r)
  BY DEF Serve, AddFolder, AskPassword, PollAll, PollOne, DataResponse,
         OtherData, Malformed, Quit
<1>2. /\ input # <<>> /\ r = Head(input) /\ input' = Tail(input) /\ serving.at = "idle"
      /\ r \in UsualRequests /\ <<r>> \o Tail(input) = input
  <2>1. input # <<>> /\ r = Head(input) /\ input' = Tail(input) /\ serving.at = "idle"
    BY <1>1 DEF NextRequest
  <2> QED
    BY <1>0, <2>1, HeadTailProperties, ConsHeadTail
<1>3. Waiting = input
  BY <1>0, <1>2 DEF Waiting
<1>4. ASSUME serving'.at \notin {"asked", "poll"} PROVE Waiting' = Tail(Waiting)
  BY <1>0, <1>2, <1>3, <1>4, HeadTailProperties DEF Waiting
<1>5. ASSUME serving'.at \in {"asked", "poll"}, serving'.cmd = r PROVE UNCHANGED Waiting
  BY <1>2, <1>3, <1>5 DEF Waiting
<1>6. \A p : Polling(r, p).at = "poll" /\ Polling(r, p).cmd = r
  BY DEF Polling
<1>7. CASE AddFolder(r)
  <2>1. /\ netbiff_send("OK", NoArg) /\ UNCHANGED serving
        /\ r.verb = "FOLDER" /\ folders' = <<[name |-> r.arg, recent |-> 0]>> \o folders
    BY <1>7 DEF AddFolder
  <2>2. UNCHANGED News
    <3>1. \A f \in Names : past'[f].told = past[f].told
      BY <1>0, <1>7, Zenon DEF AddFolder, History
    <3> QED
      BY <3>1 DEF News
  <2>3. Known' = Known \cup {r.arg}
    BY <1>7, AddedFolder
  <2>4. B!Answer(Me)
    BY <1>2, <1>3, <1>4, <2>1, <2>2, <2>3, AnswerRefines
  <2> QED
    BY <2>4 DEF B!BackEndStep
<1>8. CASE AskPassword(r)
  <2>1. /\ netbiff_send("DATAREQUEST", NoArg)
        /\ serving'.at = "asked" /\ serving'.cmd = r /\ UNCHANGED <<folders, past>>
    BY <1>0, <1>8 DEF AskPassword, Servings
  <2>2. B!Ask(Me)
    BY <1>2, <1>5, <2>1, AskRefines DEF News, Known
  <2> QED
    BY <2>2 DEF B!BackEndStep
<1>9. ASSUME serving'.at = "poll", serving'.cmd = r, UNCHANGED <<output, folders, past>>
      PROVE  UNCHANGED B!backVars
  BY <1>2, <1>5, <1>9, Stutters DEF News, Known
<1>10. ASSUME netbiff_send("NO", NoArg), UNCHANGED <<serving, folders, past>>
       PROVE  B!BackEndStep(Me)
  <2>1. B!Answer(Me)
    BY <1>2, <1>3, <1>4, <1>10, AnswerRefines DEF News, Known
  <2> QED
    BY <2>1 DEF B!BackEndStep
<1>11. CASE PollAll(r) \/ PollOne(r) \/ DataResponse(r) \/ OtherData(r)
  BY <1>6, <1>9, <1>10, <1>11 DEF PollAll, PollOne, DataResponse, OtherData
<1>12. CASE Malformed(r) \/ Quit(r)
  <2>1. r \in Extras
    BY <1>2, <1>12, NamesAssumption DEF Malformed, Quit, UsualRequests, Password, Ask
  <2> QED
    BY <1>2, <2>1 DEF Unusual
<1> QED
  BY <1>7, <1>8, <1>11, <1>12 DEF Serve

(* Every step is one that BackEnd allows a back end, or a stutter: to a    *)
(* front end that makes no other requests, this is one of the back ends    *)
(* that Frontend, TextLoop and GtkLoop were checked with.                  *)
THEOREM ImapAsBackEnd == Spec => AsBackEnd
<1>1. Init => RequestInv
  BY DEF Init, RequestInv, Idle
<1>2. Spec => []RequestInv
  <2>1. StatusInv /\ RequestInv /\ [Next]_vars => RequestInv'
    BY RequestStep
  <2> QED
    BY <1>1, <2>1, ImapStatusInv, PTL DEF Spec
<1>3. ASSUME StatusInv, RequestInv, [Next]_vars
      PROVE  [Request \/ Taken \/ Unusual \/ B!BackEndStep(Me)]_(B!backVars)
  <2>0. /\ serving \in Servings /\ input \in Seq(UsualRequests) /\ past \in [Names -> History]
        /\ unseen \in [Names -> 0 .. MaxUnseen] /\ folders \in Seq([name : Names, recent : Nat])
    BY <1>3 DEF StatusInv, TypeOK, RequestInv
  <2>1. CASE Server
    <3>1. UNCHANGED <<input, serving, output, Waiting, Known>>
      BY <2>1 DEF Server, Waiting, Known
    <3>2. \A f \in Names : past'[f].told = past[f].told
      <4>1. CASE HangUp
        BY <4>1 DEF HangUp
      <4>2. ASSUME NEW g \in Names, Deliver(g) \/ See(g)
            PROVE  \A f \in Names : past'[f].told = past[f].told
        <5>1. CASE past' = [past EXCEPT ![g].came = TRUE]
          BY <2>0, <5>1 DEF History
        <5>2. CASE past' = [past EXCEPT ![g].went = TRUE]
          BY <2>0, <5>2 DEF History
        <5> QED
          BY <4>2, <5>1, <5>2 DEF Deliver, See
      <4> QED
        BY <2>1, <4>1, <4>2 DEF Server
    <3>3. UNCHANGED News
      BY <3>2 DEF News
    <3> QED
      BY <3>1, <3>3, Stutters
  <2>2. CASE UNCHANGED vars
    BY <2>2, Stutters DEF vars, Waiting, Known, News
  <2>3. CASE Start
    <3>1. PICK t \in {"OK", "NO"} : netbiff_send(t, NoArg)
      BY <2>3, Zenon DEF Start
    <3>2. serving.at = "start" /\ serving'.at \in {"idle", "failed"} /\ UNCHANGED <<input, folders, past>>
      BY <2>0, <2>3 DEF Start, Servings, Idle
    <3>3. B!Greet(Me)
      BY <3>1, <3>2, GreetRefines DEF Waiting, News, Known
    <3> QED
      BY <3>3 DEF B!BackEndStep
  <2>4. CASE Asked \/ CheckFails \/ FinishPoll
    <3>1. PICK t \in {"OK", "NO"} : netbiff_send(t, NoArg)
      BY <2>4 DEF Asked, CheckFails, FinishPoll
    <3>2. /\ serving.at \in {"asked", "poll"} /\ serving'.at \in {"idle", "failed"}
          /\ UNCHANGED <<input, folders, past>>
      <4>1. CASE Asked \/ FinishPoll
        BY <2>0, <4>1 DEF Asked, FinishPoll, Idle
      <4>2. CASE CheckFails
        BY <2>0, <4>2 DEF CheckFails, Servings, GiveUp
      <4> QED
        BY <2>4, <4>1, <4>2
    <3>3. /\ Waiting = <<serving.cmd>> \o input /\ Waiting' = input
          /\ Waiting # <<>> /\ Head(Waiting) = serving.cmd /\ Waiting' = Tail(Waiting)
      BY <2>0, <3>2, ConsProperties DEF Waiting, Servings, StatusInv, TypeOK
    <3>4. serving.cmd.verb # "FOLDER"
      BY <1>3, <3>2 DEF RequestInv
    <3>5. B!Answer(Me)
      BY <3>1, <3>2, <3>3, <3>4, AnswerRefines DEF News, Known
    <3> QED
      BY <3>5 DEF B!BackEndStep
  <2>5. CASE CheckFolder
    BY <1>3, <2>5, CheckRefines
  <2>6. CASE Exit
    <3>1. /\ serving.at = "failed" /\ serving'.at = "exited"
          /\ UNCHANGED <<input, output, folders, past>>
      BY <2>0, <2>6 DEF Exit, Servings
    <3>2. B!Exit(Me)
      BY <3>1, ExitRefines DEF Waiting, News, Known
    <3> QED
      BY <3>2 DEF B!BackEndStep
  <2>7. ASSUME NEW r \in AllRequests, Serve(r)
        PROVE  [Request \/ Taken \/ Unusual \/ B!BackEndStep(Me)]_(B!backVars)
    BY <1>3, <2>7, ServeRefines
  <2> QED
    BY <1>3, <2>1, <2>2, <2>3, <2>4, <2>5, <2>6, <2>7 DEF Next, Process
<1> QED
  BY <1>2, <1>3, ImapStatusInv, PTL DEF AsBackEnd, Spec
===============================================================================
