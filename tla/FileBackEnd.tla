----------------------------- MODULE FileBackEnd -----------------------------
(***************************************************************************)
(* netbiffd-file.c with nbproto.c: the back end that looks at files, next  *)
(* to the mail system and the mail readers that change them, and to a      *)
(* front end that sends requests.                                          *)
(***************************************************************************)
EXTENDS Integers, FiniteSets, SequencesExt

CONSTANTS
    Names,        \* files
    CaseOf,       \* CaseOf[f]: f in lower case; strcasecmp compares these
    Requests,     \* the requests the front end may send
    UseAtime,     \* use_atime: NETBIFFD_IGNORE_ATIME is not set
    Acts,         \* what happens to the files, a subset of ActKinds
    MaxTime,      \* bound: seconds that pass
    MaxSize,      \* bound: messages in a file
    MaxWaiting    \* bound: requests, and lines, in the pipes

NoArg == "none"
Verbs == {"FOLDER", "POLL", "DATARESPONSE", "QUIT", "OTHER"}
AllRequests == [verb : Verbs, arg : Names \cup {NoArg}]
Tags == {"OK", "NO", "BAD", "UPDATE", "RESET"}
Line(t, f) == [tag |-> t, arg |-> f]

ActKinds == {"deliver", "read", "expunge", "remove", "forbid"}

ASSUME NamesAssumption == CaseOf \in [Names -> Names] /\ NoArg \notin Names
ASSUME RequestsAssumption == Requests \subseteq AllRequests /\ Acts \subseteq ActKinds
ASSUME BoundsAssumption ==
    MaxTime \in Nat \ {0} /\ MaxSize \in Nat \ {0} /\ MaxWaiting \in Nat

VARIABLES
    input,      \* requests on standard input
    output,     \* lines on standard output
    folders,    \* the list of folders, the last added first
    serving,    \* what main is doing
    files,      \* the file system
    now,        \* the clock, in seconds
    past,       \* history: what happened to each file, see below
    owed        \* history: requests, and the greeting, without a status yet;
                \* DATARESPONSEs, which main drops, are not counted

vars == <<input, output, folders, serving, files, now, past, owed>>

Folder(f, n, seen) == [name |-> f, last_size |-> n, last_seen |-> seen]

(* at: before the greeting, waiting for a request, checking folders, gone. *)
(* left: positions still to be checked; failed: a check failed; all: every *)
(* folder is polled, and failures do not matter.                           *)
Servings == [ at     : {"start", "idle", "poll", "exited"},
              cmd    : AllRequests,
              left   : Seq(Nat),
              failed : BOOLEAN,
              all    : BOOLEAN ]

Idle == [ at |-> "idle", cmd |-> [verb |-> "POLL", arg |-> NoArg],
          left |-> <<>>, failed |-> FALSE, all |-> FALSE ]

(* hidden: lstat fails, and not because the file is missing.               *)
File == [ there : BOOLEAN, hidden : BOOLEAN, size : 0 .. MaxSize,
          atime : 0 .. MaxTime, mtime : 0 .. MaxTime ]
Absent == [there |-> FALSE, hidden |-> FALSE, size |-> 0, atime |-> 0, mtime |-> 0]
OneMail == [there |-> TRUE, hidden |-> FALSE, size |-> 1, atime |-> 1, mtime |-> 1]

(* Since the back end last looked - arrived: mail was delivered; new: mail *)
(* was delivered that nobody has read; read: the file was read in a later  *)
(* second than mail was last delivered; shrunk: messages were removed.     *)
(* told: the last event about the file was an UPDATE.                      *)
History == [ arrived : BOOLEAN, new : BOOLEAN, read : BOOLEAN, shrunk : BOOLEAN,
             told : BOOLEAN ]
Nothing == [ arrived |-> FALSE, new |-> FALSE, read |-> FALSE, shrunk |-> FALSE,
             told |-> FALSE ]

TypeOK == /\ input \in Seq(AllRequests)
          /\ output \in Seq([tag : Tags, arg : Names \cup {NoArg}])
          /\ folders \in Seq([name : Names, last_size : Nat, last_seen : BOOLEAN])
          /\ serving \in Servings
          /\ files \in [Names -> File]
          /\ now \in 1 .. MaxTime
          /\ past \in [Names -> History]
          /\ owed \in Int

Init == /\ input = <<>> /\ output = <<>> /\ folders = <<>>
        /\ serving = [Idle EXCEPT !.at = "start"]
        /\ files \in [Names -> {Absent, OneMail}]
        /\ now = 1
        /\ past = [f \in Names |-> Nothing]
        /\ owed = 1

-------------------------------------------------------------------------------
(* The file system and the clock *)

fsVars == <<files, now, past>>
procVars == <<folders, serving>>
pipeVars == <<input, output, owed>>

Deliver(f) ==
    /\ "deliver" \in Acts
    /\ files[f].size < MaxSize
    /\ files' = [files EXCEPT ![f] =
                   [ there |-> TRUE, hidden |-> @.hidden, size |-> @.size + 1, mtime |-> now,
                     atime |-> IF @.there THEN @.atime ELSE now ]]
    /\ past' = [past EXCEPT ![f].arrived = TRUE, ![f].new = TRUE,
                              ![f].read = FALSE]
    /\ UNCHANGED now

ReadMail(f) ==
    /\ "read" \in Acts
    /\ files[f].there
    /\ files' = [files EXCEPT ![f].atime = now]
    /\ past' = [past EXCEPT ![f].new = FALSE, ![f].read = files[f].mtime < now]
    /\ UNCHANGED now

(* A reader removes a message and writes the file back.                    *)
Expunge(f) ==
    /\ "expunge" \in Acts
    /\ files[f].there
    /\ files[f].size > 0
    /\ files' = [files EXCEPT ![f] =
                   [ there |-> TRUE, hidden |-> @.hidden, size |-> @.size - 1, mtime |-> now,
                     atime |-> now ]]
    /\ past' = [past EXCEPT ![f].new = FALSE, ![f].read = FALSE, ![f].shrunk = TRUE]
    /\ UNCHANGED now

Unlink(f) ==
    /\ "remove" \in Acts
    /\ files[f].there
    /\ files' = [files EXCEPT ![f] = [Absent EXCEPT !.hidden = files[f].hidden]]
    /\ past' = [past EXCEPT ![f].new = FALSE, ![f].read = FALSE, ![f].shrunk = TRUE]
    /\ UNCHANGED now

(* A directory on the way to the file becomes inaccessible, or accessible. *)
Forbid(f) ==
    /\ "forbid" \in Acts
    /\ files' = [files EXCEPT ![f].hidden = ~@]
    /\ UNCHANGED <<now, past>>

Tick == /\ now < MaxTime
        /\ now' = now + 1
        /\ UNCHANGED <<files, past>>

FileSystem ==
    /\ \/ Tick
       \/ \E f \in Names : Deliver(f) \/ ReadMail(f) \/ Expunge(f) \/ Unlink(f) \/ Forbid(f)
    /\ UNCHANGED <<pipeVars, procVars>>

(* What main's switch has no case for.                                     *)
Dropped(r) == r.verb = "DATARESPONSE" /\ r.arg \in Names

(* The front end's side of the pipes.  It asks for a folder once.          *)
Request == /\ Len(input) < MaxWaiting
           /\ \E r \in Requests :
                /\ r.verb = "FOLDER" => /\ \A k \in DOMAIN folders : folders[k].name # r.arg
                                       /\ \A k \in DOMAIN input : input[k] # r
                /\ input' = Append(input, r)
                /\ owed' = IF Dropped(r) THEN owed ELSE owed + 1
           /\ UNCHANGED <<output, procVars, fsVars>>

Taken == /\ output # <<>>
         /\ output' = Tail(output)
         /\ UNCHANGED <<input, owed, procVars, fsVars>>

-------------------------------------------------------------------------------
(* The back end *)

netbiff_send(tag, f) == /\ Len(output) < MaxWaiting
                        /\ output' = Append(output, Line(tag, f))
                        /\ owed' = IF tag \in {"OK", "NO", "BAD"} THEN owed - 1 ELSE owed
Silent == UNCHANGED <<output, owed>>

Seen(st) == /\ UseAtime
            /\ st.atime = 0 \/ st.mtime = 0 \/ st.mtime < st.atime

(* Mutant: a missing file has no size.                                     *)
MissingIsNegative(f) ==
    IF files[f].there THEN Folder(f, files[f].size, Seen(files[f]))
                      ELSE Folder(f, -1, TRUE)

(* update_folder: what becomes of a folder's record, when lstat works.     *)
update_folder(f) ==
    IF files[f].there THEN Folder(f, files[f].size, Seen(files[f]))
                      ELSE Folder(f, 0, TRUE)

(* Mutant: whether the file was read does not matter.                      *)
EventBySize(old, new) ==
    CASE old.last_size < new.last_size -> "UPDATE"
      [] old.last_size > new.last_size -> "RESET"
      [] old.last_size = new.last_size -> "none"

(* The event check_folder sends when the record old has become new.        *)
Grew(old, new) == old.last_size < new.last_size
EventFor(old, new) ==
    CASE Grew(old, new) /\ ~new.last_seen                     -> "UPDATE"
      [] old.last_size > new.last_size \/ new.last_seen       -> "RESET"
      [] old.last_size = new.last_size /\ ~new.last_seen      -> "none"

Told(told, event) == event = "UPDATE" \/ (event = "none" /\ told)

Greet == /\ serving.at = "start"
         /\ netbiff_send("OK", NoArg)
         /\ serving' = Idle
         /\ UNCHANGED <<input, folders, fsVars>>

(* netbiff_proto_next gives main the next request.  It finds the end of    *)
(* the input, and main returns, only when the front end has closed both    *)
(* pipes and sees nothing of it.                                           *)
NextRequest(r) == /\ serving.at = "idle"
                  /\ input # <<>>
                  /\ r = Head(input)
                  /\ input' = Tail(input)

(* Mutant: the folder is added although it cannot be looked at.            *)
AddFolderAnyway(r) ==
    /\ r.verb = "FOLDER" /\ r.arg \in Names
    /\ NextRequest(r)
    /\ folders' = <<update_folder(r.arg)>> \o folders
    /\ past' = [past EXCEPT ![r.arg] = Nothing]
    /\ netbiff_send(IF files[r.arg].hidden THEN "NO" ELSE "OK", NoArg)
    /\ UNCHANGED <<serving, files, now>>

AddFolder(r) ==
    /\ r.verb = "FOLDER" /\ r.arg \in Names
    /\ NextRequest(r)
    /\ \/ /\ ~files[r.arg].hidden
          /\ folders' = <<update_folder(r.arg)>> \o folders
          /\ past' = [past EXCEPT ![r.arg] = Nothing]
          /\ netbiff_send("OK", NoArg)
       \/ /\ files[r.arg].hidden
          /\ netbiff_send("NO", NoArg)
          /\ UNCHANGED <<folders, past>>
    /\ UNCHANGED <<serving, files, now>>

SameCase(f) == {k \in DOMAIN folders : CaseOf[folders[k].name] = CaseOf[f]}

PollAll(r) ==
    /\ r.verb = "POLL" /\ r.arg = NoArg
    /\ NextRequest(r)
    /\ serving' = [ at |-> "poll", cmd |-> r, failed |-> FALSE, all |-> TRUE,
                    left |-> [k \in 1 .. Len(folders) |-> k] ]
    /\ UNCHANGED <<folders, fsVars>>
    /\ Silent

(* Names are compared without regard to case, the last one added first.    *)
PollOne(r) ==
    /\ r.verb = "POLL" /\ r.arg \in Names
    /\ NextRequest(r)
    /\ \/ \E k \in SameCase(r.arg) :
            /\ \A j \in SameCase(r.arg) : k <= j
            /\ serving' = [ at |-> "poll", cmd |-> r, failed |-> FALSE, all |-> FALSE,
                            left |-> <<k>> ]
            /\ Silent
       \/ /\ SameCase(r.arg) = {}
          /\ netbiff_send("NO", NoArg)
          /\ UNCHANGED serving
    /\ UNCHANGED <<folders, fsVars>>

(* check_folder for the next position.                                     *)
CheckFolder ==
    /\ serving.at = "poll"
    /\ serving.left # <<>>
    /\ LET k   == Head(serving.left)
           old == folders[k]
           new == update_folder(old.name)
       IN  \/ /\ ~files[old.name].hidden
              /\ folders' = [folders EXCEPT ![k] = new]
              /\ past' = [past EXCEPT ![old.name] =
                            [Nothing EXCEPT !.told = Told(past[old.name].told, EventFor(old, new))]]
              /\ IF EventFor(old, new) = "none" THEN Silent
                 ELSE netbiff_send(EventFor(old, new), old.name)
              /\ serving' = [serving EXCEPT !.left = Tail(@)]
           \/ /\ files[old.name].hidden
              /\ serving' = [serving EXCEPT !.left = Tail(@), !.failed = TRUE]
              /\ UNCHANGED <<folders, past>>
              /\ Silent
    /\ UNCHANGED <<input, files, now>>

(* Mutant: a poll of everything is not answered.                           *)
FinishSilently ==
    /\ serving.at = "poll"
    /\ serving.left = <<>>
    /\ IF serving.all THEN Silent ELSE netbiff_send("OK", NoArg)
    /\ serving' = Idle
    /\ UNCHANGED <<input, folders, fsVars>>

FinishPoll ==
    /\ serving.at = "poll"
    /\ serving.left = <<>>
    /\ netbiff_send(IF serving.failed /\ ~serving.all THEN "NO" ELSE "OK", NoArg)
    /\ serving' = Idle
    /\ UNCHANGED <<input, folders, fsVars>>

(* main's switch has no case for DATARESPONSE.                             *)
IgnoreData(r) ==
    /\ Dropped(r)
    /\ NextRequest(r)
    /\ UNCHANGED <<procVars, fsVars>>
    /\ Silent

Malformed(r) ==
    /\ r.verb = "OTHER" \/ (r.verb \in {"FOLDER", "DATARESPONSE"} /\ r.arg = NoArg)
    /\ NextRequest(r)
    /\ netbiff_send("BAD", NoArg)
    /\ UNCHANGED <<procVars, fsVars>>

Quit(r) ==
    /\ r.verb = "QUIT"
    /\ NextRequest(r)
    /\ netbiff_send("OK", NoArg)
    /\ serving' = [serving EXCEPT !.at = "exited"]
    /\ UNCHANGED <<folders, fsVars>>

Serve(r) == \/ AddFolder(r) \/ PollAll(r) \/ PollOne(r)
            \/ IgnoreData(r) \/ Malformed(r) \/ Quit(r)

Process == Greet \/ CheckFolder \/ FinishPoll \/ \E r \in AllRequests : Serve(r)

Next == FileSystem \/ Request \/ Taken \/ Process

Spec == Init /\ [][Next]_vars

-------------------------------------------------------------------------------
(* Properties *)

(* What a folder's check says of the mail: mail that was delivered, not    *)
(* read, and not removed since the last check is announced; a file read    *)
(* after the last delivery is reset; and nothing is announced that did not *)
(* arrive.  (check_folder compares sizes and two time stamps of one        *)
(* second's precision.)                                                    *)
Checked(f, event) ==
    /\ serving.at = "poll" /\ serving.left # <<>>
    /\ folders[Head(serving.left)].name = f
    /\ ~files[f].hidden
    /\ CheckFolder
    /\ event = IF output' = output THEN "none" ELSE Last(output').tag

EventsMatchMail ==
    [][ \A f \in Names : \A event \in Tags \cup {"none"} : Checked(f, event) =>
          /\ past[f].new /\ ~past[f].shrunk => event = "UPDATE"
          /\ past[f].read /\ files[f].there => event = "RESET"
          /\ event = "UPDATE" => past[f].arrived ]_vars

(* PROTO:37-38: "Every request must receive a status response"; and no     *)
(* more than one, whatever can be said of it: the back end owes one for    *)
(* every request it has not finished, and one at the start.  (Not so for a *)
(* DATARESPONSE.)                                                          *)
StatusPerRequest ==
    owed = Cardinality({k \in DOMAIN input : ~Dropped(input[k])})
             + (IF serving.at \in {"start", "poll"} THEN 1 ELSE 0)

(* To a front end that asks for folders and polls, this is one of the back *)
(* ends that BackEnd describes, and so that Frontend was checked with: all *)
(* it does is what they do, but for requests that no front end makes.      *)
FrontEndRequests == {[verb |-> "POLL", arg |-> NoArg]}
                      \cup [verb : {"FOLDER"}, arg : Names]
Me == "file"
B == INSTANCE BackEnd
       WITH Conns <- {Me}, Folders <- [c \in {Me} |-> <<>>],
            Updates <- [c \in {Me} |-> <<>>], Resets <- [c \in {Me} |-> <<>>],
            MaxPenalty <- 1, Faults <- [c \in {Me} |-> {}],
            Replies <- {"OK", "NO"}, Events <- [c \in {Me} |-> {"UPDATE", "RESET"}],
            MaxLines <- MaxWaiting,
            toBack   <- [c \in {Me} |->
                           (IF serving.at = "poll" THEN <<serving.cmd>> ELSE <<>>) \o input],
            fromBack <- [c \in {Me} |-> output],
            be       <- [c \in {Me} |->
                           [ up      |-> serving.at # "exited",
                             greeted |-> serving.at # "start",
                             asking  |-> FALSE,
                             known   |-> {folders[k].name : k \in DOMAIN folders},
                             news    |-> {f \in Names : past[f].told} ]]

Unusual == input # <<>> /\ Head(input) \notin FrontEndRequests /\ Serve(Head(input))

AsBackEnd == [][Request \/ Taken \/ Unusual \/ B!BackEndStep(Me)]_(B!backVars)
==============================================================================
