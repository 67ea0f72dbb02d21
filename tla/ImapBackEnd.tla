----------------------------- MODULE ImapBackEnd -----------------------------
(***************************************************************************)
(* netbiffd-imap.c with imap.c and nbproto.c: the back end that asks an    *)
(* IMAP server for the number of unseen messages, next to that server and  *)
(* to a front end that makes a request when it waits for no answer, and    *)
(* sends a data item when one is asked for, as Frontend's does.            *)
(*                                                                         *)
(* The lines of the IMAP dialogue are abstracted to the outcome of a whole *)
(* command.  Running out of memory and wrong arguments are left out.       *)
(***************************************************************************)
EXTENDS Integers, FiniteSets, SequencesExt

CONSTANTS
    Names,         \* mailboxes
    Passwords,     \* whether a password, or a preauth command, is given at the
                   \* start: a set of truth values
    ServerFaults,  \* what may go wrong with the server, a subset of FaultKinds
    Extras,        \* requests that a front end might make besides its own
    MaxUnseen,     \* bound: unseen messages in a mailbox
    MaxWaiting     \* bound: lines in the pipe to the front end

FaultKinds == { "wrong",    \* a login fails
                "lost",     \* the connection breaks
                "refuse",   \* STATUS is answered NO or BAD
                "silent",   \* STATUS is answered OK and nothing else
                "garble" }  \* the answer cannot be understood

NoArg == "none"
Verbs == {"FOLDER", "POLL", "DATARESPONSE", "QUIT", "OTHER"}
AllRequests == [verb : Verbs, arg : Names \cup {NoArg}]
Tags == {"OK", "NO", "BAD", "UPDATE", "RESET", "DATAREQUEST"}
Statuses == {"OK", "NO", "BAD"}
Line(t, f) == [tag |-> t, arg |-> f]
Ask(v, f) == [verb |-> v, arg |-> f]

ASSUME NamesAssumption == NoArg \notin Names
ASSUME PasswordsAssumption == Passwords \subseteq BOOLEAN
ASSUME FaultsAssumption == ServerFaults \subseteq FaultKinds
ASSUME ExtrasAssumption == Extras \subseteq AllRequests
ASSUME LimitsAssumption == MaxUnseen \in Nat /\ MaxWaiting \in Nat

VARIABLES
    input,     \* requests on standard input
    output,    \* lines on standard output
    folders,   \* the list of folders, the last added first
    imap,      \* the ImapContext
    serving,   \* what main is doing
    unseen,    \* the server: unseen messages in each mailbox
    past,      \* history: what happened to each mailbox, see below
    pending    \* the front end: statuses it still waits for

vars == <<input, output, folders, imap, serving, unseen, past, pending>>

(* none: imap is NULL; dead: the server has gone, unnoticed so far.        *)
Contexts == [session : {"none", "up", "dead"}, recent : Nat]
NoContext == [session |-> "none", recent |-> 0]

(* asked: a password was asked for and the POLL not yet answered; poll:    *)
(* the folders at the positions left are to be checked; failed: main is    *)
(* about to return 1.                                                      *)
Servings == [ at   : {"start", "idle", "asked", "poll", "failed", "exited"},
              cmd  : AllRequests,
              left : Seq(Nat) ]
Idle == [at |-> "idle", cmd |-> Ask("POLL", NoArg), left |-> <<>>]

(* Since the back end last looked, came: a message arrived (or was there   *)
(* when the folder was added); went: one was seen.  told: the last event   *)
(* was an UPDATE.                                                          *)
History == [came : BOOLEAN, went : BOOLEAN, told : BOOLEAN]

TypeOK == /\ input \in Seq(AllRequests)
          /\ output \in Seq([tag : Tags, arg : Names \cup {NoArg}])
          /\ folders \in Seq([name : Names, recent : Nat])
          /\ imap \in Contexts
          /\ serving \in Servings
          /\ unseen \in [Names -> 0 .. MaxUnseen]
          /\ past \in [Names -> History]
          /\ pending \in Nat

Init == /\ input = <<>> /\ output = <<>> /\ folders = <<>>
        /\ imap = NoContext
        /\ serving = [Idle EXCEPT !.at = "start"]
        /\ unseen \in [Names -> 0 .. MaxUnseen]
        /\ past = [f \in Names |-> [came |-> FALSE, went |-> FALSE, told |-> FALSE]]
        /\ pending = 1

-------------------------------------------------------------------------------
(* The server *)

Deliver(f) == /\ unseen[f] < MaxUnseen
              /\ unseen' = [unseen EXCEPT ![f] = @ + 1]
              /\ past' = [past EXCEPT ![f].came = TRUE]
              /\ UNCHANGED imap

See(f) == /\ unseen[f] > 0
          /\ unseen' = [unseen EXCEPT ![f] = @ - 1]
          /\ past' = [past EXCEPT ![f].went = TRUE]
          /\ UNCHANGED imap

HangUp == /\ "lost" \in ServerFaults
          /\ imap.session = "up"
          /\ imap' = [imap EXCEPT !.session = "dead"]
          /\ UNCHANGED <<unseen, past>>

Server == /\ HangUp \/ \E f \in Names : Deliver(f) \/ See(f)
          /\ UNCHANGED <<input, output, folders, serving, pending>>

-------------------------------------------------------------------------------
(* The front end *)

backVars == <<folders, imap, serving, unseen, past>>

Known == {folders[k].name : k \in DOMAIN folders}

FrontEndRequests == {Ask("POLL", NoArg)} \cup {Ask("FOLDER", f) : f \in Names \ Known}

Request == /\ pending = 0
           /\ \E r \in FrontEndRequests \cup Extras : input' = Append(input, r)
           /\ pending' = 1
           /\ UNCHANGED <<output, backVars>>

(* have: the front end has the item, or the user types it.                 *)
Taken == /\ output # <<>>
         /\ output' = Tail(output)
         /\ \/ /\ Head(output).tag \in Statuses
               /\ pending' = pending - 1
               /\ UNCHANGED input
            \/ /\ Head(output).tag \in {"UPDATE", "RESET"}
               /\ UNCHANGED <<input, pending>>
            \/ /\ Head(output).tag = "DATAREQUEST"
               /\ \E have \in BOOLEAN :
                    IF have THEN /\ input' = Append(input, Ask("DATARESPONSE", NoArg))
                                 /\ pending' = pending + 1
                            ELSE UNCHANGED <<input, pending>>
         /\ UNCHANGED backVars

-------------------------------------------------------------------------------
(* The back end *)

netbiff_send(tag, f) == /\ Len(output) < MaxWaiting
                        /\ output' = Append(output, Line(tag, f))

(* The contexts imap_login may return.  When the server goes before the    *)
(* LOGIN command is sent, imap_command fails without setting c->error and  *)
(* the login counts as a success.                                          *)
imap_login == { [session |-> s, recent |-> 0] :
                  s \in {"up"}
                        \cup (IF ServerFaults \cap {"wrong", "lost", "garble"} # {}
                                THEN {"none"} ELSE {})
                        \cup (IF "lost" \in ServerFaults THEN {"dead"} ELSE {}) }

(* What main does up to "Howdy".                                           *)
Start ==
    /\ serving.at = "start"
    /\ \E given \in Passwords :
         /\ imap' \in IF given THEN imap_login ELSE {NoContext}
         /\ IF given /\ imap'.session = "none"
              THEN /\ netbiff_send("NO", NoArg)
                   /\ serving' = [serving EXCEPT !.at = "failed"]
              ELSE /\ netbiff_send("OK", NoArg)
                   /\ serving' = Idle
    /\ UNCHANGED <<input, folders, unseen, past, pending>>

NextRequest(r) == /\ serving.at = "idle"
                  /\ input # <<>>
                  /\ r = Head(input)
                  /\ input' = Tail(input)

AddFolder(r) ==
    /\ r.verb = "FOLDER" /\ r.arg \in Names
    /\ NextRequest(r)
    /\ folders' = <<[name |-> r.arg, recent |-> 0]>> \o folders
    /\ past' = [past EXCEPT ![r.arg].came = unseen[r.arg] > 0, ![r.arg].went = FALSE]
    /\ netbiff_send("OK", NoArg)
    /\ UNCHANGED <<imap, serving, unseen, pending>>

(* Mutant: the password is asked for after the POLL has been answered.     *)
AskTooLate(r) ==
    /\ r.verb = "POLL"
    /\ imap.session = "none"
    /\ NextRequest(r)
    /\ output' = output \o <<Line("OK", NoArg), Line("DATAREQUEST", NoArg)>>
    /\ UNCHANGED <<folders, imap, serving, unseen, past, pending>>

(* A POLL without an IMAP session asks for the password, then is answered. *)
AskPassword(r) ==
    /\ r.verb = "POLL"
    /\ imap.session = "none"
    /\ NextRequest(r)
    /\ netbiff_send("DATAREQUEST", NoArg)
    /\ serving' = [serving EXCEPT !.at = "asked", !.cmd = r]
    /\ UNCHANGED <<folders, imap, unseen, past, pending>>

Asked == /\ serving.at = "asked"
         /\ netbiff_send("OK", NoArg)
         /\ serving' = Idle
         /\ UNCHANGED <<input, folders, imap, unseen, past, pending>>

Polling(r, positions) == [at |-> "poll", cmd |-> r, left |-> positions]
Everything == [k \in 1 .. Len(folders) |-> k]

PollAll(r) ==
    /\ r.verb = "POLL" /\ r.arg = NoArg
    /\ imap.session # "none"
    /\ NextRequest(r)
    /\ serving' = Polling(r, Everything)
    /\ UNCHANGED <<output, folders, imap, unseen, past, pending>>

Named(f) == {k \in DOMAIN folders : folders[k].name = f}

PollOne(r) ==
    /\ r.verb = "POLL" /\ r.arg \in Names
    /\ imap.session # "none"
    /\ NextRequest(r)
    /\ \/ \E k \in Named(r.arg) :
            /\ \A j \in Named(r.arg) : k <= j
            /\ serving' = Polling(r, <<k>>)
            /\ UNCHANGED output
       \/ /\ Named(r.arg) = {}
          /\ netbiff_send("NO", NoArg)
          /\ UNCHANGED serving
    /\ UNCHANGED <<folders, imap, unseen, past, pending>>

(* The new session takes the place of any other; if the login failed there *)
(* is none.                                                                *)
DataResponse(r) ==
    /\ r.verb = "DATARESPONSE" /\ r.arg = NoArg
    /\ NextRequest(r)
    /\ imap' \in imap_login
    /\ IF imap'.session = "none"
         THEN netbiff_send("NO", NoArg) /\ UNCHANGED serving
         ELSE serving' = Polling(r, Everything) /\ UNCHANGED output
    /\ UNCHANGED <<folders, unseen, past, pending>>

(* A data item that is not "secret/password".                              *)
OtherData(r) ==
    /\ r.verb = "DATARESPONSE" /\ r.arg \in Names
    /\ NextRequest(r)
    /\ netbiff_send("NO", NoArg)
    /\ UNCHANGED <<folders, imap, serving, unseen, past, pending>>

Malformed(r) ==
    /\ r.verb = "OTHER" \/ (r.verb = "FOLDER" /\ r.arg = NoArg)
    /\ NextRequest(r)
    /\ netbiff_send("BAD", NoArg)
    /\ UNCHANGED <<folders, imap, serving, unseen, past, pending>>

Quit(r) ==
    /\ r.verb = "QUIT"
    /\ NextRequest(r)
    /\ netbiff_send("OK", NoArg)
    /\ imap' = NoContext
    /\ serving' = [serving EXCEPT !.at = "exited"]
    /\ UNCHANGED <<folders, unseen, past, pending>>

(* Mutant: the -1 of a command that failed is taken for a count.           *)
FailureCounted(f) ==
    {[count |-> unseen[f], recent |-> unseen[f]], [count |-> -1, recent |-> imap.recent]}

(* What imap_get_recent may make of a STATUS command: the count it returns *)
(* and what is then left in c->recent.  A refusal counts as zero, and an   *)
(* answer without a STATUS line repeats the last count of any mailbox.     *)
imap_get_recent(f) ==
    {[count |-> unseen[f], recent |-> unseen[f]]}
      \cup (IF "refuse" \in ServerFaults THEN {[count |-> 0, recent |-> imap.recent]} ELSE {})
      \cup (IF "silent" \in ServerFaults
              THEN {[count |-> imap.recent, recent |-> imap.recent]} ELSE {})
      \cup (IF "garble" \in ServerFaults THEN {[count |-> 0, recent |-> 0]} ELSE {})

EventFor(old, r) == CASE r > old -> "UPDATE"
                      [] r < old -> "RESET"
                      [] r = old -> "none"

Told(told, event) == event = "UPDATE" \/ (event = "none" /\ told)

(* Mutant: only a count that has grown is remembered.                      *)
RecordHighest(k, n) == [folders EXCEPT ![k].recent = IF n > @ THEN n ELSE @]

Record(k, n) == [folders EXCEPT ![k].recent = n]

CheckFolder ==
    /\ serving.at = "poll"
    /\ serving.left # <<>>
    /\ imap.session = "up"
    /\ LET k   == Head(serving.left)
           old == folders[k]
       IN  \E got \in imap_get_recent(old.name) :
             LET event == EventFor(old.recent, got.count)
             IN  /\ IF event = "none" THEN UNCHANGED output
                                      ELSE netbiff_send(event, old.name)
                 /\ folders' = Record(k, got.count)
                 /\ imap' = [imap EXCEPT !.recent = got.recent]
                 /\ past' = [past EXCEPT ![old.name] =
                               [came |-> FALSE, went |-> FALSE, told |-> Told(@.told, event)]]
    /\ serving' = [serving EXCEPT !.left = Tail(@)]
    /\ UNCHANGED <<input, unseen, pending>>

(* Mutant: the folder is given up, but not the request.                    *)
SkipFolder == [serving EXCEPT !.left = Tail(@)]

GiveUp == [serving EXCEPT !.at = "failed", !.left = <<>>]

(* check_folder returns -1 and so does main, whatever else was to be done. *)
CheckFails ==
    /\ serving.at = "poll"
    /\ serving.left # <<>>
    /\ imap.session = "dead" \/ "garble" \in ServerFaults
    /\ netbiff_send("NO", NoArg)
    /\ serving' = GiveUp
    /\ imap' = [imap EXCEPT !.session = "dead"]
    /\ UNCHANGED <<input, folders, unseen, past, pending>>

FinishPoll ==
    /\ serving.at = "poll"
    /\ serving.left = <<>>
    /\ netbiff_send("OK", NoArg)
    /\ serving' = Idle
    /\ UNCHANGED <<input, folders, imap, unseen, past, pending>>

Exit == /\ serving.at = "failed"
        /\ serving' = [serving EXCEPT !.at = "exited"]
        /\ imap' = NoContext
        /\ UNCHANGED <<input, output, folders, unseen, past, pending>>

Serve(r) == \/ AddFolder(r) \/ AskPassword(r) \/ PollAll(r) \/ PollOne(r)
            \/ DataResponse(r) \/ OtherData(r) \/ Malformed(r) \/ Quit(r)

Process == \/ Start \/ Asked \/ CheckFolder \/ CheckFails \/ FinishPoll \/ Exit
           \/ \E r \in AllRequests : Serve(r)

Next == Server \/ Request \/ Taken \/ Process

Spec == Init /\ [][Next]_vars

-------------------------------------------------------------------------------
(* Properties *)

(* PROTO:37: "Every request must receive a status response", and only one, *)
(* through asking for a password, logging in, polls that fail half-way and *)
(* the process giving up: the statuses the front end waits for are those   *)
(* on their way and one for each request still in the back end.            *)
StatusPerRequest ==
    pending = Len(input) + Cardinality({k \in DOMAIN output : output[k].tag \in Statuses})
                + (IF serving.at \in {"start", "asked", "poll"} THEN 1 ELSE 0)

(* With a server that answers STATUS, mail that only arrived since the     *)
(* last check is announced, mail that was only seen causes a RESET, and    *)
(* otherwise nothing is sent (check_folder keeps the last count in recent, *)
(* imap.c passes counts through c->recent, which all mailboxes share).     *)
Checked(f) == /\ CheckFolder
              /\ folders[Head(serving.left)].name = f
Sent == IF output' = output THEN "none" ELSE Last(output').tag

EventsMatchUnseen ==
    [][ \A f \in Names : Checked(f) =>
          /\ past[f].came /\ ~past[f].went => Sent = "UPDATE"
          /\ past[f].went /\ ~past[f].came => Sent = "RESET"
          /\ ~past[f].came /\ ~past[f].went => Sent = "none" ]_vars

(* A password is on its way only while there is no session, so that none   *)
(* is given up for another or for a failed login (netbiffd-imap.c:149):    *)
(* the DATAREQUEST goes out before the answer to the POLL, and the front   *)
(* end, which then waits for two answers, is not asked a second time       *)
(* before the first password has been used (netbiffd-imap.c:116-121).      *)
OnePassword ==
    \A k \in DOMAIN input :
      input[k] = Ask("DATARESPONSE", NoArg) => imap.session = "none"

(* To a front end that asks for folders, polls and gives passwords, this   *)
(* is one of the back ends that BackEnd describes: all it does is what     *)
(* they do, but for requests that no front end makes.                      *)
Me == "imap"
B == INSTANCE BackEnd
       WITH Conns <- {Me}, Folders <- [c \in {Me} |-> <<>>],
            Updates <- [c \in {Me} |-> <<>>], Resets <- [c \in {Me} |-> <<>>],
            MaxPenalty <- 1, Faults <- [c \in {Me} |-> {"exit"}],
            Replies <- {"OK", "NO"},
            Events <- [c \in {Me} |-> {"UPDATE", "RESET", "DATAREQUEST"}],
            MaxLines <- MaxWaiting,
            toBack   <- [c \in {Me} |->
                           (IF serving.at \in {"asked", "poll"} THEN <<serving.cmd>> ELSE <<>>)
                             \o input],
            fromBack <- [c \in {Me} |-> output],
            be       <- [c \in {Me} |->
                           [ up      |-> serving.at # "exited",
                             greeted |-> serving.at # "start",
                             asking  |-> serving.at = "asked",
                             known   |-> Known,
                             news    |-> {f \in Names : past[f].told} ]]

Unusual == input # <<>> /\ Head(input) \in Extras /\ Serve(Head(input))

AsBackEnd == [][Request \/ Taken \/ Unusual \/ B!BackEndStep(Me)]_(B!backVars)

(* README.IMAP:39-40: "else if the number of recent messages has decreased *)
(* send reset": a RESET is sent only when messages were seen.              *)
ResetMeansDecrease ==
    [][ \A f \in Names : Checked(f) /\ Sent = "RESET" => past[f].went ]_vars
==============================================================================
