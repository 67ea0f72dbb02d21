------------------------------- MODULE BackEnd -------------------------------
(***************************************************************************)
(* The back ends as processes that keep to the file PROTO, with faults,    *)
(* and the two pipes xpopen2 puts between each of them and the front end.  *)
(* The back ends of this repository are in FileBackEnd and ImapBackEnd;    *)
(* here they say anything the protocol allows, when they like.             *)
(*                                                                         *)
(* The module has no behaviour of its own: Frontend, TextLoop and GtkLoop  *)
(* put it next to a front end.                                             *)
(***************************************************************************)
EXTENDS Proto, FiniteSets

CONSTANTS
    Faults,     \* Faults[c]: what may go wrong with connection c, see below
    Replies,    \* the statuses a back end may answer with
    Events,     \* Events[c]: what connection c's back end may send unasked
    MaxLines    \* bound: lines in the pipe to the front end

FaultKinds == { "refuse",   \* pipe or fork fails in xpopen2
                "exit",     \* the back end exits or crashes
                "junk",     \* the back end sends BAD or gibberish
                "unknown",  \* its events may be about any folder
                "stray" }   \* the back end sends an OK nobody asked for

ASSUME FaultsAssumption == Faults \in [Conns -> SUBSET FaultKinds]
ASSUME RepliesAssumption == Replies \subseteq Statuses
ASSUME EventsAssumption ==
    Events \in [Conns -> SUBSET {"UPDATE", "RESET", "DATAREQUEST", "NOTE"}]
ASSUME LinesAssumption == MaxLines \in Nat \ {0}

VARIABLES
    toBack,     \* toBack[c]: the pipe to the back end's standard input
    fromBack,   \* fromBack[c]: the pipe from its standard output
    be          \* the process that was last started for connection c

backVars == <<toBack, fromBack, be>>

(* up: the process runs; greeted: it has sent its startup status; asking:  *)
(* it has sent a DATAREQUEST since it last answered; known: folders it has *)
(* accepted; news: the folders it has reported as updated and not reset    *)
(* since.                                                                  *)
BackEnds == [ up      : BOOLEAN,
              greeted : BOOLEAN,
              asking  : BOOLEAN,
              known   : SUBSET Names,
              news    : SUBSET Names ]

Gone  == [up |-> FALSE, greeted |-> FALSE, asking |-> FALSE, known |-> {}, news |-> {}]
Fresh == [Gone EXCEPT !.up = TRUE]

BackTypeOK == /\ toBack \in [Conns -> Seq(Commands)]
              /\ fromBack \in [Conns -> Seq(Lines)]
              /\ be \in [Conns -> BackEnds]

BackInit == /\ toBack = [c \in Conns |-> <<>>]
            /\ fromBack = [c \in Conns |-> <<>>]
            /\ be = [c \in Conns |-> Gone]

Say(c, line) ==
    /\ be[c].up
    /\ Len(fromBack[c]) < MaxLines
    /\ fromBack' = [fromBack EXCEPT ![c] = Append(@, line)]

Greet(c) ==
    /\ ~be[c].greeted
    /\ \E status \in Replies : Say(c, Line(status, NoArg))
    /\ be' = [be EXCEPT ![c].greeted = TRUE]
    /\ UNCHANGED toBack

(* Requests are answered in the order they were made.                      *)
Answer(c) ==
    /\ be[c].greeted
    /\ toBack[c] # <<>>
    /\ toBack' = [toBack EXCEPT ![c] = Tail(@)]
    /\ \E status \in Replies :
         LET cmd == Head(toBack[c])
         IN  /\ Say(c, Line(status, NoArg))
             /\ be' = [be EXCEPT ![c].known  = IF cmd.verb = "FOLDER" /\ status = "OK"
                                                 THEN @ \cup {cmd.arg} ELSE @,
                                 ![c].asking = FALSE]

(* The folders it speaks of: those it was told of, or any.                 *)
Spoken(c) == be[c].known \cup (IF "unknown" \in Faults[c] THEN Names ELSE {})

(* Events come at any time.                                                *)
Notify(c) ==
    /\ be[c].greeted
    /\ \E f \in Spoken(c) :
         \/ /\ "UPDATE" \in Events[c]
            /\ Say(c, Line("UPDATE", f))
            /\ be' = [be EXCEPT ![c].news = @ \cup {f}]
         \/ /\ "RESET" \in Events[c]
            /\ Say(c, Line("RESET", f))
            /\ be' = [be EXCEPT ![c].news = @ \ {f}]
    /\ UNCHANGED toBack

Ask(c) ==
    /\ "DATAREQUEST" \in Events[c]
    /\ be[c].greeted
    /\ ~be[c].asking
    /\ Say(c, Line("DATAREQUEST", NoArg))
    /\ be' = [be EXCEPT ![c].asking = TRUE]
    /\ UNCHANGED toBack

Chatter(c) ==
    /\ \/ "NOTE" \in Events[c] /\ Say(c, Line("NOTE", NoArg))
       \/ "junk" \in Faults[c] /\ Say(c, Line("BAD", NoArg))
       \/ "stray" \in Faults[c] /\ Say(c, Line("OK", NoArg))
    /\ UNCHANGED <<toBack, be>>

(* What it wrote can still be read; what was sent to it never will be.     *)
Exit(c) ==
    /\ "exit" \in Faults[c]
    /\ be[c].up
    /\ be' = [be EXCEPT ![c].up = FALSE]
    /\ UNCHANGED <<toBack, fromBack>>

BackEndStep(c) == Greet(c) \/ Answer(c) \/ Notify(c) \/ Ask(c) \/ Chatter(c) \/ Exit(c)

-------------------------------------------------------------------------------
StatusAt(lines) == {i \in DOMAIN lines : lines[i].tag \in Statuses}

(* The statuses still to come from the back end of a connection whose      *)
(* record is s: the startup status, one per request on its way, and those  *)
(* that were sent and are not yet processed.                               *)
Owed(c, s) ==
    (IF be[c].greeted THEN 0 ELSE 1)
      + Len(s.bout) + Len(toBack[c])
      + Cardinality(StatusAt(fromBack[c])) + Cardinality(StatusAt(s.bin))
===============================================================================
