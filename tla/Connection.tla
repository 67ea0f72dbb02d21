----------------------------- MODULE Connection -----------------------------
(***************************************************************************)
(* The front end's record of one back end and the operations on it:        *)
(* connection.h, connection.c and the part of action.c that moves a flag.  *)
(* The module has no variables.  A connection is a record, every operation *)
(* maps a record to the record the C function leaves behind, and the       *)
(* modules that run the front end keep one record per connection.          *)
(*                                                                         *)
(* fd_in and fd_out are left to Descriptors, where their numbers matter.   *)
(* retry_time is kept as the time still to wait (retry_time - now).        *)
(***************************************************************************)
EXTENDS Integers, Sequences

CONSTANTS
    Conns,       \* the configured connections: connections[0 .. nconnections-1]
    Names,       \* folder names that occur in the configuration or in events
    Folders,     \* Folders[c]: the folder names of connection c, in order
    Updates,     \* Updates[c]: actions performed on an UPDATE, in order
    Resets,      \* Resets[c]: actions performed on a RESET, in order
    MaxPenalty   \* bound: the penalty stops doubling here

ActionTypes == {"beep", "image", "image-reset", "shell"}

ASSUME FoldersAssumption == Folders \in [Conns -> Seq(Names)]
ASSUME ActionsAssumption == /\ Updates \in [Conns -> Seq(ActionTypes)]
                            /\ Resets \in [Conns -> Seq(ActionTypes)]
ASSUME PenaltyAssumption == MaxPenalty \in Nat \ {0}

CStates == {"WAIT_HELLO", "ADDING_FOLDERS", "NORMAL", "PENALTY_BOX"}

(* One protocol unit in each direction.  Case, white space, explanations   *)
(* and the text of data items are abstracted.  "BAD" is also a line whose  *)
(* first word is none of the protocol's: the front end closes on either.   *)
(* "NOTE" is one it ignores (blank, a lone "*", an unknown event).         *)
NoArg == "none"
Statuses == {"OK", "NO"}
LineTags == Statuses \cup {"BAD", "UPDATE", "RESET", "DATAREQUEST", "NOTE"}

Lines == [tag : LineTags, arg : Names \cup {NoArg}]
Commands == [verb : {"FOLDER"}, arg : Names]
              \cup [verb : {"POLL", "DATARESPONSE"}, arg : {NoArg}]

Line(t, f) == [tag |-> t, arg |-> f]
Command(v, f) == [verb |-> v, arg |-> f]

(* struct _connection.  biffed is the set of folder positions whose flag   *)
(* is set; bin and bout hold whole lines; watch is what the interface was  *)
(* asked to wait for; flag is the last of flagup and flagdown it was sent. *)
ConnRecords ==
    [ state   : CStates,
      pending : Nat,
      wait    : 0 .. 2 * MaxPenalty,
      penalty : 1 .. MaxPenalty,
      added   : Nat,
      biffed  : SUBSET Nat,
      bin     : Seq(Lines),
      bout    : Seq(Commands),
      watch   : SUBSET {"read", "write"},
      flag    : {"up", "down"} ]

connection_init ==
    [ state   |-> "PENALTY_BOX",
      pending |-> 0,
      wait    |-> 0,
      penalty |-> 1,
      added   |-> 0,
      biffed  |-> {},
      bin     |-> <<>>,
      bout    |-> <<>>,
      watch   |-> {},
      flag    |-> "down" ]

Doubled(n) == IF 2 * n > MaxPenalty THEN MaxPenalty ELSE 2 * n

connection_close(s) ==
    [s EXCEPT !.watch   = {},
              !.bin     = <<>>,
              !.bout    = <<>>,
              !.added   = 0,
              !.wait    = 2 * s.penalty,
              !.penalty = Doubled(s.penalty),
              !.state   = "PENALTY_BOX",
              !.pending = 0,
              !.biffed  = {},
              !.flag    = "down"]

(* action_perform over a configured list: beeps and shell commands leave   *)
(* no state behind, the last image action decides where the flag is.       *)
FlagSteps(acts) == {i \in DOMAIN acts : acts[i] \in {"image", "image-reset"}}

Performed(flag, acts) ==
    IF FlagSteps(acts) = {} THEN flag
    ELSE LET last == CHOOSE i \in FlagSteps(acts) : \A j \in FlagSteps(acts) : j <= i
         IN  IF acts[last] = "image" THEN "up" ELSE "down"

(* The position the strcmp loops stop at: a set of one element or none.    *)
Matches(c, f) == {i \in DOMAIN Folders[c] : Folders[c][i] = f}
FirstMatch(c, f) == {i \in Matches(c, f) : \A j \in Matches(c, f) : i <= j}

(* The actions run even when the folder is not one of ours.                *)
connection_do_update(c, s, f) ==
    [s EXCEPT !.biffed = @ \cup FirstMatch(c, f),
              !.flag   = Performed(@, Updates[c])]

(* Mutants: the other folders are not looked at; the folder stays biffed.  *)
ResetIgnoringOthers(c, s, f) ==
    [s EXCEPT !.biffed = @ \ FirstMatch(c, f),
              !.flag   = IF FirstMatch(c, f) \cap s.biffed # {} THEN Performed(@, Resets[c]) ELSE @]
ResetForgotten(c, s, f) ==
    [s EXCEPT !.flag = IF FirstMatch(c, f) = s.biffed THEN Performed(@, Resets[c]) ELSE @]

(* The folder is ours, was biffed, and no other one is.                    *)
ResetFires(c, s, f) ==
    /\ FirstMatch(c, f) # {}
    /\ s.biffed = FirstMatch(c, f)

connection_do_reset(c, s, f) ==
    [s EXCEPT !.biffed = @ \ FirstMatch(c, f),
              !.flag   = IF ResetFires(c, s, f) THEN Performed(@, Resets[c]) ELSE @]
=============================================================================
