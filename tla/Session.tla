------------------------------- MODULE Session -------------------------------
(***************************************************************************)
(* What the protocol promises about one connection, seen from above the    *)
(* pipes: in which phase the session is, how many folders the back end has *)
(* accepted, and how many status responses it still owes.  A back end owes *)
(* one status for starting and one for every request; the front end makes  *)
(* its next request for a folder, and its first poll, only when nothing    *)
(* else is owed, and a connection that goes down owes nothing.             *)
(***************************************************************************)
EXTENDS Naturals

CONSTANT NFolders    \* how many folders the connection is configured with

VARIABLES phase, accepted, owed

vars == <<phase, accepted, owed>>

Phases == {"down", "greeting", "folders", "normal"}

TypeOK == /\ phase \in Phases
          /\ accepted \in 0 .. NFolders
          /\ owed \in Nat

Init == /\ phase = "down"
        /\ accepted = 0
        /\ owed = 0

(* The phase in which the next request is made, n folders being accepted.  *)
After(n) == IF n = NFolders THEN "normal" ELSE "folders"

Open == /\ phase = "down"
        /\ phase' = "greeting"
        /\ owed' = 1
        /\ UNCHANGED accepted

(* The greeting arrives and the first request is made in the same step.    *)
Greeted == /\ phase = "greeting"
           /\ owed = 1
           /\ phase' = After(accepted)
           /\ UNCHANGED <<accepted, owed>>

Accepted == /\ phase = "folders"
            /\ owed = 1
            /\ accepted' = accepted + 1
            /\ phase' = After(accepted')
            /\ UNCHANGED owed

(* A new poll never overtakes an unanswered one.                           *)
Poll == /\ phase = "normal"
        /\ owed = 0
        /\ owed' = 1
        /\ UNCHANGED <<phase, accepted>>

(* A data item the back end asked for is a request like any other.         *)
Respond == /\ phase = "normal"
           /\ owed' = owed + 1
           /\ UNCHANGED <<phase, accepted>>

Settle == /\ phase = "normal"
          /\ owed > 0
          /\ owed' = owed - 1
          /\ UNCHANGED <<phase, accepted>>

Drop == /\ phase # "down"
        /\ phase' = "down"
        /\ accepted' = 0
        /\ owed' = 0

Next == Open \/ Greeted \/ Accepted \/ Poll \/ Respond \/ Settle \/ Drop

Spec == Init /\ [][Next]_vars
==============================================================================
