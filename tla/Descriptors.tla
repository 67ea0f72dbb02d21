----------------------------- MODULE Descriptors -----------------------------
(***************************************************************************)
(* The front end's descriptors, by number: what the kernel's table says of *)
(* each, and fd_in and fd_out of every connection.  Numbers matter: an     *)
(* interface is told numbers, a connection keeps its numbers when it is    *)
(* closed, and the kernel gives the lowest free ones to the next process.  *)
(*                                                                         *)
(* The module has no variable of its own.  A table t is a record with the  *)
(* fields file and fds; TextLoop and GtkLoop add those of their interface. *)
(***************************************************************************)
EXTENDS BackEnd

CONSTANT MaxFd       \* bound: the highest descriptor; there are always enough

ASSUME FdAssumption == /\ IsFiniteSet(Conns)
                       /\ MaxFd \in Nat /\ MaxFd >= 2 * Cardinality(Conns) + 4

Fds == 3 .. MaxFd
Unopened == -1

Free == [of |-> 0, end |-> "none"]
Ends == [of : Conns, end : {"in", "out"}]

Files == [Fds -> Ends \cup {Free}]
FdPairs == [in : Fds \cup {Unopened}, out : Fds \cup {Unopened}]

NoFiles == [x \in Fds |-> Free]
NoFds == [in |-> Unopened, out |-> Unopened]

FreeFds(t) == {x \in Fds : t.file[x] = Free}

LowestFree(t, n) == CHOOSE x \in FreeFds(t) : Cardinality({y \in FreeFds(t) : y < x}) = n - 1

(* Two pipes take the four lowest free descriptors; the parent keeps the   *)
(* second, to write to the child, and the third, to read from it.  The     *)
(* other two are closed and go to the next one: of several connections     *)
(* that are started in a row, which is in the order of their numbers, the  *)
(* n-th keeps those at 2n and 2n + 1.                                      *)
Nth(started, c) == Cardinality({d \in started : d <= c})
PipeOut(t, started, c) == LowestFree(t, 2 * Nth(started, c))
PipeIn(t, started, c)  == LowestFree(t, 2 * Nth(started, c) + 1)

xpopen2(t, started) ==
    LET outs == [c \in started |-> PipeOut(t, started, c)]
        ins  == [c \in started |-> PipeIn(t, started, c)]
        Whose(x, ends) == {c \in started : ends[c] = x}
    IN  [t EXCEPT
           !.file = [x \in Fds |->
              CASE Whose(x, outs) # {} -> [of |-> CHOOSE c \in Whose(x, outs) : TRUE, end |-> "out"]
                [] Whose(x, ins) # {}  -> [of |-> CHOOSE c \in Whose(x, ins) : TRUE, end |-> "in"]
                [] OTHER               -> t.file[x]],
           !.fds = [c \in Conns |->
              IF c \in started THEN [in |-> ins[c], out |-> outs[c]] ELSE t.fds[c]]]

(* close() of c's numbers, whoever they belong to by now; the record keeps *)
(* them.                                                                   *)
Shut(t, c) ==
    [t EXCEPT !.file = [x \in Fds |-> IF x \in {t.fds[c].in, t.fds[c].out} THEN Free ELSE @[x]]]

(* A back end none of whose pipes is open in the front end is on its own.  *)
Held(t, d) == \E x \in Fds : t.file[x].of = d

LeaveUnheld(t) ==
    /\ toBack' = [d \in Conns |-> IF Held(t, d) THEN toBack[d] ELSE <<>>]
    /\ fromBack' = [d \in Conns |-> IF Held(t, d) THEN fromBack[d] ELSE <<>>]
    /\ be' = [d \in Conns |-> IF Held(t, d) THEN be[d] ELSE Gone]
===============================================================================
