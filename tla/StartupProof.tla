----------------------------- MODULE StartupProof -----------------------------
(***************************************************************************)
(* Proofs about Startup for every set of configuration directories and     *)
(* surroundings, and every size of the tables.                             *)
(***************************************************************************)
EXTENDS Startup, Counting

-------------------------------------------------------------------------------
(* What is given *)

Given == \E x \in Cases : host = x.host /\ tree = x.tree

LEMMA GivenFacts ==
  ASSUME Given
  PROVE  /\ tree.actions.is \in DirKinds /\ tree.connections.is \in DirKinds
         /\ tree.actions.is = "missing" => DOMAIN Files = {}
         /\ tree.connections.is = "missing" => DOMAIN Dirs = {}
         /\ IsFiniteSet(DOMAIN Files) /\ DOMAIN Files \subseteq Words
         /\ IsFiniteSet(DOMAIN Dirs) /\ DOMAIN Dirs \subseteq Words
         /\ \A a \in DOMAIN Files : Files[a] \in FileKinds
         /\ \A c \in DOMAIN Dirs :
              /\ Dirs[c].command \in FileKinds /\ Dirs[c].secret \in SecretKinds
              /\ \A l \in Lists : /\ Dirs[c][l].is \in FileKinds /\ Dirs[c][l].lines \in Seq(Words)
                                  /\ Dirs[c][l].is # "data" => Dirs[c][l].lines = <<>>
<1>1. PICK x \in Cases : tree = x.tree
  BY DEF Given
<1>2. /\ tree.actions.is \in DirKinds /\ tree.connections.is \in DirKinds
      /\ tree.actions.is = "missing" => DOMAIN Files = {}
      /\ tree.connections.is = "missing" => DOMAIN Dirs = {}
      /\ IsFiniteSet(DOMAIN Files) /\ DOMAIN Files \subseteq Words
      /\ IsFiniteSet(DOMAIN Dirs) /\ DOMAIN Dirs \subseteq Words
      /\ \A a \in DOMAIN Files : Files[a] \in FileKinds
  BY <1>1, CasesAssumption, Zenon DEF Files, Dirs
<1>3. \A c \in DOMAIN Dirs :
        /\ Dirs[c].command \in FileKinds /\ Dirs[c].secret \in SecretKinds
        /\ \A l \in Lists : /\ Dirs[c][l].is \in FileKinds /\ Dirs[c][l].lines \in Seq(Words)
                            /\ Dirs[c][l].is # "data" => Dirs[c][l].lines = <<>>
  BY <1>1, CasesAssumption, Zenon DEF Dirs
<1> QED
  BY <1>2, <1>3

(* It does not change, nor what is said of it.                             *)
LEMMA Unaffected ==
  ASSUME [Next]_vars
  PROVE  /\ UNCHANGED <<host, tree, Files, Dirs, Sound, Fits, WellWritten, Chosen>>
         /\ \A c, l : UNCHANGED Valid(c, l)
         /\ UNCHANGED gui => UNCHANGED SomeMissing
<1>1. UNCHANGED <<host, tree>>
  BY DEF Next, vars, given, main, gui_init, find_home, conf_read_options,
         conf_read_actions, OpenDirectory, conf_add_action, CloseDirectory,
         conf_read_connections, NextConnection, ReadCommand, ReadList, CheckSecret
<1>2. UNCHANGED <<Files, Dirs>>
  BY <1>1 DEF Files, Dirs
<1>3. UNCHANGED <<Fits, Chosen>> /\ \A c, l : UNCHANGED Valid(c, l)
  BY <1>1, <1>2 DEF Fits, Chosen, Valid
<1>4. UNCHANGED Sound
  BY <1>1, <1>2 DEF Sound
<1>5. UNCHANGED WellWritten
  BY <1>2, <1>3 DEF WellWritten
<1>6. UNCHANGED gui => UNCHANGED SomeMissing
  BY <1>1, <1>2 DEF SomeMissing
<1> QED
  BY <1>1, <1>2, <1>3, <1>4, <1>5, <1>6

-------------------------------------------------------------------------------
(* What is taken of a list *)

LEMMA BuiltInIs == BuiltIn \in Seq(Words) /\ Len(BuiltIn) \in Nat
<1>1. BuiltIn \in Seq(Words)
  BY DEF BuiltIn, Words
<1> QED
  BY <1>1, LenProperties

LEMMA DefaultsAre ==
  ASSUME NEW l \in Lists
  PROVE  /\ Defaults[l] \in Seq(Words)
         /\ l # "folders" => Range(Defaults[l]) \subseteq Range(BuiltIn)
<1>1. CASE l = "updates"
  <2>1. Defaults[l] = <<"image", "beep">>
    BY <1>1 DEF Defaults
  <2>2. BuiltIn[1] = "beep" /\ BuiltIn[2] = "image" /\ DOMAIN BuiltIn = 1 .. 3
    BY DEF BuiltIn
  <2> QED
    BY <2>1, <2>2 DEF Words, Range
<1>2. CASE l = "resets"
  <2>1. Defaults[l] = <<"image-reset">>
    BY <1>2 DEF Defaults
  <2>2. BuiltIn[3] = "image-reset" /\ DOMAIN BuiltIn = 1 .. 3
    BY DEF BuiltIn
  <2> QED
    BY <2>1, <2>2 DEF Words, Range
<1>3. CASE l = "folders"
  <2>1. Defaults[l] = <<"INBOX">>
    BY <1>3 DEF Defaults
  <2> QED
    BY <1>3, <2>1 DEF Words
<1> QED
  BY <1>1, <1>2, <1>3 DEF Lists

LEMMA RangeAppend ==
  ASSUME NEW S, NEW s \in Seq(S), NEW e \in S
  PROVE  Range(Append(s, e)) = Range(s) \cup {e}
<1>1. /\ Append(s, e) \in Seq(S) /\ Len(Append(s, e)) = Len(s) + 1
      /\ \A i \in 1 .. Len(s) : Append(s, e)[i] = s[i]
      /\ Append(s, e)[Len(s) + 1] = e
  BY AppendProperties
<1>2. /\ DOMAIN s = 1 .. Len(s) /\ Len(s) \in Nat
      /\ DOMAIN Append(s, e) = 1 .. Len(s) + 1
  BY <1>1, LenProperties
<1> DEFINE t == Append(s, e)
<1> HIDE DEF t
<1>3. Range(t) \subseteq Range(s) \cup {e}
  BY <1>1, <1>2 DEF Range, t
<1>4. Range(s) \subseteq Range(t)
  BY <1>1, <1>2 DEF Range, t
<1>5. e \in Range(t)
  BY <1>1, <1>2 DEF Range, t
<1> QED
  BY <1>3, <1>4, <1>5 DEF t

(* The beginnings of a list that can be taken can be taken, too.           *)
LEMMA AcceptablePrefix ==
  ASSUME NEW l \in Lists, NEW words \in Seq(Words), NEW n \in 0 .. Len(words)
  PROVE  /\ SubSeq(words, 1, n) \in Seq(Words) /\ Len(SubSeq(words, 1, n)) = n
         /\ Acceptable(l, words) => Acceptable(l, SubSeq(words, 1, n))
         /\ n = 0 => Acceptable(l, SubSeq(words, 1, n))
<1> DEFINE part == SubSeq(words, 1, n)
<1>1. /\ Len(words) \in Nat /\ DOMAIN words = 1 .. Len(words) /\ Limits[l] \in Nat
  BY LenProperties, LimitsAssumption
<1>2. /\ part \in Seq(Words) /\ Len(part) = n
      /\ \A i \in 1 .. n : part[i] = words[i]
  <2>1. n <= Len(words) /\ n \in Nat /\ \A i \in 1 .. n : i \in 1 .. Len(words)
    BY <1>1
  <2>2. \A i \in 1 .. n : words[i] \in Words
    BY <2>1, ElementOfSeq
  <2>3. /\ part \in Seq(Words)
        /\ Len(part) = IF 1 <= n THEN n - 1 + 1 ELSE 0
        /\ \A i \in 1 .. n - 1 + 1 : part[i] = words[1 + i - 1]
    BY <2>1, <2>2, SubSeqProperties
  <2> HIDE DEF part
  <2>4. n - 1 + 1 = n /\ \A i \in 1 .. n : 1 + i - 1 = i
    BY <2>1
  <2> QED
    BY <2>1, <2>3, <2>4
<1> HIDE DEF part
<1>3. DOMAIN part = 1 .. n
  BY <1>2, LenProperties
<1>4. Range(part) \subseteq Range(words)
  BY <1>1, <1>2, <1>3 DEF Range
<1>5. Acceptable(l, words) => Acceptable(l, part)
  BY <1>1, <1>2, <1>4 DEF Acceptable
<1>6. n = 0 => Acceptable(l, part)
  BY <1>1, <1>2, <1>3 DEF Acceptable, Range
<1> QED
  BY <1>2, <1>5, <1>6 DEF part

(* A list is taken up to the first word that cannot be.                    *)
LEMMA AcceptedIs ==
  ASSUME NEW l \in Lists, NEW words \in Seq(Words)
  PROVE  /\ Accepted(l, words) \in Seq(Words)
         /\ Len(Accepted(l, words)) <= Limits[l]
         /\ Accepted(l, words) = words <=> Acceptable(l, words)
<1> DEFINE part(n) == SubSeq(words, 1, n)
           Cut(n) == Acceptable(l, part(n)) /\ (n < Len(words) => ~Acceptable(l, part(n + 1)))
           Breaks(n) == n < Len(words) => ~Acceptable(l, part(n + 1))
           T == {n \in 0 .. Len(words) : Breaks(n)}
<1>1. Len(words) \in Nat /\ part(Len(words)) = words
  BY LenProperties, SubSeqFull
<1>2. Len(words) \in T /\ T \in SUBSET Nat
  BY <1>1
<1>3. PICK m \in T : \A n \in T : m <= n
  <2> HIDE DEF T
  <2> QED
    BY <1>2, LeastElement
<1>4. m \in 0 .. Len(words) /\ Breaks(m)
  BY <1>3
<1>5. Acceptable(l, part(m))
  <2>1. CASE m = 0
    BY <1>4, <2>1, AcceptablePrefix
  <2>2. CASE m # 0
    <3>1. m - 1 \in 0 .. Len(words) /\ m - 1 < Len(words) /\ (m - 1) + 1 = m /\ ~(m <= m - 1)
      BY <1>1, <1>4, <2>2
    <3>2. m - 1 \notin T
      BY <1>3, <3>1
    <3>3. ~Breaks(m - 1)
      BY <3>1, <3>2
    <3> QED
      BY <3>1, <3>3
  <2> QED
    BY <2>1, <2>2
<1> DEFINE n == CHOOSE n \in 0 .. Len(words) : Cut(n)
<1>6. n \in 0 .. Len(words) /\ Cut(n)
  <2>1. \E k \in 0 .. Len(words) : Cut(k)
    BY <1>4, <1>5
  <2> HIDE DEF Cut
  <2> QED
    BY <2>1
<1>7. Accepted(l, words) = part(n)
  BY DEF Accepted
<1> HIDE DEF n
<1>8. /\ part(n) \in Seq(Words) /\ Len(part(n)) = n /\ Acceptable(l, part(n))
  BY <1>6, AcceptablePrefix
<1>9. ASSUME Acceptable(l, words) PROVE part(n) = words
  <2>1. ~(n < Len(words))
    <3>1. SUFFICES ASSUME n < Len(words) PROVE FALSE
      OBVIOUS
    <3>2. n + 1 \in 0 .. Len(words)
      BY <1>1, <1>6, <3>1
    <3>3. Acceptable(l, part(n + 1))
      BY <1>9, <3>2, AcceptablePrefix
    <3> QED
      BY <1>6, <3>1, <3>3
  <2>2. n = Len(words)
    <3>1. n \in 0 .. Len(words) /\ Len(words) \in Nat
      BY <1>1, <1>6
    <3> HIDE DEF Cut, part
    <3> QED
      BY <2>1, <3>1
  <2> QED
    BY <1>1, <2>2
<1>10. Len(part(n)) <= Limits[l]
  BY <1>8 DEF Acceptable
<1> QED
  BY <1>7, <1>8, <1>9, <1>10

(* A set with one more name in it.                                         *)
LEMMA OneMore ==
  ASSUME NEW S, IsFiniteSet(S), NEW T, T \subseteq S, NEW a \in S, a \notin T
  PROVE  /\ IsFiniteSet(T) /\ Cardinality(T) \in Nat /\ Cardinality(S) \in Nat
         /\ Cardinality(T \cup {a}) = Cardinality(T) + 1
         /\ Cardinality(T) + 1 <= Cardinality(S)
<1>1. IsFiniteSet(T)
  BY FS_Subset
<1>2. Cardinality(T \cup {a}) = Cardinality(T) + 1
  BY <1>1, FS_AddElement
<1>3. T \cup {a} \subseteq S
  OBVIOUS
<1>4. Cardinality(T \cup {a}) <= Cardinality(S)
  BY <1>3, FS_Subset
<1> QED
  BY <1>1, <1>2, <1>4, FS_CardinalityType

-------------------------------------------------------------------------------
(* The inductive invariant *)

Built == Range(BuiltIn)

(* The steps while connections are read, and those for one of them.        *)
Filling == {"command", "updates", "resets", "folders", "secret"}
Reading == Filling \cup {"connections"}
Before == {"main", "gui", "home", "frequency", "open actions"}
ActionsRead == Reading \cup {"open connections", "running"}

(* What was read so far of the actions, where nothing failed.              *)
ActionsFrom(read) ==
    /\ Range(actions) = Built \cup read
    /\ Len(actions) = Len(BuiltIn) + Cardinality(read)
    /\ \A a \in read : Files[a] = "data"

ActionsInv ==
    /\ pc \in Before => actions = BuiltIn /\ dir = NotReading
    /\ pc = "actions" =>
         /\ tree.actions.is = "dir"
         /\ dir.todo \subseteq DOMAIN Files
         /\ IF dir.errors = 0 THEN ActionsFrom(DOMAIN Files \ dir.todo) ELSE ~Sound
    /\ pc \in ActionsRead => tree.actions.is # "unreadable" /\ ActionsFrom(DOMAIN Files)
    /\ pc \in {"open connections", "running"} => dir.errors = 0

Expected(c, l) == IF Dirs[c][l].is = "missing" THEN Defaults[l] ELSE Dirs[c][l].lines

(* A list that was read.                                                   *)
Fine(s, l) ==
    /\ Len(s[l]) <= Limits[l]
    /\ Valid(s.name, l) => s[l] = Expected(s.name, l)
    /\ Dirs[s.name][l].is # "unreadable"
    /\ dir.errors = 0 => Valid(s.name, l) \/ SomeMissing

Complete(s) ==
    /\ \A l \in Lists : Fine(s, l)
    /\ Dirs[s.name].command = "data"
    /\ Dirs[s.name].secret \in {"missing", "private"}

Done == CASE pc = "resets" -> {"updates"} [] pc = "folders" -> {"updates", "resets"}
          [] pc = "secret" -> Lists [] OTHER -> {}

CountedNames == {connections[i].name : i \in DOMAIN connections}

SlotInv ==
    pc \in Filling =>
      /\ Len(connections) < MAX_CONNECTIONS
      /\ slot.name \in DOMAIN Dirs
      /\ slot.name \notin dir.todo \cup CountedNames
      /\ \A l \in Done : Fine(slot, l)
      /\ \A l \in Lists \ Done : slot[l] = <<>>
      /\ pc # "command" => Dirs[slot.name].command = "data"

(* The connections that are neither counted nor to be read.                *)
Current == IF pc \in Filling THEN {slot.name} ELSE {}

(* Each connection is counted once, and complete.                          *)
CountedInv ==
    /\ \A i, j \in DOMAIN connections : connections[i].name = connections[j].name => i = j
    /\ \A i \in DOMAIN connections : Complete(connections[i])
    /\ CountedNames \subseteq DOMAIN Dirs

(* None is left out.                                                       *)
ProgressInv ==
    /\ pc \in Before \cup {"actions", "open connections"} => connections = <<>>
    /\ pc \in Reading =>
         /\ tree.connections.is = "dir"
         /\ dir.todo \subseteq DOMAIN Dirs
         /\ CountedNames \cap dir.todo = {}
         /\ IF dir.errors = 0
              THEN LET read == DOMAIN Dirs \ (dir.todo \cup Current)
                   IN  CountedNames = read /\ Len(connections) = Cardinality(read)
              ELSE ~(Sound /\ WellWritten)
    /\ pc = "running" =>
         /\ tree.connections.is # "unreadable"
         /\ CountedNames = DOMAIN Dirs /\ Len(connections) = Cardinality(DOMAIN Dirs)

(* errno says that a file is missing only where one is.                    *)
ErrnoInv ==
    /\ pc \in {"main", "gui"} => errno = "none"
    /\ errno = "ENOENT" => SomeMissing \/ tree.connections.is = "missing" \/ dir.errors > 0

StartInv == ActionsInv /\ SlotInv /\ CountedInv /\ ProgressInv /\ ErrnoInv

-------------------------------------------------------------------------------
(* Each part of it is kept *)

LEMMA FineKept ==
  ASSUME [Next]_vars, UNCHANGED gui, dir'.errors = 0 => dir.errors = 0
  PROVE  /\ \A s, l : Fine(s, l) => Fine(s, l)'
         /\ \A s : Complete(s) => Complete(s)'
<1>1. \A s, l : Fine(s, l) => Fine(s, l)'
  BY Unaffected DEF Fine, Expected
<1> QED
  BY <1>1, Unaffected DEF Complete


LEMMA ActionsStep ==
  ASSUME TypeOK, Given, ActionsInv, [Next]_vars
  PROVE  ActionsInv'
<1> USE DEF Filling, Reading, Before, ActionsRead
<1>1. UNCHANGED <<tree, Files, Sound>>
  BY Unaffected
<1>b. dir.errors \in Nat
  BY DEF TypeOK
<1>2. CASE UNCHANGED <<pc, actions, dir>>
  BY <1>1, <1>2 DEF ActionsInv, ActionsFrom
<1>c. ASSUME pc' \in Ends \ {"running"} PROVE ActionsInv'
  BY <1>c DEF ActionsInv, Ends
(* After the actions were read.                                            *)
<1>a. ASSUME UNCHANGED actions, pc \in ActionsRead,
             pc' \notin Before \cup {"actions"},
             pc' \in {"open connections", "running"} => dir'.errors = 0
      PROVE  ActionsInv'
  <2>1. tree.actions.is # "unreadable" /\ ActionsFrom(DOMAIN Files)
    BY <1>a DEF ActionsInv
  <2>2. tree'.actions.is # "unreadable" /\ ActionsFrom(DOMAIN Files)'
    BY <1>1, <1>a, <2>1 DEF ActionsFrom
  <2> QED
    BY <1>a, <2>2, Zenon DEF ActionsInv
<1>3. CASE main \/ gui_init \/ find_home \/ conf_read_options
  <2>1. /\ UNCHANGED <<actions, dir>> /\ pc \in Before \ {"open actions"}
        /\ pc' \in Before \cup {"exited", "died"}
    BY <1>3 DEF main, gui_init, find_home, conf_read_options, tables, xdie
  <2> QED
    BY <1>1, <2>1 DEF ActionsInv, ActionsFrom
<1>4. CASE conf_read_actions
  <2>1. actions = BuiltIn /\ dir = NotReading /\ UNCHANGED actions /\ pc = "open actions"
    BY <1>4 DEF conf_read_actions, OpenDirectory, ActionsInv
  <2>2. Cardinality({}) = 0 /\ dir.errors = 0
    BY <2>1, FS_EmptySet DEF NotReading
  <2>3. Range(actions) = Built /\ Len(actions) = Len(BuiltIn) + 0
    <3>1. Len(BuiltIn) + 0 = Len(BuiltIn)
      BY BuiltInIs
    <3> QED
      BY <2>1, <3>1 DEF Built
  <2>4. /\ tree.actions.is = "missing" => DOMAIN Files = {}
        /\ \/ tree.actions.is = "missing" /\ pc' = "open connections" /\ UNCHANGED dir
           \/ tree.actions.is = "unreadable" /\ pc' = "died"
           \/ tree.actions.is = "dir" /\ pc' = "actions" /\ dir' = [todo |-> DOMAIN Files, errors |-> 0]
    BY <1>4, GivenFacts DEF conf_read_actions, OpenDirectory, xdie, Files
  <2>5. /\ tree.actions.is = "dir" => dir'.todo = DOMAIN Files /\ dir'.errors = 0
        /\ tree.actions.is = "missing" => DOMAIN Files = {} /\ dir'.errors = 0
    <3>1. CASE tree.actions.is = "dir"
      BY <2>4, <3>1
    <3>2. CASE tree.actions.is = "missing"
      BY <2>2, <2>4, <3>2
    <3> QED
      BY <3>1, <3>2
  <2>6. /\ tree.actions.is = "dir" => ActionsFrom(DOMAIN Files \ dir.todo)'
        /\ tree.actions.is = "missing" => ActionsFrom(DOMAIN Files)'
    BY <1>1, <2>1, <2>2, <2>3, <2>5 DEF ActionsFrom
  <2>7. CASE tree.actions.is = "missing"
    BY <1>1, <2>4, <2>5, <2>6, <2>7 DEF ActionsInv
  <2>8. CASE tree.actions.is = "dir"
    BY <1>1, <2>4, <2>5, <2>6, <2>8 DEF ActionsInv
  <2> QED
    BY <2>4, <2>7, <2>8 DEF ActionsInv
<1>5. CASE conf_add_action
  <2>1. PICK a \in dir.todo :
          /\ dir' = [todo |-> dir.todo \ {a}, errors |-> dir.errors + (IF Files[a] = "data" THEN 0 ELSE 1)]
          /\ \/ Files[a] = "data" /\ actions' = Append(actions, a) /\ pc' = pc
             \/ Files[a] = "data" /\ pc' = "overrun"
             \/ Files[a] # "data" /\ actions' = actions /\ pc' = pc
    BY <1>5, Zenon DEF conf_add_action, Files
  <2>2. /\ pc = "actions" /\ tree.actions.is = "dir"
        /\ dir.todo \subseteq DOMAIN Files /\ dir.errors \in Nat
        /\ IF dir.errors = 0 THEN ActionsFrom(DOMAIN Files \ dir.todo) ELSE ~Sound
    BY <1>5 DEF conf_add_action, ActionsInv, TypeOK
  <2>3. a \in DOMAIN Files /\ a \in Words /\ IsFiniteSet(DOMAIN Files)
    BY <2>2, GivenFacts
  <2>4. CASE Files[a] # "data"
    <3>1. ~Sound
      BY <2>3, <2>4 DEF Sound
    <3>2. dir'.errors # 0 /\ dir'.todo \subseteq DOMAIN Files
      BY <2>1, <2>2, <2>4
    <3>3. pc' = "actions" /\ tree'.actions.is = "dir" /\ dir'.todo \subseteq DOMAIN Files' /\ ~Sound'
      BY <1>1, <2>1, <2>2, <2>4, <3>1, <3>2
    <3> QED
      BY <3>2, <3>3, Zenon DEF ActionsInv
  <2>5. CASE Files[a] = "data" /\ actions' = Append(actions, a) /\ pc' = pc
    <3> DEFINE read == DOMAIN Files \ dir.todo
    <3>1. dir'.errors = dir.errors /\ dir'.todo = dir.todo \ {a}
      BY <2>1, <2>2, <2>5
    <3>2. DOMAIN Files \ dir'.todo = read \cup {a} /\ a \notin read /\ read \subseteq DOMAIN Files
      BY <2>1, <2>3, <3>1
    <3>3. /\ Cardinality(read \cup {a}) = Cardinality(read) + 1
          /\ Cardinality(read) \in Nat
      BY <2>3, <3>2, OneMore
    <3>4. /\ Range(actions') = Range(actions) \cup {a}
          /\ Len(actions') = Len(actions) + 1
      BY <2>3, <2>5, RangeAppend, AppendProperties DEF TypeOK
    <3> HIDE DEF read
    <3>5. ASSUME dir.errors = 0
          PROVE  /\ Range(actions') = Built \cup (read \cup {a})
                 /\ Len(actions') = Len(BuiltIn) + Cardinality(read \cup {a})
                 /\ \A b \in read \cup {a} : Files[b] = "data"
      BY <2>2, <2>5, <3>3, <3>4, <3>5 DEF ActionsFrom, BuiltIn, read
    <3>6. dir'.errors = 0 => ActionsFrom(DOMAIN Files \ dir.todo)'
      BY <1>1, <3>1, <3>2, <3>5 DEF ActionsFrom
    <3> QED
      BY <1>1, <2>2, <2>5, <3>1, <3>6 DEF ActionsInv
  <2> QED
    BY <2>1, <2>4, <2>5 DEF ActionsInv
<1>6. CASE CloseDirectory("actions", "open connections")
  <2>1. /\ pc = "actions" /\ dir.todo = {} /\ UNCHANGED <<actions, dir>>
        /\ IF dir.errors > 0 THEN pc' = "died" ELSE pc' = "open connections"
    BY <1>6 DEF CloseDirectory, tables, xdie
  <2>2. CASE pc' = "open connections" /\ dir.errors = 0
    <3>1. DOMAIN Files \ dir.todo = DOMAIN Files
      BY <2>1
    <3>2. tree.actions.is # "unreadable" /\ ActionsFrom(DOMAIN Files)
      BY <2>1, <2>2, <3>1 DEF ActionsInv
    <3>3. tree'.actions.is # "unreadable" /\ ActionsFrom(DOMAIN Files)'
      BY <1>1, <2>1, <3>2 DEF ActionsFrom
    <3> QED
      BY <2>1, <2>2, <3>3 DEF ActionsInv
  <2>3. CASE pc' = "died"
    BY <1>c, <2>3 DEF Ends
  <2>4. dir.errors = 0 \/ dir.errors > 0
    BY <1>b
  <2> QED
    BY <2>1, <2>2, <2>3, <2>4, Zenon
<1>7. CASE conf_read_connections
  <2>1. /\ pc = "open connections" /\ UNCHANGED actions
        /\ \/ pc' = "running" /\ UNCHANGED dir
           \/ pc' \in {"died", "connections"}
    BY <1>7 DEF conf_read_connections, OpenDirectory, xdie
  <2> QED
    BY <1>1, <2>1 DEF ActionsInv, ActionsFrom
<1>8. CASE CloseDirectory("connections", "running")
  <2>1. /\ pc = "connections" /\ UNCHANGED <<actions, dir>>
        /\ IF dir.errors > 0 THEN pc' = "died" ELSE pc' = "running"
    BY <1>8 DEF CloseDirectory, tables, xdie
  <2>2. CASE pc' = "running" /\ dir.errors = 0
    BY <1>a, <2>1, <2>2
  <2>3. CASE pc' = "died"
    BY <1>c, <2>3 DEF Ends
  <2> QED
    BY <1>b, <2>1, <2>2, <2>3
<1>9. CASE \/ NextConnection \/ ReadCommand \/ CheckSecret
           \/ ReadList("updates", "resets") \/ ReadList("resets", "folders")
           \/ ReadList("folders", "secret")
  <2>1. pc \in Reading /\ UNCHANGED actions /\ pc' \in Reading \cup {"overrun"}
    BY <1>9 DEF NextConnection, ReadCommand, CheckSecret, ReadList, Fail
  <2> QED
    BY <1>a, <2>1
<1> QED
  BY <1>2, <1>3, <1>4, <1>5, <1>6, <1>7, <1>8, <1>9 DEF Next, vars

(* The next step of the three lists.                                       *)
NextOf == [updates |-> "resets", resets |-> "folders", folders |-> "secret"]

(* A list is read, or it is wrong.                                         *)
LEMMA ListRead ==
  ASSUME TypeOK, Given, StartInv, NEW l \in Lists, ReadList(l, NextOf[l])
  PROVE  /\ UNCHANGED <<host, tree, gui, connections>>
         /\ \/ /\ pc' = NextOf[l] /\ dir' = dir
               /\ \E q \in Seq(Words) : slot' = [slot EXCEPT ![l] = q]
               /\ Fine(slot', l)
            \/ /\ pc' = "connections" /\ dir' = [dir EXCEPT !.errors = @ + 1]
               /\ ~Sound \/ ~WellWritten
         /\ errno' = "ENOENT" => errno = "ENOENT" \/ SomeMissing
<1> DEFINE c       == slot.name
           f       == Dirs[c][l]
           lines   == f.lines
           taken   == Accepted(l, lines)
           failed  == f.is \in {"missing", "unreadable"} \/ taken # lines
<1>1. pc = l /\ pc \in Filling /\ pc \in ActionsRead /\ l \notin Done
  BY DEF ReadList, Filling, ActionsRead, Reading, Lists, Done
<1>2. /\ c \in DOMAIN Dirs /\ slot[l] = <<>>
      /\ slot \in Slots /\ dir \in [todo : SUBSET Words, errors : Nat]
  BY <1>1 DEF StartInv, SlotInv, TypeOK
<1>3. f.is \in FileKinds /\ lines \in Seq(Words) /\ (f.is # "data" => lines = <<>>)
  BY <1>2, GivenFacts
<1>4. /\ taken \in Seq(Words) /\ Len(taken) <= Limits[l]
      /\ taken = lines <=> Acceptable(l, lines)
  BY <1>3, AcceptedIs
<1>5. Range(actions) = Range(BuiltIn) \cup DOMAIN Files
  BY <1>1 DEF StartInv, ActionsInv, ActionsFrom, Built
<1>6. Acceptable(l, lines) <=> Valid(c, l)
  BY <1>5 DEF Acceptable, Valid
<1>7. slot[l] \o taken = taken
  BY <1>2, <1>4, ConcatEmptySeq
<1>8. taken \o Defaults[l] \in Seq(Words)
  BY <1>4, DefaultsAre, ConcatProperties
<1>9. /\ Accepted(l, taken \o Defaults[l]) \in Seq(Words)
      /\ Len(Accepted(l, taken \o Defaults[l])) <= Limits[l]
  BY <1>8, AcceptedIs
<1>10. lines = <<>> => taken = lines /\ Accepted(l, taken \o Defaults[l]) = Defaults[l]
  <2>1. SUFFICES ASSUME lines = <<>>
        PROVE  taken = lines /\ Accepted(l, taken \o Defaults[l]) = Defaults[l]
    OBVIOUS
  <2>2. Acceptable(l, lines)
    BY <2>1, LimitsAssumption DEF Acceptable, Range
  <2>3. taken \o Defaults[l] = Defaults[l]
    BY <1>4, <2>1, <2>2, DefaultsAre, ConcatEmptySeq
  <2>4. Acceptable(l, Defaults[l])
    BY <1>5, LimitsAssumption, DefaultsAre DEF Acceptable
  <2> QED
    BY <1>4, <2>2, <2>3, <2>4, DefaultsAre, AcceptedIs
<1>11. /\ errno' = Opened(f.is)
       /\ \/ /\ ~failed
             /\ slot' = [slot EXCEPT ![l] = taken]
             /\ pc' = NextOf[l] /\ dir' = dir
          \/ /\ failed /\ errno' = "ENOENT"
             /\ slot' = [slot EXCEPT ![l] = Accepted(l, taken \o Defaults[l])]
             /\ pc' = NextOf[l] /\ dir' = dir
          \/ /\ failed /\ errno' # "ENOENT"
             /\ pc' = "connections" /\ dir' = [dir EXCEPT !.errors = @ + 1]
       /\ UNCHANGED <<host, tree, gui, connections>>
  <2> HIDE DEF failed, taken, lines
  <2> QED
    BY <1>7 DEF ReadList, Fail, entry, Dirs, failed, taken, lines, given
<1>12. taken # lines => ~Valid(c, l) /\ ~WellWritten
  BY <1>2, <1>4, <1>6 DEF WellWritten
<1>13. f.is = "missing" => SomeMissing /\ lines = <<>>
  BY <1>2, <1>3 DEF SomeMissing
<1>14. errno = "ENOENT" => SomeMissing \/ dir.errors > 0
  BY <1>1 DEF StartInv, ErrnoInv, ProgressInv, Reading
<1> HIDE DEF c, f, lines, taken, failed
<1>15. errno' = "ENOENT" => errno = "ENOENT" \/ SomeMissing
  BY <1>11, <1>13 DEF Opened
<1>16. ASSUME NEW q \in Seq(Words), slot' = [slot EXCEPT ![l] = q]
       PROVE  slot'[l] = q /\ slot'.name = slot.name
  BY <1>2, <1>16 DEF Slots, Lists
<1>17. CASE ~failed /\ slot' = [slot EXCEPT ![l] = taken] /\ pc' = NextOf[l] /\ dir' = dir
  <2>1. taken = lines /\ f.is \notin {"missing", "unreadable"} /\ Valid(c, l)
    BY <1>4, <1>6, <1>17 DEF failed
  <2>2. slot'[l] = lines /\ slot'.name = slot.name
    BY <1>4, <1>16, <1>17, <2>1
  <2>3. Fine(slot', l)
    BY <1>4, <2>1, <2>2 DEF Fine, Expected, c, f, lines
  <2> QED
    BY <1>4, <1>11, <1>15, <1>17, <2>3
<1>18. CASE /\ failed /\ errno' = "ENOENT"
            /\ slot' = [slot EXCEPT ![l] = Accepted(l, taken \o Defaults[l])]
            /\ pc' = NextOf[l] /\ dir' = dir
  <2>1. slot'[l] = Accepted(l, taken \o Defaults[l]) /\ slot'.name = slot.name
    BY <1>9, <1>16, <1>18
  <2>2. f.is # "unreadable"
    BY <1>11, <1>18 DEF Opened
  <2>3. f.is = "missing" => slot'[l] = Defaults[l]
    BY <1>10, <1>13, <2>1
  <2>4. f.is # "missing" => ~Valid(c, l) /\ errno = "ENOENT"
    BY <1>11, <1>12, <1>18, <2>2, <1>3 DEF failed, FileKinds, Opened, lines, taken
  <2>5. dir.errors = 0 => SomeMissing
    BY <1>2, <1>13, <1>14, <2>4
  <2>6. Fine(slot', l)
    BY <1>9, <2>1, <2>2, <2>3, <2>4, <2>5 DEF Fine, Expected, c, f
  <2> QED
    BY <1>9, <1>11, <1>15, <1>18, <2>6
<1>19. CASE /\ failed /\ errno' # "ENOENT"
            /\ pc' = "connections" /\ dir' = [dir EXCEPT !.errors = @ + 1]
  <2>1. f.is = "unreadable" \/ taken # lines
    BY <1>11, <1>19 DEF failed, Opened
  <2>2. f.is = "unreadable" => ~Sound
    BY <1>2 DEF Sound, f, c
  <2> QED
    BY <1>11, <1>12, <1>15, <1>19, <2>1, <2>2
<1> QED
  BY <1>11, <1>17, <1>18, <1>19

LEMMA ErrnoStep ==
  ASSUME TypeOK, Given, StartInv, [Next]_vars
  PROVE  ErrnoInv'
<1>1. UNCHANGED <<tree, Files, Dirs>> /\ (UNCHANGED gui => UNCHANGED SomeMissing)
  BY Unaffected
<1>2. dir.errors \in Nat /\ (pc \in {"main", "gui"} => errno = "none")
  BY DEF TypeOK, StartInv, ErrnoInv
<1>3. errno = "ENOENT" => SomeMissing \/ tree.connections.is = "missing" \/ dir.errors > 0
  BY DEF StartInv, ErrnoInv
(* A step that leaves the interface alone and forgets no failure.          *)
<1>4. ASSUME UNCHANGED gui, dir.errors > 0 => dir'.errors > 0, pc' \notin {"main", "gui"},
             errno' = "ENOENT" =>
               errno = "ENOENT" \/ SomeMissing \/ tree.connections.is = "missing" \/ dir'.errors > 0
      PROVE  ErrnoInv'
  <2>1. UNCHANGED SomeMissing
    BY <1>1, <1>4
  <2> QED
    BY <1>1, <1>3, <1>4, <2>1 DEF ErrnoInv
<1>5. CASE UNCHANGED vars
  BY <1>1, <1>2, <1>3, <1>5 DEF ErrnoInv, vars
<1>6. CASE main
  BY <1>1, <1>2, <1>6 DEF ErrnoInv, main
<1>7. CASE gui_init
  <2>1. errno = "none" /\ gui' = Chosen /\ pc' \notin {"main", "gui"}
        /\ (Chosen # "gtk" => errno' = errno) /\ (errno' # errno => Chosen = "gtk")
    BY <1>2, <1>7 DEF gui_init, xdie
  <2>2. errno' = "ENOENT" => gui' = "gtk"
    BY <2>1
  <2>3. gui' = "gtk" => SomeMissing'
    BY DEF SomeMissing
  <2> QED
    BY <2>1, <2>2, <2>3 DEF ErrnoInv
<1>8. CASE find_home
  <2>1. UNCHANGED <<gui, dir>> /\ pc' \notin {"main", "gui"}
    BY <1>8 DEF find_home, tables, xdie
  <2>2. errno' # errno => SomeMissing
    BY <1>8 DEF find_home, SomeMissing
  <2> QED
    BY <1>2, <1>4, <2>1, <2>2
<1>9. CASE conf_read_options
  <2>1. UNCHANGED <<gui, dir>> /\ pc' \notin {"main", "gui"} /\ errno' = Opened(tree.frequency)
    BY <1>9 DEF conf_read_options
  <2>2. errno' = "ENOENT" => errno = "ENOENT" \/ SomeMissing
    BY <2>1 DEF Opened, SomeMissing
  <2> QED
    BY <1>4, <2>1, <2>2
<1>10. CASE conf_read_actions
  <2>1. pc = "open actions"
    BY <1>10 DEF conf_read_actions, OpenDirectory
  <2>2. dir.errors = 0
    <3>1. dir = NotReading
      BY <2>1, Zenon DEF StartInv, ActionsInv, Before
    <3> QED
      BY <3>1 DEF NotReading
  <2>3. /\ UNCHANGED gui /\ pc' \notin {"main", "gui"}
        /\ errno' = "ENOENT" => errno = "ENOENT" \/ tree.actions.is = "missing"
    BY <1>10 DEF conf_read_actions, OpenDirectory, xdie, Opened
  <2> QED
    BY <1>4, <2>2, <2>3 DEF SomeMissing
<1>11. CASE conf_read_connections
  <2>1. pc = "open connections"
    BY <1>11 DEF conf_read_connections, OpenDirectory
  <2>2. dir.errors = 0
    BY <2>1 DEF StartInv, ActionsInv
  <2>3. /\ UNCHANGED gui /\ pc' \notin {"main", "gui"}
        /\ errno' = "ENOENT" => errno = "ENOENT" \/ tree.connections.is = "missing"
    BY <1>11 DEF conf_read_connections, OpenDirectory, xdie, Opened
  <2> QED
    BY <1>4, <2>2, <2>3
<1>12. CASE conf_add_action
  <2>1. PICK a \in dir.todo :
          /\ errno' = Opened(Files[a])
          /\ dir' = [todo |-> dir.todo \ {a}, errors |-> dir.errors + (IF Files[a] = "data" THEN 0 ELSE 1)]
    BY <1>12, Zenon DEF conf_add_action, Files
  <2>2. UNCHANGED gui /\ pc' \notin {"main", "gui"}
    BY <1>12 DEF conf_add_action
  <2>3. /\ dir.errors > 0 => dir'.errors > 0
        /\ Files[a] # "data" => dir'.errors > 0
    BY <1>2, <2>1
  <2>4. errno' = "ENOENT" => errno = "ENOENT" \/ Files[a] # "data"
    BY <2>1 DEF Opened
  <2> QED
    BY <1>4, <2>2, <2>3, <2>4
<1>13. CASE CloseDirectory("actions", "open connections") \/ CloseDirectory("connections", "running")
  <2>1. UNCHANGED <<gui, errno, dir>> /\ pc' \notin {"main", "gui"}
    BY <1>13 DEF CloseDirectory, tables, xdie
  <2> QED
    BY <1>4, <2>1
<1>14. CASE NextConnection
  <2>1. UNCHANGED <<gui, errno>> /\ pc' \notin {"main", "gui"} /\ dir'.errors = dir.errors
    BY <1>14 DEF NextConnection, TypeOK
  <2> QED
    BY <1>2, <1>4, <2>1
<1>15. CASE ReadCommand
  <2>1. /\ UNCHANGED gui /\ pc' \notin {"main", "gui"}
        /\ errno' = Opened(entry.command)
        /\ entry.command = "data" => dir' = dir
        /\ entry.command # "data" => dir'.errors = dir.errors + 1
    BY <1>15 DEF ReadCommand, Fail, TypeOK
  <2>2. /\ dir.errors > 0 => dir'.errors > 0
        /\ errno' = "ENOENT" => errno = "ENOENT" \/ dir'.errors > 0
    BY <1>2, <2>1 DEF Opened
  <2> QED
    BY <1>4, <2>1, <2>2
<1>16. CASE CheckSecret
  <2>1. /\ UNCHANGED gui /\ pc' \notin {"main", "gui"}
        /\ errno' = "ENOENT" => errno = "ENOENT" \/ entry.secret = "missing"
        /\ dir' = dir \/ dir'.errors = dir.errors + 1
    BY <1>16 DEF CheckSecret, Fail, TypeOK
  <2>2. dir.errors > 0 => dir'.errors > 0
    BY <1>2, <2>1
  <2>3. entry.secret = "missing" => SomeMissing
    <3>1. slot.name \in DOMAIN Dirs
      BY <1>16 DEF CheckSecret, StartInv, SlotInv, Filling
    <3> QED
      BY <3>1 DEF SomeMissing, entry, Dirs
  <2> QED
    BY <1>4, <2>1, <2>2, <2>3
<1>17. ASSUME NEW l \in Lists, ReadList(l, NextOf[l]) PROVE ErrnoInv'
  <2>1. /\ UNCHANGED gui /\ pc' \in {NextOf[l], "connections"}
        /\ dir' = dir \/ dir' = [dir EXCEPT !.errors = @ + 1]
        /\ errno' = "ENOENT" => errno = "ENOENT" \/ SomeMissing
    BY <1>17, ListRead
  <2>2. pc' \notin {"main", "gui"}
    BY <2>1 DEF NextOf, Lists
  <2>3. dir.errors > 0 => dir'.errors > 0
    BY <1>2, <2>1 DEF TypeOK
  <2> QED
    BY <1>4, <2>1, <2>2, <2>3
<1> QED
  BY <1>5, <1>6, <1>7, <1>8, <1>9, <1>10, <1>11, <1>12, <1>13, <1>14,
     <1>15, <1>16, <1>17
     DEF Next, Lists, NextOf

LEMMA SlotStep ==
  ASSUME TypeOK, Given, StartInv, [Next]_vars
  PROVE  SlotInv'
<1>1. UNCHANGED <<Dirs>>
  BY Unaffected
<1>2. CASE UNCHANGED vars
  <2>1. \A l : Fine(slot, l) => Fine(slot, l)'
    BY <1>2, FineKept DEF vars, Fine, Expected
  <2> QED
    BY <1>1, <1>2, <2>1 DEF StartInv, SlotInv, Done, CountedNames, vars
<1>3. CASE NextConnection /\ pc' = "command"
  <2>1. PICK c \in dir.todo :
          /\ dir' = [dir EXCEPT !.todo = @ \ {c}]
          /\ slot' = connection_init(c) /\ Len(connections) < MAX_CONNECTIONS
          /\ UNCHANGED connections /\ pc = "connections"
    BY <1>3 DEF NextConnection
  <2>2. dir.todo \subseteq DOMAIN Dirs /\ CountedNames \cap dir.todo = {}
    BY <2>1 DEF StartInv, ProgressInv, Reading
  <2>3. dir'.todo = dir.todo \ {c} /\ UNCHANGED CountedNames
    BY <2>1 DEF CountedNames, TypeOK
  <2>4. slot'.name = c /\ \A l \in Lists : slot'[l] = <<>>
    <3>1. slot' = [name |-> c, updates |-> <<>>, resets |-> <<>>, folders |-> <<>>]
      BY <2>1 DEF connection_init, EmptySlot
    <3> QED
      BY <3>1 DEF Lists
  <2>5. Done' = {}
    BY <1>3 DEF Done
  <2> QED
    BY <1>1, <1>3, <2>1, <2>2, <2>3, <2>4, <2>5 DEF SlotInv
<1>4. CASE ReadCommand /\ pc' = "updates"
  <2>1. pc = "command" /\ UNCHANGED <<slot, connections, dir>> /\ entry.command = "data"
    BY <1>4 DEF ReadCommand, Fail
  <2>2. Done = {} /\ Done' = {} /\ UNCHANGED CountedNames
    BY <1>4, <2>1 DEF Done, CountedNames
  <2> QED
    BY <1>1, <1>4, <2>1, <2>2 DEF StartInv, SlotInv, Filling, entry, Dirs
<1>5. ASSUME NEW l \in Lists, ReadList(l, NextOf[l]), pc' = NextOf[l]
      PROVE  SlotInv'
  <2>1. /\ pc = l /\ UNCHANGED <<gui, connections, dir>>
        /\ \E q \in Seq(Words) : slot' = [slot EXCEPT ![l] = q]
        /\ Fine(slot', l)
    <3>1. pc = l
      BY <1>5 DEF ReadList
    <3>2. NextOf[l] # "connections"
      BY DEF NextOf, Lists
    <3> QED
      BY <1>5, <3>1, <3>2, ListRead
  <2>2. /\ slot'.name = slot.name
        /\ \A k \in Lists \ {l} : slot'[k] = slot[k]
    BY <2>1 DEF TypeOK, Slots, Lists
  <2>3. Done' = Done \cup {l} /\ l \notin Done /\ Done \subseteq Lists
    BY <1>5, <2>1 DEF Done, Lists, NextOf
  <2>4. /\ pc \in Filling /\ pc # "command"
    BY <2>1 DEF Filling, Lists
  <2>5. /\ Len(connections) < MAX_CONNECTIONS
        /\ slot.name \in DOMAIN Dirs
        /\ slot.name \notin dir.todo \cup CountedNames
        /\ \A k \in Done : Fine(slot, k)
        /\ \A k \in Lists \ Done : slot[k] = <<>>
        /\ Dirs[slot.name].command = "data"
    BY <2>4, Zenon DEF StartInv, SlotInv
  <2>6. \A k \in Done' : Fine(slot', k)
    BY <2>1, <2>2, <2>3, <2>5 DEF Fine, Expected
  <2>7. PICK s : s = slot'
    OBVIOUS
  <2>8. \A k : Fine(s, k) => Fine(s, k)'
    BY <2>1, FineKept
  <2>9. \A k \in Done' : Fine(slot, k)'
    BY <2>6, <2>7, <2>8 DEF Fine, Expected
  <2>10. UNCHANGED CountedNames
    BY <2>1 DEF CountedNames
  <2>11. \A k \in (Lists \ Done)' : slot'[k] = <<>>
    BY <2>2, <2>3, <2>5
  <2> QED
    BY <1>1, <2>1, <2>2, <2>5, <2>9, <2>10, <2>11 DEF SlotInv
<1>6. CASE pc' \notin Filling
  BY <1>6 DEF SlotInv, Filling
<1>7. pc' \in Filling => \/ UNCHANGED vars
                         \/ NextConnection /\ pc' = "command"
                         \/ ReadCommand /\ pc' = "updates"
                         \/ \E l \in Lists : ReadList(l, NextOf[l]) /\ pc' = NextOf[l]
  BY DEF Filling, Next, main, gui_init, find_home, conf_read_options, conf_read_actions,
         OpenDirectory, conf_add_action, CloseDirectory, conf_read_connections,
         NextConnection, ReadCommand, ReadList, CheckSecret, Fail, xdie, Lists, NextOf
<1> QED
  BY <1>2, <1>3, <1>4, <1>5, <1>6, <1>7

(* Where a connection is counted.                                          *)
LEMMA CountedOne ==
  ASSUME TypeOK, StartInv, CheckSecret, connections' = Append(connections, slot)
  PROVE  /\ DOMAIN connections = 1 .. Len(connections) /\ Len(connections) \in Nat
         /\ DOMAIN connections' = 1 .. Len(connections) + 1
         /\ Len(connections') = Len(connections) + 1
         /\ \A i \in DOMAIN connections : connections'[i] = connections[i]
         /\ connections'[Len(connections) + 1] = slot
         /\ CountedNames' = CountedNames \cup {slot.name}
<1>1. connections \in Seq(Slots) /\ slot \in Slots
  BY DEF TypeOK
<1>2. /\ DOMAIN connections = 1 .. Len(connections) /\ Len(connections) \in Nat
      /\ Append(connections, slot) \in Seq(Slots)
      /\ Len(Append(connections, slot)) = Len(connections) + 1
      /\ \A i \in 1 .. Len(connections) : Append(connections, slot)[i] = connections[i]
      /\ Append(connections, slot)[Len(connections) + 1] = slot
  BY <1>1, AppendProperties, LenProperties
<1>3. DOMAIN Append(connections, slot) = 1 .. Len(connections) + 1
  BY <1>2, LenProperties
<1>4. /\ DOMAIN connections' = 1 .. Len(connections) + 1
      /\ Len(connections') = Len(connections) + 1
      /\ \A i \in DOMAIN connections : connections'[i] = connections[i]
      /\ connections'[Len(connections) + 1] = slot
  BY <1>2, <1>3
<1>5. CountedNames' = CountedNames \cup {slot.name}
  BY <1>2, <1>4 DEF CountedNames
<1> QED
  BY <1>2, <1>4, <1>5

LEMMA CountedStep ==
  ASSUME TypeOK, Given, StartInv, [Next]_vars
  PROVE  CountedInv'
<1>1. UNCHANGED <<Dirs>>
  BY Unaffected
<1>2. CASE connections = <<>> /\ UNCHANGED connections
  <2>1. DOMAIN connections' = {}
    BY <1>2
  <2>2. CountedNames' = {}
    BY <2>1 DEF CountedNames
  <2> QED
    BY <2>1, <2>2 DEF CountedInv
<1>3. CASE /\ UNCHANGED <<gui, connections>>
           /\ dir'.errors = 0 => dir.errors = 0
  <2>1. UNCHANGED CountedNames
    BY <1>3 DEF CountedNames
  <2>2. ASSUME NEW i \in DOMAIN connections' PROVE Complete(connections[i])'
    <3>1. PICK s : s = connections[i]
      OBVIOUS
    <3>2. Complete(s) /\ s = connections'[i]
      BY <1>3, <2>2, <3>1 DEF StartInv, CountedInv
    <3>3. Complete(s)'
      BY <1>3, <3>2, FineKept
    <3> QED
      BY <3>2, <3>3 DEF Complete, Fine, Expected
  <2> QED
    BY <1>1, <1>3, <2>1, <2>2 DEF StartInv, CountedInv
<1>4. CASE CheckSecret /\ connections' = Append(connections, slot)
  <2>1. /\ pc = "secret" /\ UNCHANGED <<gui, dir, slot>> /\ entry.secret \in {"missing", "private"}
    BY <1>4 DEF CheckSecret, TypeOK
  <2>2. /\ slot.name \in DOMAIN Dirs /\ slot.name \notin CountedNames
        /\ \A l \in Lists : Fine(slot, l)
        /\ Dirs[slot.name].command = "data"
    BY <2>1 DEF StartInv, SlotInv, Filling, Done
  <2>3. Complete(slot)
    BY <2>1, <2>2 DEF Complete, entry, Dirs
  <2>4. \A s : Complete(s) => Complete(s)'
    BY <2>1, FineKept
  <2> DEFINE n == Len(connections) + 1
  <2>5. /\ DOMAIN connections = 1 .. Len(connections) /\ Len(connections) \in Nat
        /\ DOMAIN connections' = 1 .. n
        /\ \A i \in DOMAIN connections : connections'[i] = connections[i]
        /\ connections'[n] = slot
        /\ CountedNames' = CountedNames \cup {slot.name}
    BY <1>4, CountedOne
  <2>6. /\ \A i, j \in DOMAIN connections : connections[i].name = connections[j].name => i = j
        /\ \A i \in DOMAIN connections : Complete(connections[i])
        /\ CountedNames \subseteq DOMAIN Dirs
    BY DEF StartInv, CountedInv
  <2>7. \A i \in DOMAIN connections : connections[i].name # slot.name
    BY <2>2 DEF CountedNames
  <2>8. \A i \in 1 .. n : i \in DOMAIN connections \/ i = n
    BY <2>5
  <2>9. ASSUME NEW i \in DOMAIN connections' PROVE Complete(connections[i])'
    <3>1. PICK s : s = connections'[i]
      OBVIOUS
    <3> HIDE DEF n
    <3>2. Complete(s)
      <4>1. CASE i = n
        BY <2>3, <2>5, <3>1, <4>1
      <4>2. CASE i # n
        BY <2>5, <2>6, <2>8, <2>9, <3>1, <4>2
      <4> QED
        BY <4>1, <4>2
    <3>3. Complete(s)'
      BY <2>4, <3>2
    <3> QED
      BY <3>1, <3>3 DEF Complete, Fine, Expected
  <2> HIDE DEF n
  <2>10. \A i, j \in DOMAIN connections' : connections'[i].name = connections'[j].name => i = j
    BY <2>5, <2>6, <2>7, <2>8
  <2> QED
    BY <1>1, <2>2, <2>5, <2>6, <2>9, <2>10 DEF CountedInv
<1>5. pc \in Before \cup {"actions", "open connections"} => connections = <<>>
  BY DEF StartInv, ProgressInv
<1>6. dir.errors \in Nat
  BY DEF TypeOK
<1>7. CASE pc \in Before \cup {"actions", "open connections"}
  <2>1. UNCHANGED connections
    BY <1>7 DEF Before, Next, vars, main, gui_init, find_home, conf_read_options, conf_read_actions,
         OpenDirectory, conf_add_action, CloseDirectory, conf_read_connections, tables,
         NextConnection, ReadCommand, ReadList, CheckSecret
  <2> QED
    BY <1>2, <1>5, <1>7, <2>1
<1>8. CASE pc \notin Before \cup {"actions", "open connections"}
  <2>1. CASE UNCHANGED vars \/ CloseDirectory("connections", "running")
    BY <1>3, <2>1 DEF vars, CloseDirectory, tables
  <2>2. CASE NextConnection
    <3>1. dir'.errors = dir.errors /\ UNCHANGED <<gui, connections>>
      BY <2>2 DEF NextConnection, TypeOK
    <3> QED
      BY <1>3, <3>1
  <2>3. CASE ReadCommand
    <3>1. UNCHANGED <<gui, connections>> /\ (dir' = dir \/ dir'.errors = dir.errors + 1)
      BY <2>3 DEF ReadCommand, Fail, TypeOK
    <3> QED
      BY <1>3, <1>6, <3>1
  <2>4. ASSUME NEW l \in Lists, ReadList(l, NextOf[l]) PROVE CountedInv'
    <3>1. UNCHANGED <<gui, connections>>
      BY <2>4, ListRead
    <3>2. dir' = dir \/ dir' = [dir EXCEPT !.errors = @ + 1]
      BY <2>4, ListRead
    <3>3. dir'.errors = 0 => dir.errors = 0
      BY <3>2 DEF TypeOK
    <3> QED
      BY <1>3, <3>1, <3>3
  <2>5. CASE CheckSecret
    <3>1. UNCHANGED gui /\ \/ connections' = Append(connections, slot)
                           \/ UNCHANGED connections /\ dir'.errors = dir.errors + 1
      BY <2>5 DEF CheckSecret, Fail, TypeOK
    <3> QED
      BY <1>3, <1>4, <1>6, <2>5, <3>1
  <2>6. \/ UNCHANGED vars \/ CloseDirectory("connections", "running") \/ NextConnection
        \/ ReadCommand \/ CheckSecret \/ \E l \in Lists : ReadList(l, NextOf[l])
    BY <1>8 DEF Before, Next, main, gui_init, find_home, conf_read_options, conf_read_actions,
         OpenDirectory, conf_add_action, CloseDirectory, conf_read_connections, Lists, NextOf
  <2> QED
    BY <2>1, <2>2, <2>3, <2>4, <2>5, <2>6
<1> QED
  BY <1>7, <1>8

LEMMA ProgressStep ==
  ASSUME TypeOK, Given, StartInv, [Next]_vars
  PROVE  ProgressInv'
<1> USE DEF Reading
<1>1. UNCHANGED <<tree, Dirs, Sound, WellWritten>>
  BY Unaffected
<1>2. dir \in [todo : SUBSET Words, errors : Nat]
  BY DEF TypeOK
<1>3. pc \in Before \cup {"actions", "open connections"} => connections = <<>>
  BY DEF StartInv, ProgressInv
<1>4. ASSUME pc' \notin Reading \cup {"running"}, UNCHANGED connections, connections = <<>>
      PROVE  ProgressInv'
  BY <1>4 DEF ProgressInv
<1>5. ASSUME pc' \in {"exited", "died", "overrun"} PROVE ProgressInv'
  BY <1>5 DEF ProgressInv, Before, Filling
<1>6. pc \in Reading =>
        /\ tree.connections.is = "dir"
        /\ dir.todo \subseteq DOMAIN Dirs
        /\ CountedNames \cap dir.todo = {}
        /\ dir.errors = 0 => /\ CountedNames = DOMAIN Dirs \ (dir.todo \cup Current)
                             /\ Len(connections) = Cardinality(DOMAIN Dirs \ (dir.todo \cup Current))
        /\ dir.errors # 0 => ~Sound \/ ~WellWritten
  BY DEF StartInv, ProgressInv
(* While connections are read.                                             *)
<1>7. ASSUME pc' \in Reading, tree.connections.is = "dir",
             dir'.todo \subseteq DOMAIN Dirs, CountedNames' \cap dir'.todo = {},
             dir'.errors = 0 =>
               /\ CountedNames' = DOMAIN Dirs \ (dir'.todo \cup Current')
               /\ Len(connections') = Cardinality(DOMAIN Dirs \ (dir'.todo \cup Current')),
             dir'.errors # 0 => ~Sound \/ ~WellWritten
      PROVE  ProgressInv'
  <2>1. pc' \notin Before \cup {"actions", "open connections", "running"}
    BY <1>7 DEF Before, Filling
  <2> HIDE DEF Reading
  <2> QED
    BY <1>1, <1>7, <2>1 DEF ProgressInv
<1>8. CASE UNCHANGED vars
  <2>1. UNCHANGED <<CountedNames, Current, pc, connections, dir>>
    BY <1>8 DEF vars, CountedNames, Current
  <2>2. ProgressInv
    BY DEF StartInv
  <2> QED
    BY <1>1, <2>1, <2>2 DEF ProgressInv
<1>9. CASE main \/ gui_init \/ find_home \/ conf_read_options \/ conf_read_actions
           \/ conf_add_action \/ CloseDirectory("actions", "open connections")
  <2>1. /\ UNCHANGED connections /\ pc \in Before \cup {"actions"}
        /\ pc' \notin Reading \cup {"running"}
    BY <1>9 DEF main, gui_init, find_home, conf_read_options, conf_read_actions, OpenDirectory,
         conf_add_action, CloseDirectory, tables, xdie, Before, Filling
  <2> QED
    BY <1>3, <1>4, <2>1
<1>10. CASE conf_read_connections
  <2>1. /\ pc = "open connections" /\ UNCHANGED connections
        /\ \/ tree.connections.is = "missing" /\ pc' = "running" /\ UNCHANGED dir
           \/ tree.connections.is = "unreadable" /\ pc' = "died"
           \/ /\ tree.connections.is = "dir" /\ pc' = "connections"
              /\ dir' = [todo |-> DOMAIN Dirs, errors |-> 0]
    BY <1>10 DEF conf_read_connections, OpenDirectory, xdie, Dirs
  <2>2. connections = <<>> /\ CountedNames' = {} /\ Len(connections') = 0 /\ Cardinality({}) = 0
    <3>1. connections = <<>>
      BY <1>3, <2>1
    <3>2. DOMAIN connections' = {} /\ Len(connections') = 0
      <4>1. connections' = <<>>
        BY <2>1, <3>1
      <4> QED
        BY <4>1
    <3> QED
      BY <3>1, <3>2, FS_EmptySet DEF CountedNames
  <2>3. CASE tree.connections.is = "missing" /\ pc' = "running"
    <3>1. DOMAIN Dirs = {}
      BY <2>3, GivenFacts
    <3> QED
      BY <1>1, <2>2, <2>3, <3>1 DEF ProgressInv, Filling, Before
  <2>4. CASE /\ tree.connections.is = "dir" /\ pc' = "connections"
             /\ dir' = [todo |-> DOMAIN Dirs, errors |-> 0]
    <3>1. Current' = {} /\ dir'.todo = DOMAIN Dirs /\ dir'.errors = 0
      BY <2>4 DEF Current, Filling
    <3>2. DOMAIN Dirs \ (dir'.todo \cup Current') = {}
      BY <3>1
    <3> QED
      BY <1>7, <2>2, <2>4, <3>1, <3>2
  <2> QED
    BY <1>5, <2>1, <2>3, <2>4
<1>11. CASE NextConnection
  <2>1. PICK c \in dir.todo :
          /\ dir' = [dir EXCEPT !.todo = @ \ {c}]
          /\ pc = "connections" /\ UNCHANGED connections
          /\ \/ pc' = "command" /\ slot' = connection_init(c)
             \/ pc' = "overrun"
    BY <1>11 DEF NextConnection
  <2>2. CASE pc' = "command" /\ slot' = connection_init(c)
    <3>1. /\ Current = {} /\ Current' = {c} /\ UNCHANGED CountedNames
      BY <2>1, <2>2 DEF Current, Filling, CountedNames, connection_init, EmptySlot
    <3>2. dir'.todo = dir.todo \ {c} /\ dir'.errors = dir.errors
      BY <1>2, <2>1
    <3>3. DOMAIN Dirs \ (dir'.todo \cup Current') = DOMAIN Dirs \ (dir.todo \cup Current)
      BY <2>1, <3>1, <3>2
    <3>4. pc \in Reading /\ pc' \in Reading
      BY <2>1, <2>2 DEF Filling
    <3> HIDE DEF Reading
    <3> QED
      BY <1>6, <1>7, <2>1, <3>1, <3>2, <3>3, <3>4
  <2> QED
    BY <1>5, <2>1, <2>2
(* One is given up.                                                        *)
<1>12. ASSUME pc \in Filling, pc' = "connections", UNCHANGED connections,
              dir' = [dir EXCEPT !.errors = @ + 1], ~Sound \/ ~WellWritten
       PROVE  ProgressInv'
  <2>1. UNCHANGED CountedNames /\ dir'.todo = dir.todo /\ dir'.errors # 0
    BY <1>2, <1>12 DEF CountedNames
  <2> QED
    BY <1>6, <1>7, <1>12, <2>1
(* One is read on.                                                         *)
<1>13. ASSUME pc \in Filling, pc' \in Filling, UNCHANGED <<connections, dir>>,
              slot'.name = slot.name
       PROVE  ProgressInv'
  <2>1. UNCHANGED <<CountedNames, Current>>
    BY <1>13 DEF CountedNames, Current
  <2> HIDE DEF Filling
  <2> QED
    BY <1>6, <1>7, <1>13, <2>1
<1>14. pc \in Filling => slot.name \in DOMAIN Dirs /\ slot.name \notin dir.todo \cup CountedNames
  BY DEF StartInv, SlotInv
<1>15. CASE ReadCommand
  <2>1. /\ pc = "command" /\ UNCHANGED <<connections, slot>>
        /\ \/ pc' = "updates" /\ UNCHANGED dir
           \/ /\ Dirs[slot.name].command # "data"
              /\ pc' = "connections" /\ dir' = [dir EXCEPT !.errors = @ + 1]
    BY <1>15 DEF ReadCommand, Fail, entry, Dirs
  <2>2. Dirs[slot.name].command # "data" => ~Sound
    BY <1>14, <2>1 DEF Sound, Filling
  <2>3. pc \in Filling /\ (pc' = "updates" => pc' \in Filling)
    BY <2>1 DEF Filling
  <2> QED
    BY <1>12, <1>13, <2>1, <2>2, <2>3
<1>16. ASSUME NEW l \in Lists, ReadList(l, NextOf[l]) PROVE ProgressInv'
  <2>1. pc \in Filling /\ NextOf[l] \in Filling
    BY <1>16 DEF ReadList, Filling, Lists, NextOf
  <2>2. CASE /\ pc' = NextOf[l] /\ dir' = dir
             /\ \E q \in Seq(Words) : slot' = [slot EXCEPT ![l] = q]
    <3>1. slot'.name = slot.name
      BY <2>2 DEF TypeOK, Slots, Lists
    <3>2. UNCHANGED <<connections, dir>>
      BY <1>16, <2>2, ListRead
    <3> QED
      BY <1>13, <2>1, <2>2, <3>1, <3>2
  <2>3. CASE /\ pc' = "connections" /\ dir' = [dir EXCEPT !.errors = @ + 1]
             /\ ~Sound \/ ~WellWritten
    BY <1>12, <1>16, <2>1, <2>3, ListRead
  <2> QED
    BY <1>16, <2>2, <2>3, ListRead
<1>17. CASE CheckSecret
  <2>1. /\ pc = "secret"
        /\ \/ /\ Dirs[slot.name].secret \in {"missing", "private"}
              /\ connections' = Append(connections, slot)
              /\ pc' = "connections" /\ UNCHANGED dir
           \/ /\ Dirs[slot.name].secret \notin {"missing", "private"} /\ UNCHANGED connections
              /\ pc' = "connections" /\ dir' = [dir EXCEPT !.errors = @ + 1]
    BY <1>17 DEF CheckSecret, Fail, entry, Dirs
  <2>2. pc \in Filling
    BY <2>1 DEF Filling
  <2>3. CASE Dirs[slot.name].secret \notin {"missing", "private"}
    <3>1. ~Sound
      BY <1>14, <2>2, <2>3 DEF Sound
    <3> QED
      BY <1>12, <2>1, <2>2, <2>3, <3>1
  <2>4. CASE /\ connections' = Append(connections, slot)
             /\ pc' = "connections" /\ UNCHANGED dir
    <3> DEFINE read == DOMAIN Dirs \ (dir.todo \cup Current)
    <3>1. /\ CountedNames' = CountedNames \cup {slot.name}
          /\ Len(connections') = Len(connections) + 1
      BY <1>17, <2>4, CountedOne
    <3>2. Current = {slot.name} /\ Current' = {}
      BY <2>2, <2>4 DEF Current, Filling
    <3>3. /\ DOMAIN Dirs \ (dir'.todo \cup Current') = read \cup {slot.name}
          /\ slot.name \notin read /\ read \subseteq DOMAIN Dirs
      BY <1>14, <2>2, <2>4, <3>2
    <3> HIDE DEF read
    <3>4. Cardinality(read \cup {slot.name}) = Cardinality(read) + 1
      <4>1. IsFiniteSet(DOMAIN Dirs) /\ slot.name \in DOMAIN Dirs
        BY <1>14, <2>2, GivenFacts
      <4> QED
        BY <3>3, <4>1, OneMore
    <3>5. dir'.errors = 0 =>
            /\ CountedNames' = DOMAIN Dirs \ (dir'.todo \cup Current')
            /\ Len(connections') = Cardinality(DOMAIN Dirs \ (dir'.todo \cup Current'))
      BY <1>6, <2>2, <2>4, <3>1, <3>3, <3>4 DEF read
    <3>6. CountedNames' \cap dir'.todo = {}
      BY <1>6, <1>14, <2>2, <2>4, <3>1
    <3>7. pc' \in Reading
      BY <2>4
    <3> QED
      BY <1>6, <1>7, <2>2, <2>4, <3>5, <3>6, <3>7
  <2> QED
    BY <2>1, <2>3, <2>4
<1>18. CASE CloseDirectory("connections", "running")
  <2>1. /\ pc = "connections" /\ dir.todo = {} /\ UNCHANGED connections
        /\ (dir.errors = 0 /\ pc' = "running") \/ pc' = "died"
    BY <1>2, <1>18 DEF CloseDirectory, tables, xdie
  <2>2. CASE dir.errors = 0 /\ pc' = "running"
    <3>1. Current = {} /\ UNCHANGED CountedNames
      BY <2>1 DEF Current, Filling, CountedNames
    <3>2. DOMAIN Dirs \ (dir.todo \cup Current) = DOMAIN Dirs
      BY <2>1, <3>1
    <3>3. /\ tree.connections.is = "dir" /\ CountedNames = DOMAIN Dirs
          /\ Len(connections) = Cardinality(DOMAIN Dirs)
      BY <1>6, <2>1, <2>2, <3>2
    <3>4. pc' \notin Reading \cup Before \cup {"actions", "open connections"}
      BY <2>2 DEF Filling, Before
    <3> HIDE DEF Reading
    <3> QED
      BY <1>1, <2>1, <2>2, <3>1, <3>3, <3>4 DEF ProgressInv
  <2> QED
    BY <1>5, <2>1, <2>2
<1> QED
  BY <1>8, <1>9, <1>10, <1>11, <1>15, <1>16, <1>17, <1>18 DEF Next, Lists, NextOf

LEMMA HostFacts ==
  ASSUME Given
  PROVE  Chosen \in {"none", "text", "gtk"} /\ tree.frequency \in FileKinds
<1>1. PICK x \in Cases : host = x.host /\ tree = x.tree
  BY DEF Given
<1>2. /\ host.name \in {"none", "text", "gtk", "other"}
      /\ host.compiled \subseteq {"text", "gtk"}
      /\ tree.frequency \in FileKinds
  BY <1>1, CasesAssumption
<1> QED
  BY <1>2 DEF Chosen

LEMMA TypeStep ==
  ASSUME TypeOK, Given, StartInv, [Next]_vars
  PROVE  TypeOK'
<1> USE DEF main, gui_init, find_home, conf_read_options, conf_read_actions, OpenDirectory,
            conf_add_action, CloseDirectory, conf_read_connections, NextConnection,
            ReadCommand, CheckSecret, Fail, xdie, given, tables
<1>1. ASSUME NEW l \in Lists, ReadList(l, NextOf[l])
      PROVE  /\ UNCHANGED <<gui, actions, frequency, connections>>
             /\ pc' \in {"resets", "folders", "secret", "connections"}
             /\ dir' = dir \/ dir' = [dir EXCEPT !.errors = @ + 1]
             /\ errno' = Opened(Dirs[slot.name][l].is)
             /\ slot' \in Slots
  <2>1. /\ UNCHANGED <<gui, connections, actions, frequency>>
        /\ errno' = Opened(Dirs[slot.name][l].is)
    BY <1>1 DEF ReadList, entry, Dirs
  <2>2. NextOf[l] \in {"resets", "folders", "secret"}
    BY DEF NextOf, Lists
  <2>3. ASSUME NEW q \in Seq(Words), slot' = [slot EXCEPT ![l] = q] PROVE slot' \in Slots
    BY <2>3 DEF TypeOK, Slots, Lists
  <2>4. slot[l] = <<>> /\ slot \in Slots
    BY <1>1 DEF ReadList, TypeOK, StartInv, SlotInv, Filling, Done, Lists
  <2>5. CASE /\ pc' = NextOf[l] /\ dir' = dir
             /\ \E q \in Seq(Words) : slot' = [slot EXCEPT ![l] = q]
    BY <2>1, <2>2, <2>3, <2>5
  <2>6. CASE pc' = "connections" /\ dir' = [dir EXCEPT !.errors = @ + 1]
    <3>1. pc = l
      BY <1>1 DEF ReadList
    <3>2. slot.name \in DOMAIN Dirs
      BY <3>1 DEF StartInv, SlotInv, Filling, Lists
    <3>3. Dirs[slot.name][l].lines \in Seq(Words)
      BY <3>2, GivenFacts
    <3>4. Accepted(l, Dirs[slot.name][l].lines) \in Seq(Words)
      BY <3>3, AcceptedIs
    <3>5. <<>> \o Accepted(l, Dirs[slot.name][l].lines) = Accepted(l, Dirs[slot.name][l].lines)
      BY <3>4, ConcatEmptySeq
    <3>6. Accepted(l, <<>> \o Accepted(l, Dirs[slot.name][l].lines) \o Defaults[l]) \in Seq(Words)
      BY <3>4, <3>5, DefaultsAre, ConcatProperties, AcceptedIs
    <3>7. \E q \in Seq(Words) : slot' = [slot EXCEPT ![l] = q]
      BY <1>1, <2>4, <3>4, <3>5, <3>6 DEF ReadList, entry, Dirs
    <3> QED
      BY <2>1, <2>3, <2>6, <3>7
  <2> QED
    BY <1>1, <2>5, <2>6, ListRead
<1>2. pc' \in Steps \cup Ends
  BY <1>1 DEF Next, vars, TypeOK, Steps, Ends, Lists, NextOf
<1>3. gui' \in {"none", "text", "gtk"}
  BY <1>1, HostFacts DEF Next, vars, TypeOK, Lists, NextOf
<1>4. errno' \in Errors
  BY <1>1 DEF Next, vars, TypeOK, Lists, NextOf, Errors, Opened
<1>5. frequency' \in {"default", "read"}
  BY <1>1 DEF Next, vars, TypeOK, Lists, NextOf
<1>6. actions' \in Seq(Words) /\ Len(actions') <= MAX_ACTIONS
  <2>1. CASE UNCHANGED actions
    BY <2>1 DEF TypeOK
  <2>2. ASSUME NEW a \in dir.todo, actions' = Append(actions, a), Len(actions) < MAX_ACTIONS
        PROVE  actions' \in Seq(Words) /\ Len(actions') <= MAX_ACTIONS
    <3>1. a \in Words /\ actions \in Seq(Words)
      BY DEF TypeOK
    <3>2. Append(actions, a) \in Seq(Words) /\ Len(Append(actions, a)) = Len(actions) + 1
          /\ Len(actions) \in Nat
      BY <3>1, AppendProperties, LenProperties
    <3> QED
      BY <2>2, <3>2, LimitsAssumption
  <2>3. CASE conf_add_action
    BY <2>1, <2>2, <2>3
  <2> QED
    BY <1>1, <2>1, <2>3 DEF Next, vars, Lists, NextOf
<1>7. connections' \in Seq(Slots) /\ Len(connections') <= MAX_CONNECTIONS
  <2>1. CASE UNCHANGED connections
    BY <2>1 DEF TypeOK
  <2>2. CASE CheckSecret /\ connections' = Append(connections, slot)
    <3>1. connections \in Seq(Slots) /\ slot \in Slots
      BY DEF TypeOK
    <3>2. /\ Append(connections, slot) \in Seq(Slots)
          /\ Len(Append(connections, slot)) = Len(connections) + 1
          /\ Len(connections) \in Nat
      BY <3>1, AppendProperties, LenProperties
    <3>3. Len(connections) < MAX_CONNECTIONS
      BY <2>2 DEF StartInv, SlotInv, Filling
    <3> QED
      BY <2>2, <3>2, <3>3, LimitsAssumption
  <2> QED
    BY <1>1, <2>1, <2>2 DEF Next, vars, Lists, NextOf
<1>8. \A i \in DOMAIN connections', l \in Lists : Len(connections'[i][l]) <= Limits[l]
  BY CountedStep DEF CountedInv, Complete, Fine
<1>9. slot' \in Slots
  <2>1. CASE NextConnection
    <3>1. PICK c \in dir.todo : slot' = connection_init(c) \/ UNCHANGED slot
      BY <2>1
    <3>2. c \in Words /\ <<>> \in Seq(Words) /\ slot \in Slots
      BY DEF TypeOK
    <3> QED
      BY <3>1, <3>2 DEF connection_init, EmptySlot, Slots
  <2> QED
    BY <1>1, <2>1 DEF Next, vars, TypeOK, Lists, NextOf
<1>10. dir' \in [todo : SUBSET Words, errors : Nat]
  <2>1. dir \in [todo : SUBSET Words, errors : Nat]
    BY DEF TypeOK
  <2>2. CASE conf_read_actions \/ conf_read_connections
    <3>1. DOMAIN Files \subseteq Words /\ DOMAIN Dirs \subseteq Words
      BY GivenFacts
    <3>2. dir' = dir \/ \E S \in {DOMAIN Files, DOMAIN Dirs} : dir' = [todo |-> S, errors |-> 0]
      BY <2>2 DEF Files, Dirs
    <3> QED
      BY <2>1, <3>1, <3>2
  <2>3. CASE conf_add_action
    <3>1. PICK a \in dir.todo :
            dir' = [todo |-> dir.todo \ {a}, errors |-> dir.errors + (IF Files[a] = "data" THEN 0 ELSE 1)]
      BY <2>3, Zenon DEF Files
    <3> DEFINE n == dir.errors + (IF Files[a] = "data" THEN 0 ELSE 1)
    <3>2. n \in Nat /\ dir.todo \ {a} \in SUBSET Words
      BY <2>1
    <3>3. dir' = [todo |-> dir.todo \ {a}, errors |-> n]
      BY <3>1
    <3> HIDE DEF n
    <3> QED
      BY <3>2, <3>3
  <2>4. CASE NextConnection
    <3>1. PICK c \in dir.todo : dir' = [dir EXCEPT !.todo = @ \ {c}]
      BY <2>4
    <3> QED
      BY <2>1, <3>1
  <2>5. CASE dir' = dir \/ dir' = [dir EXCEPT !.errors = @ + 1]
    BY <2>1, <2>5
  <2> QED
    BY <1>1, <2>2, <2>3, <2>4, <2>5 DEF Next, vars, Lists, NextOf
<1> QED
  BY <1>2, <1>3, <1>4, <1>5, <1>6, <1>7, <1>8, <1>9, <1>10, Zenon DEF TypeOK

-------------------------------------------------------------------------------
(* Theorems *)

(* What makes netbiff give up is always one of the reasons it may have.    *)
LEMMA RightStep ==
  ASSUME TypeOK, Given, StartInv, RightAccepted, [Next]_vars
  PROVE  RightAccepted'
<1>1. UNCHANGED <<host, Chosen, Sound, Fits, WellWritten>>
  BY Unaffected
<1>2. ASSUME Chosen = "none" \/ ~(host.conf \/ host.home \/ host.passwd)
             \/ ~(Sound /\ Fits /\ WellWritten)
      PROVE  RightAccepted'
  BY <1>1, <1>2 DEF RightAccepted
<1>3. ASSUME pc' \notin {"died", "overrun"} PROVE RightAccepted'
  BY <1>3 DEF RightAccepted
<1>4. dir.errors \in Nat
  BY DEF TypeOK
<1>5. CASE UNCHANGED vars
  <2>1. UNCHANGED pc
    BY <1>5 DEF vars
  <2>2. CASE pc \in {"died", "overrun"}
    BY <1>2, <2>2 DEF RightAccepted
  <2> QED
    BY <1>3, <2>1, <2>2
<1>6. CASE gui_init
  BY <1>2, <1>3, <1>6 DEF gui_init
<1>7. CASE find_home
  BY <1>2, <1>3, <1>7 DEF find_home
<1>8. CASE conf_read_actions \/ conf_read_connections
  <2>1. pc' # "overrun" /\ (pc' = "died" => ~Sound)
    BY <1>8 DEF conf_read_actions, conf_read_connections, OpenDirectory, xdie, Sound
  <2> QED
    BY <1>2, <1>3, <2>1
<1>9. CASE CloseDirectory("actions", "open connections") \/ CloseDirectory("connections", "running")
  <2>1. /\ pc \in {"actions", "connections"} /\ pc' # "overrun"
        /\ pc' = "died" => dir.errors # 0
    <3>1. /\ pc \in {"actions", "connections"}
          /\ IF dir.errors > 0 THEN pc' = "died" ELSE pc' \in {"open connections", "running"}
      BY <1>9 DEF CloseDirectory, xdie
    <3>2. dir.errors = 0 => ~(dir.errors > 0)
      BY <1>4
    <3>3. pc' = "died" => dir.errors > 0
      BY <3>1
    <3> QED
      BY <3>1, <3>2, <3>3
  <2>2. pc = "actions" /\ dir.errors # 0 => ~Sound
    BY DEF StartInv, ActionsInv
  <2>3. pc = "connections" /\ dir.errors # 0 => ~(Sound /\ WellWritten)
    BY DEF StartInv, ProgressInv, Reading
  <2> QED
    BY <1>2, <1>3, <2>1, <2>2, <2>3
<1>10. CASE conf_add_action
  <2>1. PICK a \in dir.todo : pc' = "overrun" => Len(actions) >= MAX_ACTIONS
    BY <1>10, LimitsAssumption, LenProperties DEF conf_add_action, TypeOK
  <2>2. pc = "actions" /\ pc' # "died"
    BY <1>10 DEF conf_add_action
  <2>3. /\ dir.todo \subseteq DOMAIN Files
        /\ dir.errors = 0 => ActionsFrom(DOMAIN Files \ dir.todo)
        /\ dir.errors # 0 => ~Sound
    BY <2>2 DEF StartInv, ActionsInv
  <2>4. CASE pc' = "overrun" /\ dir.errors = 0
    <3> DEFINE read == DOMAIN Files \ dir.todo
    <3>1. /\ a \in DOMAIN Files /\ a \notin read /\ read \subseteq DOMAIN Files
          /\ IsFiniteSet(DOMAIN Files)
      BY <2>3, GivenFacts
    <3>2. Len(actions) = Len(BuiltIn) + Cardinality(read)
      BY <2>3, <2>4 DEF ActionsFrom
    <3> HIDE DEF read
    <3>3. /\ Cardinality(read) + 1 <= Cardinality(DOMAIN Files)
          /\ Cardinality(read) \in Nat /\ Cardinality(DOMAIN Files) \in Nat
      BY <3>1, OneMore
    <3>4. ~Fits
      BY <2>1, <2>4, <3>2, <3>3, BuiltInIs, LimitsAssumption DEF Fits
    <3> QED
      BY <1>2, <3>4
  <2> QED
    BY <1>2, <1>3, <2>2, <2>3, <2>4
<1>11. CASE NextConnection
  <2>1. PICK c \in dir.todo : pc' = "overrun" => Len(connections) >= MAX_CONNECTIONS
    BY <1>11, LimitsAssumption, LenProperties DEF NextConnection, TypeOK
  <2>2. pc = "connections" /\ pc' # "died"
    BY <1>11 DEF NextConnection
  <2>3. /\ dir.todo \subseteq DOMAIN Dirs
        /\ dir.errors = 0 => Len(connections) = Cardinality(DOMAIN Dirs \ (dir.todo \cup Current))
        /\ dir.errors # 0 => ~(Sound /\ WellWritten)
    BY <2>2 DEF StartInv, ProgressInv, Reading
  <2>4. CASE pc' = "overrun" /\ dir.errors = 0
    <3> DEFINE read == DOMAIN Dirs \ (dir.todo \cup Current)
    <3>1. /\ c \in DOMAIN Dirs /\ c \notin read /\ read \subseteq DOMAIN Dirs
          /\ IsFiniteSet(DOMAIN Dirs)
      BY <2>3, GivenFacts
    <3>2. Len(connections) = Cardinality(read)
      BY <2>3, <2>4
    <3> HIDE DEF read
    <3>3. /\ Cardinality(read) + 1 <= Cardinality(DOMAIN Dirs)
          /\ Cardinality(read) \in Nat /\ Cardinality(DOMAIN Dirs) \in Nat
      BY <3>1, OneMore
    <3>4. ~Fits
      BY <2>1, <2>4, <3>2, <3>3, LimitsAssumption DEF Fits
    <3> QED
      BY <1>2, <3>4
  <2> QED
    BY <1>2, <1>3, <2>2, <2>3, <2>4
<1>12. CASE main \/ conf_read_options \/ ReadCommand \/ CheckSecret
  BY <1>3, <1>12 DEF main, conf_read_options, ReadCommand, CheckSecret, Fail
<1>13. ASSUME NEW l \in Lists, ReadList(l, NextOf[l]) PROVE RightAccepted'
  <2>1. pc' \in {NextOf[l], "connections"}
    BY <1>13, ListRead
  <2> QED
    BY <1>3, <2>1 DEF NextOf, Lists
<1> QED
  BY <1>5, <1>6, <1>7, <1>8, <1>9, <1>10, <1>11, <1>12, <1>13 DEF Next, Lists, NextOf

IInv == TypeOK /\ Given /\ StartInv /\ RightAccepted

LEMMA InitIInv == Init => IInv
<1> SUFFICES ASSUME Init PROVE IInv
  OBVIOUS
<1>1. /\ pc = "main" /\ gui = "none" /\ errno = "none" /\ frequency = "default"
      /\ actions = BuiltIn /\ connections = <<>> /\ slot = EmptySlot /\ dir = NotReading
      /\ Given
  BY DEF Init, Given
<1>2. slot \in Slots
  <2>1. slot = [name |-> "", updates |-> <<>>, resets |-> <<>>, folders |-> <<>>]
    BY <1>1 DEF EmptySlot
  <2>2. "" \in Words /\ <<>> \in Seq(Words)
    BY DEF Words
  <2> QED
    BY <2>1, <2>2 DEF Slots
<1>3. dir \in [todo : SUBSET Words, errors : Nat]
  BY <1>1 DEF NotReading
<1>4. actions \in Seq(Words) /\ Len(actions) <= MAX_ACTIONS
  BY <1>1, BuiltInIs, LimitsAssumption
<1>5. connections \in Seq(Slots) /\ Len(connections) <= MAX_CONNECTIONS /\ DOMAIN connections = {}
  BY <1>1, LimitsAssumption
<1>6. TypeOK
  BY <1>1, <1>2, <1>3, <1>4, <1>5 DEF TypeOK, Steps, Errors
<1>7. ActionsInv
  BY <1>1 DEF ActionsInv, ActionsRead, Reading, Filling
<1>8. SlotInv
  BY <1>1 DEF SlotInv, Filling
<1>9. CountedInv
  <2>1. CountedNames = {}
    BY <1>5 DEF CountedNames
  <2> QED
    BY <1>5, <2>1 DEF CountedInv
<1>10. ProgressInv
  BY <1>1 DEF ProgressInv, Reading, Filling
<1>11. ErrnoInv /\ RightAccepted
  BY <1>1 DEF ErrnoInv, RightAccepted
<1> QED
  BY <1>1, <1>6, <1>7, <1>8, <1>9, <1>10, <1>11 DEF IInv, StartInv

LEMMA IInvStep == IInv /\ [Next]_vars => IInv'
<1> SUFFICES ASSUME TypeOK, Given, StartInv, RightAccepted, [Next]_vars PROVE IInv'
  BY DEF IInv
<1>1. Given'
  BY Unaffected DEF Given
<1>2. ActionsInv'
  BY ActionsStep DEF StartInv
<1>3. TypeOK' /\ SlotInv' /\ CountedInv' /\ ProgressInv' /\ ErrnoInv' /\ RightAccepted'
  BY TypeStep, SlotStep, CountedStep, ProgressStep, ErrnoStep, RightStep
<1> QED
  BY <1>1, <1>2, <1>3 DEF IInv, StartInv

LEMMA IInvAlways == Spec => []IInv
  BY InitIInv, IInvStep, PTL DEF Spec

(* The tables never hold more than their sizes allow, at every step of     *)
(* reading the configuration (conf.c, action.c, connection.c).             *)
THEOREM StartupTypeOK == Spec => []TypeOK
<1>1. IInv => TypeOK
  BY DEF IInv
<1> QED
  BY <1>1, IInvAlways, PTL

(* A connection that counts was read completely and from its own files,    *)
(* whatever became of those that were read into its slot before it         *)
(* (conf_add_connection, conf.c).                                          *)
THEOREM StartupCountedComplete == Spec => []CountedComplete
<1>1. ASSUME IInv PROVE CountedComplete
  <2>1. CountedInv
    BY <1>1 DEF IInv, StartInv
  <2> QED
    BY <2>1 DEF CountedInv, Complete, Fine, Expected, CountedComplete
<1> QED
  BY <1>1, IInvAlways, PTL

(* The event loop starts with every action and every connection of the     *)
(* directory, or not at all (conf_read, conf.c).                           *)
THEOREM StartupAllLoaded == Spec => []AllLoaded
<1>1. ASSUME IInv PROVE AllLoaded
  <2>1. ActionsInv /\ ProgressInv
    BY <1>1 DEF IInv, StartInv
  <2>2. pc = "running" => CountedNames = DOMAIN Dirs /\ Range(actions) = Range(BuiltIn) \cup DOMAIN Files
    BY <2>1 DEF ActionsInv, ActionsFrom, ActionsRead, Built, ProgressInv
  <2> QED
    BY <2>2 DEF AllLoaded, CountedNames
<1> QED
  BY <1>1, IInvAlways, PTL

(* A directory with something wrong in it does not start, unless errno     *)
(* still says that another file was missing (conf.c:170-177).              *)
THEOREM StartupWrongRefused == Spec => []WrongRefused
<1>1. ASSUME IInv, pc = "running" PROVE Sound /\ Fits /\ (WellWritten \/ SomeMissing)
  <2>1. TypeOK /\ ActionsInv /\ CountedInv /\ ProgressInv
    BY <1>1 DEF IInv, StartInv
  <2>2. /\ tree.actions.is # "unreadable" /\ ActionsFrom(DOMAIN Files)
        /\ dir.errors = 0
    BY <1>1, <2>1 DEF ActionsInv, ActionsRead
  <2>3. /\ tree.connections.is # "unreadable" /\ CountedNames = DOMAIN Dirs
        /\ Len(connections) = Cardinality(DOMAIN Dirs)
    BY <1>1, <2>1 DEF ProgressInv
  <2>4. ASSUME NEW c \in DOMAIN Dirs
        PROVE  /\ Dirs[c].command = "data"
               /\ Dirs[c].secret \in {"missing", "private"}
               /\ \A l \in Lists : /\ Dirs[c][l].is # "unreadable"
                                   /\ Valid(c, l) \/ SomeMissing
    <3>1. PICK i \in DOMAIN connections : connections[i].name = c
      BY <2>3 DEF CountedNames
    <3>2. Complete(connections[i])
      BY <2>1 DEF CountedInv
    <3> QED
      BY <2>2, <3>1, <3>2 DEF Complete, Fine
  <2>5. Sound
    BY <2>2, <2>3, <2>4 DEF Sound, ActionsFrom
  <2>6. Fits
    <3>1. Len(actions) = Len(BuiltIn) + Cardinality(DOMAIN Files) /\ Len(actions) <= MAX_ACTIONS
      BY <2>1, <2>2 DEF ActionsFrom, TypeOK
    <3>2. Cardinality(DOMAIN Files) \in Nat
      BY <1>1, GivenFacts, FS_CardinalityType DEF IInv
    <3>3. Len(connections) <= MAX_CONNECTIONS
      BY <2>1 DEF TypeOK
    <3> QED
      BY <2>3, <3>1, <3>2, <3>3, BuiltInIs DEF Fits
  <2>7. WellWritten \/ SomeMissing
    BY <2>4 DEF WellWritten
  <2> QED
    BY <2>5, <2>6, <2>7
<1>2. IInv => WrongRefused
  BY <1>1 DEF WrongRefused
<1> QED
  BY <1>2, IInvAlways, PTL

(* A directory with nothing wrong in it starts where there is an interface *)
(* and a home directory: a missing file is no error (NEWS:2).              *)
THEOREM StartupRightAccepted == Spec => []RightAccepted
<1>1. IInv => RightAccepted
  BY DEF IInv
<1> QED
  BY <1>1, IInvAlways, PTL
===============================================================================
