------------------------------- MODULE Startup -------------------------------
(***************************************************************************)
(* From main() to the event loop: the choice of an interface (gui.c), the  *)
(* configuration directory (home.c) and how conf.c, with dir.c and         *)
(* action.c, turns it into the tables of actions and connections that the  *)
(* other modules take as constants.  One step per file.  errno is a        *)
(* variable: conf.c looks at it after calls that may not have set it.      *)
(***************************************************************************)
EXTENDS Integers, SequencesExt, FiniteSets

CONSTANTS
    Cases,            \* configuration directories, arguments and surroundings
    MAX_ACTIONS,
    MAX_CONNECTIONS,
    Limits            \* MAX_CONNECTION_UPDATES, _RESETS and _FOLDERS

VARIABLES
    host, tree,    \* what is given; never changes
    pc,            \* the file that is next, or how main ended
    gui,           \* the interface
    errno,
    frequency,
    actions,       \* the tags in the table of actions
    connections,   \* connections[0 .. nconnections-1]
    slot,          \* connections[nconnections], being filled
    dir            \* names readdir has not returned, and the failures so far

vars == <<host, tree, pc, gui, errno, frequency, actions, connections, slot, dir>>

Lists == {"updates", "resets", "folders"}
Defaults == [ updates |-> <<"image", "beep">>, resets |-> <<"image-reset">>,
              folders |-> <<"INBOX">> ]
BuiltIn == <<"beep", "image", "image-reset">>

(* STRING, of which the provers do not know the literals to be members.    *)
Words == STRING \cup {"", "beep", "image", "image-reset", "INBOX"}

(* "broken": it opens, but cannot be read (a directory, say).              *)
FileKinds == {"data", "missing", "unreadable", "broken"}
DirKinds == {"dir", "missing", "unreadable"}
SecretKinds == {"missing", "private", "loose", "unknown"}

ASSUME LimitsAssumption == /\ Limits \in [Lists -> Nat]
                           /\ \A l \in Lists : Len(Defaults[l]) <= Limits[l]
                           /\ MAX_ACTIONS \in Nat /\ MAX_ACTIONS >= Len(BuiltIn)
                           /\ MAX_CONNECTIONS \in Nat

ASSUME CasesAssumption ==
    \A x \in Cases :
      /\ x.host \in [ args     : {"run", "help", "wrong"},
                      conf     : BOOLEAN,                          \* -c
                      name     : {"none", "text", "gtk", "other"}, \* -g
                      compiled : SUBSET {"text", "gtk"},
                      display  : {"unset", "works", "broken"},
                      home     : BOOLEAN, passwd : BOOLEAN ]
      /\ x.tree.frequency \in FileKinds
      /\ x.tree.actions.is \in DirKinds /\ x.tree.connections.is \in DirKinds
      /\ x.tree.actions.is = "missing" => DOMAIN x.tree.actions.files = {}
      /\ x.tree.connections.is = "missing" => DOMAIN x.tree.connections.dirs = {}
      /\ \A names \in {DOMAIN x.tree.actions.files, DOMAIN x.tree.connections.dirs} :
           IsFiniteSet(names) /\ names \subseteq Words
      /\ \A a \in DOMAIN x.tree.actions.files : x.tree.actions.files[a] \in FileKinds
      /\ \A c \in DOMAIN x.tree.connections.dirs :
           LET d == x.tree.connections.dirs[c]
           IN  /\ d.command \in FileKinds /\ d.secret \in SecretKinds
               /\ \A l \in Lists : /\ d[l].is \in FileKinds /\ d[l].lines \in Seq(Words)
                                   /\ d[l].is # "data" => d[l].lines = <<>>

Steps == {"main", "gui", "home", "frequency", "open actions", "actions",
          "open connections", "connections", "command", "updates", "resets",
          "folders", "secret"}
Ends == {"running", "exited", "died", "overrun"}
Errors == {"none", "ENOENT", "EACCES", "EIO"}

EmptySlot == [name |-> "", updates |-> <<>>, resets |-> <<>>, folders |-> <<>>]
Slots == [ name : Words, updates : Seq(Words), resets : Seq(Words), folders : Seq(Words) ]
NotReading == [todo |-> {}, errors |-> 0]

TypeOK == /\ pc \in Steps \cup Ends
          /\ gui \in {"none", "text", "gtk"}
          /\ errno \in Errors
          /\ frequency \in {"default", "read"}
          /\ actions \in Seq(Words) /\ Len(actions) <= MAX_ACTIONS
          /\ connections \in Seq(Slots) /\ Len(connections) <= MAX_CONNECTIONS
          /\ \A i \in DOMAIN connections, l \in Lists : Len(connections[i][l]) <= Limits[l]
          /\ slot \in Slots
          /\ dir \in [todo : SUBSET Words, errors : Nat]

Init == /\ \E x \in Cases : host = x.host /\ tree = x.tree
        /\ pc = "main"
        /\ gui = "none"
        /\ errno = "none"
        /\ frequency = "default"
        /\ actions = BuiltIn
        /\ connections = <<>>
        /\ slot = EmptySlot
        /\ dir = NotReading

-------------------------------------------------------------------------------
given == <<host, tree>>
tables == <<frequency, actions, connections, slot, dir>>

xdie == pc' = "died"

main ==
    /\ pc = "main"
    /\ pc' = IF host.args = "run" THEN "gui" ELSE "exited"
    /\ UNCHANGED <<given, gui, errno, tables>>

(* A name whose interface is not compiled in counts as none at all.        *)
Chosen ==
    CASE host.name = "other"                               -> "none"
      [] host.name \in host.compiled                       -> host.name
      [] OTHER -> IF "gtk" \in host.compiled /\ host.display # "unset" THEN "gtk"
                  ELSE IF "text" \in host.compiled THEN "text" ELSE "none"

(* With gui.init: gtk_init ends the program where there is no display, and *)
(* may leave any errno.                                                    *)
gui_init ==
    /\ pc = "gui"
    /\ gui' = Chosen
    /\ \/ Chosen = "none" /\ xdie /\ UNCHANGED errno
       \/ Chosen = "text" /\ pc' = "home" /\ UNCHANGED errno
       \/ Chosen = "gtk" /\ host.display = "works" /\ pc' = "home" /\ errno' \in Errors
       \/ Chosen = "gtk" /\ host.display # "works" /\ pc' = "exited" /\ UNCHANGED errno
    /\ UNCHANGED <<given, tables>>

(* getpwuid, which is asked where HOME is not set, may leave any errno.    *)
find_home ==
    /\ pc = "home"
    /\ IF host.conf \/ host.home \/ host.passwd THEN pc' = "frequency" ELSE xdie
    /\ IF host.conf \/ host.home THEN UNCHANGED errno ELSE errno' \in Errors
    /\ UNCHANGED <<given, gui, tables>>

(* errno after opening and reading.                                        *)
Opened(kind) == CASE kind = "missing"    -> "ENOENT"
                  [] kind = "unreadable" -> "EACCES"
                  [] kind = "broken"     -> "EIO"
                  [] OTHER               -> errno

(* Whatever is wrong with the file, the default is kept.                   *)
conf_read_options ==
    /\ pc = "frequency"
    /\ errno' = Opened(tree.frequency)
    /\ frequency' = IF tree.frequency = "data" THEN "read" ELSE "default"
    /\ pc' = "open actions"
    /\ UNCHANGED <<given, gui, actions, connections, slot, dir>>

(* Mutant: a missing directory is an error.                                *)
OpenDirectoryStrictly(step, d, names, loop, next) ==
    /\ pc = step
    /\ errno' = Opened(d)
    /\ \/ d # "dir" /\ xdie /\ UNCHANGED dir
       \/ d = "dir" /\ pc' = loop /\ dir' = [todo |-> names, errors |-> 0]
    /\ UNCHANGED <<given, gui, frequency, actions, connections, slot>>

(* The two calls of conf_dir_foreach: opendir, then the callback for every *)
(* entry, in any order, then whether any of them failed.                   *)
OpenDirectory(step, d, names, loop, next) ==
    /\ pc = step
    /\ errno' = Opened(d)
    /\ \/ d = "missing" /\ pc' = next /\ UNCHANGED dir
       \/ d = "unreadable" /\ xdie /\ UNCHANGED dir
       \/ d = "dir" /\ pc' = loop /\ dir' = [todo |-> names, errors |-> 0]
    /\ UNCHANGED <<given, gui, frequency, actions, connections, slot>>

CloseDirectory(loop, next) ==
    /\ pc = loop
    /\ dir.todo = {}
    /\ IF dir.errors > 0 THEN xdie ELSE pc' = next
    /\ UNCHANGED <<given, gui, errno, tables>>

conf_read_actions ==
    OpenDirectory("open actions", tree.actions.is, DOMAIN tree.actions.files,
                  "actions", "open connections")

conf_read_connections ==
    OpenDirectory("open connections", tree.connections.is, DOMAIN tree.connections.dirs,
                  "connections", "running")

(* action_add does not look at the size of the table.                      *)
conf_add_action ==
    /\ pc = "actions"
    /\ \E a \in dir.todo :
         LET kind == tree.actions.files[a]
             fits == Len(actions) < MAX_ACTIONS
         IN  /\ errno' = Opened(kind)
             /\ dir' = [todo |-> dir.todo \ {a}, errors |-> dir.errors + (IF kind = "data" THEN 0 ELSE 1)]
             /\ actions' = IF kind = "data" /\ fits THEN Append(actions, a) ELSE actions
             /\ pc' = IF kind = "data" /\ ~fits THEN "overrun" ELSE pc
    /\ UNCHANGED <<given, gui, frequency, connections, slot>>

(* Mutant: the lists of the slot are left as they are.                     *)
InitKeepsLists(c) == [slot EXCEPT !.name = c]

connection_init(c) == [EmptySlot EXCEPT !.name = c]

(* conf_add_connection starts in the slot behind the last connection, also *)
(* where the table has none.                                               *)
NextConnection ==
    /\ pc = "connections"
    /\ \E c \in dir.todo :
         /\ dir' = [dir EXCEPT !.todo = @ \ {c}]
         /\ IF Len(connections) < MAX_CONNECTIONS
              THEN pc' = "command" /\ slot' = connection_init(c)
              ELSE pc' = "overrun" /\ UNCHANGED slot
    /\ UNCHANGED <<given, gui, errno, frequency, actions, connections>>

entry == tree.connections.dirs[slot.name]

(* Mutant: a failure is not counted.                                       *)
FailSilently == /\ UNCHANGED dir
                /\ pc' = "connections"

(* conf_add_connection returns -1.                                         *)
Fail == /\ dir' = [dir EXCEPT !.errors = @ + 1]
        /\ pc' = "connections"

ReadCommand ==
    /\ pc = "command"
    /\ errno' = Opened(entry.command)
    /\ IF entry.command = "data" THEN pc' = "updates" /\ UNCHANGED dir ELSE Fail
    /\ UNCHANGED <<given, gui, frequency, actions, connections, slot>>

(* What conf_add_update, _reset or _folder takes before it returns -1.     *)
Acceptable(l, words) ==
    /\ Len(words) <= Limits[l]
    /\ l # "folders" => Range(words) \subseteq Range(actions)

(* Mutant: there is always room, and every word is an action.              *)
AcceptedAll(l, words) == words

Accepted(l, words) ==
    LET n == CHOOSE n \in 0 .. Len(words) :
               /\ Acceptable(l, SubSeq(words, 1, n))
               /\ n < Len(words) => ~Acceptable(l, SubSeq(words, 1, n + 1))
    IN  SubSeq(words, 1, n)

(* Mutant: a list that was refused is not completed, but counts as read.   *)
ReadListLeniently(l, next) ==
    /\ pc = l
    /\ errno' = Opened(entry[l].is)
    /\ slot' = [slot EXCEPT ![l] = Accepted(l, entry[l].lines)]
    /\ pc' = next
    /\ UNCHANGED <<given, gui, frequency, actions, connections, dir>>

(* read_data_list fails where the file does not open, and where a line is  *)
(* refused: then the lines before it stay, and errno is an old one.  A     *)
(* read error is the end of the list.                                      *)
ReadList(l, next) ==
    LET f      == entry[l]
        taken  == Accepted(l, f.lines)
        failed == f.is \in {"missing", "unreadable"} \/ taken # f.lines
    IN  /\ pc = l
        /\ errno' = Opened(f.is)
        /\ \/ /\ ~failed
              /\ slot' = [slot EXCEPT ![l] = @ \o taken]
              /\ pc' = next
              /\ UNCHANGED dir
           \/ /\ failed /\ errno' = "ENOENT"
              /\ slot' = [slot EXCEPT ![l] = Accepted(l, @ \o taken \o Defaults[l])]
              /\ pc' = next
              /\ UNCHANGED dir
           \/ /\ failed /\ errno' # "ENOENT"
              /\ slot' = [slot EXCEPT ![l] = @ \o taken]
              /\ Fail
        /\ UNCHANGED <<given, gui, frequency, actions, connections>>

(* dir_is_protected, and nconnections++.                                   *)
CheckSecret ==
    /\ pc = "secret"
    /\ errno' = IF entry.secret = "missing" THEN "ENOENT"
                ELSE IF entry.secret = "unknown" THEN "EACCES" ELSE errno
    /\ IF entry.secret \in {"missing", "private"}
         THEN /\ connections' = Append(connections, slot)
              /\ pc' = "connections"
              /\ UNCHANGED dir
         ELSE Fail /\ UNCHANGED connections
    /\ UNCHANGED <<given, gui, frequency, actions, slot>>

Next == \/ main \/ gui_init \/ find_home \/ conf_read_options
        \/ conf_read_actions \/ conf_add_action
        \/ CloseDirectory("actions", "open connections")
        \/ conf_read_connections \/ NextConnection \/ ReadCommand
        \/ ReadList("updates", "resets") \/ ReadList("resets", "folders")
        \/ ReadList("folders", "secret") \/ CheckSecret
        \/ CloseDirectory("connections", "running")

Spec == Init /\ [][Next]_vars

-------------------------------------------------------------------------------
(* Properties *)

Files == tree.actions.files
Dirs == tree.connections.dirs

(* What CONFIG asks of a directory: the files other than lists, how many   *)
(* of each there are, and the words in the lists.                          *)
Sound ==
    /\ tree.actions.is # "unreadable" /\ tree.connections.is # "unreadable"
    /\ \A a \in DOMAIN Files : Files[a] = "data"
    /\ \A c \in DOMAIN Dirs :
         /\ Dirs[c].command = "data"
         /\ Dirs[c].secret \in {"missing", "private"}
         /\ \A l \in Lists : Dirs[c][l].is # "unreadable"

Fits == /\ Cardinality(DOMAIN Files) + Len(BuiltIn) <= MAX_ACTIONS
        /\ Cardinality(DOMAIN Dirs) <= MAX_CONNECTIONS

Valid(c, l) ==
    /\ Len(Dirs[c][l].lines) <= Limits[l]
    /\ l # "folders" => Range(Dirs[c][l].lines) \subseteq Range(BuiltIn) \cup DOMAIN Files

WellWritten == \A c \in DOMAIN Dirs, l \in Lists : Valid(c, l)

(* A connection that counts has been read completely, from its own files:  *)
(* nothing of one that failed half way, in whose slot it was put, is left, *)
(* and defaults stand for missing files only (CONFIG:26-38).               *)
CountedComplete ==
    \A i \in DOMAIN connections :
      LET c == connections[i].name
      IN  /\ \A j \in DOMAIN connections : connections[j].name = c => j = i
          /\ \A l \in Lists :
               Valid(c, l) => connections[i][l] = IF Dirs[c][l].is = "missing"
                                                    THEN Defaults[l] ELSE Dirs[c][l].lines

(* The event loop runs with every action and connection of the directory.  *)
AllLoaded ==
    pc = "running" =>
      /\ {connections[i].name : i \in DOMAIN connections} = DOMAIN Dirs
      /\ Range(actions) = Range(BuiltIn) \cup DOMAIN Files

(* What is wrong keeps netbiff from starting, secrets open to others among *)
(* it (CONFIG:46-50).  One thing may not: an unknown action or a word too  *)
(* many, once some file was missing, or something in gtk_init or getpwuid, *)
(* since errno still says so (conf.c:170-177).                             *)
SomeMissing ==
    \/ tree.frequency = "missing" \/ tree.actions.is = "missing"
    \/ gui = "gtk" \/ ~(host.conf \/ host.home)
    \/ \E c \in DOMAIN Dirs :
         Dirs[c].secret = "missing" \/ \E l \in Lists : Dirs[c][l].is = "missing"

WrongRefused ==
    pc = "running" => Sound /\ Fits /\ (WellWritten \/ SomeMissing)

(* ... and nothing else does: a missing file or directory is not an error  *)
(* (NEWS:2).                                                               *)
RightAccepted ==
    pc \in {"died", "overrun"} =>
      \/ Chosen = "none" \/ ~(host.conf \/ host.home \/ host.passwd)
      \/ ~(Sound /\ Fits /\ WellWritten)
===============================================================================
