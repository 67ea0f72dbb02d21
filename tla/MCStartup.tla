------------------------------ MODULE MCStartup ------------------------------
(***************************************************************************)
(* Instances of Startup for TLC: every kind of one connection next to a    *)
(* few others, on one host; and all hosts with the simplest directory.     *)
(***************************************************************************)
EXTENDS Startup

SmallLimits == [updates |-> 2, resets |-> 1, folders |-> 1]

List(words) == [is |-> "data", lines |-> words]
Kind(kind) == [is |-> kind, lines |-> <<>>]

UpdateFiles == {Kind(k) : k \in FileKinds}
                 \cup {List(w) : w \in { <<"mine", "image">>, <<"image", "bogus">>,
                                        <<"beep", "beep", "beep">> }}
ResetFiles == {Kind("missing"), Kind("data"), List(<<"bogus">>)}
FolderFiles == {Kind("missing"), List(<<"a">>), List(<<"a", "b">>)}

Connections == [ command : {"data", "missing"}, updates : UpdateFiles, resets : ResetFiles,
                 folders : FolderFiles, secret : SecretKinds ]

Short == [ command |-> "data", updates |-> Kind("missing"), resets |-> Kind("missing"),
           folders |-> Kind("missing"), secret |-> "missing" ]
Long == [ command |-> "data", updates |-> List(<<"mine">>), resets |-> List(<<"mine">>),
          folders |-> List(<<"a">>), secret |-> "private" ]

Others == { <<>>, ("y" :> Long), ("y" :> Short @@ "z" :> Short) }

ActionDirs == { [is |-> "missing", files |-> <<>>], [is |-> "unreadable", files |-> <<>>],
                [is |-> "dir", files |-> ("mine" :> "data")],
                [is |-> "dir", files |-> ("mine" :> "unreadable")],
                [is |-> "dir", files |-> ("mine" :> "data" @@ "yours" :> "data")] }

Desk == [ args |-> "run", conf |-> FALSE, name |-> "none", compiled |-> {"text", "gtk"},
          display |-> "unset", home |-> TRUE, passwd |-> FALSE ]
Hosts == [ args : {"run", "help"}, conf : BOOLEAN, name : {"none", "text", "gtk", "other"},
           compiled : SUBSET {"text", "gtk"}, display : {"unset", "works", "broken"},
           home : BOOLEAN, passwd : BOOLEAN ]

Tree(freq, files, others, c) ==
    [ frequency   |-> freq, actions |-> files,
      connections |-> [is |-> "dir", dirs |-> others @@ ("x" :> c)] ]
NoTree(kind) ==
    [ frequency |-> "missing", actions |-> [is |-> "missing", files |-> <<>>],
      connections |-> [is |-> kind, dirs |-> <<>>] ]

AllCases ==
    { [host |-> Desk, tree |-> Tree(f, a, o, c)] :
        f \in {"data", "missing"}, a \in ActionDirs, o \in Others, c \in Connections }
    \cup { [host |-> h, tree |-> t] :
             h \in Hosts, t \in {NoTree("missing"), NoTree("unreadable"),
                                 Tree("broken", [is |-> "missing", files |-> <<>>], <<>>, Short)} }
===============================================================================
