------------------------------ MODULE MCTextLoop ------------------------------
(***************************************************************************)
(* Instances of TextLoop for TLC.                                          *)
(***************************************************************************)
EXTENDS TextLoop

(* Strays make the front end poll before it was answered: bound on what it *)
(* has then sent.                                                          *)
FewRequests == \A c \in Conns : Len(conn[c].bout) + Len(toBack[c]) <= 2

Two == 1 .. 2
TwoSilent   == << {}, {} >>
TwoEvents   == << {}, {"UPDATE", "RESET"} >>
TwoFolders == << <<>>, <<"a">> >>
NoFolders  == << <<>>, <<>> >>
TwoUpdates == << <<>>, <<"image">> >>
TwoResets  == << <<>>, <<"image-reset">> >>
NoActions  == << <<>>, <<>> >>
SecondFails   == << {}, {"exit", "junk"} >>
BothRefused   == << {"refuse", "exit"}, {"refuse", "stray"} >>
BothExit      == << {"exit"}, {"exit"} >>
===============================================================================
