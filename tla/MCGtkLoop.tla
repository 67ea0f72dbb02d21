------------------------------ MODULE MCGtkLoop ------------------------------
(***************************************************************************)
(* Instances of GtkLoop for TLC: two connections of one folder each.       *)
(***************************************************************************)
EXTENDS GtkLoop

Two == 1 .. 2
TwoFolders == << <<"a">>, <<"a">> >>
TwoUpdates == << <<"image">>, <<"image">> >>
TwoResets  == << <<"image-reset">>, <<"image-reset">> >>

(* The first asks the user; the second fails and is reopened.              *)
BothBiff == << {"DATAREQUEST", "UPDATE"}, {"UPDATE"} >>
SecondExits == << {}, {"exit"} >>

(* Both exit.                                                              *)
Silent == << {}, {} >>
BothExit == << {"exit"}, {"exit"} >>
===============================================================================
