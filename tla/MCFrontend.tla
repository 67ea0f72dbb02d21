------------------------------ MODULE MCFrontend ------------------------------
(***************************************************************************)
(* Instances of Frontend for TLC: one connection with two folders.         *)
(***************************************************************************)
EXTENDS Frontend, TLC

OneFolders == ("c1" :> <<"a", "b">>)
OneUpdates == ("c1" :> <<"beep", "image">>)
OneResets  == ("c1" :> <<"image-reset">>)

AllEvents  == ("c1" :> {"UPDATE", "RESET", "DATAREQUEST", "NOTE"})
OneFaults  == ("c1" :> {"refuse", "exit", "junk", "unknown"})

(* It speaks of a folder that is not configured.                           *)
OneFolder  == ("c1" :> <<"a">>)
FlagEvents == ("c1" :> {"UPDATE", "RESET"})
Strangers  == ("c1" :> {"unknown"})
===============================================================================
