---------------------------- MODULE MCImapBackEnd ----------------------------
(***************************************************************************)
(* Instances of ImapBackEnd for TLC.                                       *)
(***************************************************************************)
EXTENDS ImapBackEnd

None == {}
Misfits == { Ask("POLL", "a"), Ask("DATARESPONSE", "a"), Ask("OTHER", NoArg),
             Ask("FOLDER", NoArg), Ask("QUIT", NoArg) }
===============================================================================
