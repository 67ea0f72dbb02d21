SPECIFICATION Spec
CONSTANTS
  Conns = {"c1"}
  Names = {"a", "b"}
  Folders <- OneFolders
  Updates <- OneUpdates
  Resets <- OneResets
  MaxPenalty = 2
  Faults <- OneFaults
  Replies = {"OK", "NO"}
  Events <- AllEvents
  MaxLines = 2
INVARIANTS
  TypeOK
  StatusAccounting
  FoldersAnnounced
  NoLostWakeup
  FlagShowsBiff
  MirrorsBackEnd
PROPERTY
  SessionRefined
