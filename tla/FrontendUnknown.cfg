SPECIFICATION Spec
CONSTANTS
  Conns = {"c1"}
  Names = {"a", "b"}
  Folders <- OneFolder
  Updates <- OneUpdates
  Resets <- OneResets
  MaxPenalty = 2
  Faults <- Strangers
  Replies = {"OK"}
  Events <- FlagEvents
  MaxLines = 2
INVARIANT
  ResetCancels
