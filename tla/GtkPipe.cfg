SPECIFICATION FairSpec
CONSTANTS
  Conns <- Two
  Names = {"a"}
  Folders <- TwoFolders
  Updates <- TwoUpdates
  Resets <- TwoResets
  MaxPenalty = 1
  Faults <- BothExit
  Replies = {"OK"}
  Events <- Silent
  MaxLines = 1
  MaxFd = 8
  PollFreq = 1
  Prompting = {}
  MaxTags = 1
  MaxLate = 0
PROPERTY
  RetriedForever
CHECK_DEADLOCK FALSE
