SPECIFICATION FairSpec
CONSTANTS
  Conns <- Two
  Names = {"a"}
  Folders <- TwoFolders
  Updates <- TwoUpdates
  Resets <- TwoResets
  MaxPenalty = 1
  Faults <- SecondExits
  Replies = {"OK"}
  Events <- BothBiff
  MaxLines = 1
  MaxFd = 8
  PollFreq = 1
  Prompting = {1}
  MaxTags = 1
  MaxLate = 0
INVARIANTS
  TypeOK
  TagsServe
  RetryScheduled
  MainReset
PROPERTIES
  MainKept
  FrontendRefined
  Reopened
CHECK_DEADLOCK FALSE
