SPECIFICATION FairSpec
CONSTANTS
  Conns <- Two
  Names = {"a"}
  Folders <- TwoFolders
  Updates <- TwoUpdates
  Resets <- TwoResets
  MaxPenalty = 2
  Faults <- SecondFails
  Replies = {"OK"}
  Events <- TwoEvents
  MaxLines = 2
  MaxFd = 8
  PollFreq = 2
INVARIANTS
  TypeOK
  NeverBlocks
  WatchedServed
PROPERTIES
  FrontendRefined
  Reopened
  StillPolled
