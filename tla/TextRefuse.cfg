SPECIFICATION Spec
CONSTANTS
  Conns <- Two
  Names = {"a"}
  Folders <- NoFolders
  Updates <- NoActions
  Resets <- NoActions
  MaxPenalty = 1
  Faults <- BothRefused
  Replies = {"OK"}
  Events <- TwoSilent
  MaxLines = 1
  MaxFd = 8
  PollFreq = 1
INVARIANTS
  NothingLeaked
  StopsOnlyUnopened
CHECK_DEADLOCK FALSE
CONSTRAINT FewRequests
