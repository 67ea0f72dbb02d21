SPECIFICATION Spec
CONSTANTS
  Names = {"a"}
  CaseOf <- Folded
  Requests <- Sample
  UseAtime = TRUE
  Acts = {"deliver", "read", "expunge", "remove", "forbid"}
  MaxTime = 3
  MaxSize = 2
  MaxWaiting = 1
INVARIANTS
  TypeOK
  StatusPerRequest
PROPERTIES
  EventsMatchMail
  AsBackEnd
