SPECIFICATION Spec
CONSTANTS
  Names = {"a", "b"}
  Passwords = {TRUE, FALSE}
  ServerFaults = {"wrong", "lost"}
  Extras <- Misfits
  MaxUnseen = 2
  MaxWaiting = 2
INVARIANTS
  TypeOK
  StatusPerRequest
  OnePassword
PROPERTIES
  EventsMatchUnseen
  AsBackEnd
