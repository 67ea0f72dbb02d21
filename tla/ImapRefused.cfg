SPECIFICATION Spec
CONSTANTS
  Names = {"a"}
  Passwords = {TRUE}
  ServerFaults = {"refuse"}
  Extras <- None
  MaxUnseen = 2
  MaxWaiting = 2
PROPERTY
  ResetMeansDecrease
