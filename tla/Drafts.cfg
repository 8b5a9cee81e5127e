SPECIFICATION Spec
CONSTANTS
  MaxEdits = 2
  MaxVisits = 2
  MaxOutages = 1
  MaxRequests = 1
INVARIANTS
  TypeOK
  LocalCopyFollows
  LockedForAReason
PROPERTIES
  AutosaveCatchesUp
CHECK_DEADLOCK FALSE
