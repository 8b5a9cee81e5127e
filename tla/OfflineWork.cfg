SPECIFICATION Spec
CONSTANTS
  MaxEdits = 2
  MaxVisits = 1
  MaxOutages = 1
  MaxRequests = 1
PROPERTY
  NothingTypedIsDiscarded
CHECK_DEADLOCK FALSE
