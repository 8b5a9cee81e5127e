SPECIFICATION Spec
CONSTANTS
  g1 = g1
  g2 = g2
  g3 = g3
  Goroutines = {g1, g2, g3}
  MaxContainers = 2
  ReservedForSubmit = 1
  MaxSubmissions = 2
  MaxRuns = 1
  MaxFaults = 1
INVARIANTS
  TypeOK
  SlotsAccounted
  ReserveKept
  NoSubmissionLost
PROPERTIES
  SubmissionsAreClaimed
  Stops
CHECK_DEADLOCK FALSE
