SPECIFICATION Spec
CONSTANTS
  s1 = s1
  w1 = w1
  w2 = w2
  r1 = r1
  r2 = r2
  NoJob = NoJob
  NoWorker = NoWorker
  Jobs = {s1}
  Workers = {w1, w2}
  Requests = {r1, r2}
  Attempts = 3
  MaxStalled = 1
  FaultKinds <- ShortOutages
  MaxFaults = 2
INVARIANTS
  TypeOK
  OnlyActiveJobsAreLocked
  ReportedBeforeDone
  NoBrokenRunIsGraded
  StillOnTheWay
PROPERTIES
  HolderKeepsJob
  Settles
