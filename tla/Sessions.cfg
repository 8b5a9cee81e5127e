SPECIFICATION Spec
CONSTANTS
  s1 = s1
  s2 = s2
  Sessions = {s1}
  Patches <- Changes
  MaxRequests = 3
  MaxTasks = 2
INVARIANTS
  TypeOK
PROPERTIES
  
  FrozenOnceStarted
  DeletedOnlyAtRest
  DueSessionsEmpty
CHECK_DEADLOCK FALSE
