SPECIFICATION Spec
CONSTANTS
  s1 = s1
  s2 = s2
  Sessions = {s1, s2}
  Patches = {}
  MaxRequests = 2
  MaxTasks = 2
INVARIANT
  OneOpenAccessSession
CHECK_DEADLOCK FALSE
