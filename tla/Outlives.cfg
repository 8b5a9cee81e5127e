SPECIFICATION Spec
CONSTANTS
  Duration = 4
  EndTimes = {3, 99}
  MaxTime = 7
  MaxTasks = 2
INVARIANT NeverOutlivesSession
CHECK_DEADLOCK FALSE
