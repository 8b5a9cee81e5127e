SPECIFICATION Spec
CONSTANTS
  s1 = s1
  s2 = s2
  NoSocket = NoSocket
  Sockets = {s1, s2}
  MaxVisits <- LobbyAndWork
  MaxTasks = 2
  MaxRestarts = 1
INVARIANTS
  TypeOK
  LeftPageIsUnbound
PROPERTIES
  ReleasedOnlyIfDeparted
  ClosedClockStands
  LostConnectionIsRetired
CHECK_DEADLOCK FALSE
