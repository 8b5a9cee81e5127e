SPECIFICATION SafeSpec
CONSTANTS
  alice = alice
  bob = bob
  tab1 = tab1
  tab2 = tab2
  Coders = {alice}
  Listed = {alice}
  Tabs = {tab1, tab2}
  Owner <- TwoTabs
  Callers = {sweeper}
  Architects = {architect}
  Markers = {marker}
  Ender = ender
  Sources = {src}
  NoSource = NoSource
  NoAttempt = NoAttempt
  Kinds <- Timed
  MaxAttempts = 2
  MaxCrashes = 0
INVARIANTS
  TypeOK
  OneFormalSubmission
  OneOfficial
  OnlyLatestIsLive
  NoSubmissionForgotten
PROPERTIES
  NeverClosedEarly
  ClosedStaysClosed
  KeepsFormalAttempt
SYMMETRY SameTabs
VIEW OpenView
CHECK_DEADLOCK FALSE
