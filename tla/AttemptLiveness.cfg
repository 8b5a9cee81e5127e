SPECIFICATION Spec
CONSTANTS
  alice = alice
  bob = bob
  tab1 = tab1
  tab2 = tab2
  Coders = {alice, bob}
  Listed = {alice, bob}
  Tabs = {tab1}
  Owner <- OneTab
  Callers = {sweeper, alarm}
  Architects = {}
  Markers = {}
  Ender = ender
  Sources = {src}
  NoSource = NoSource
  NoAttempt = NoAttempt
  Kinds <- EveryKind
  MaxAttempts = 1
  MaxCrashes = 2
PROPERTIES
  OverdueIsClosed
  EndedSessionEmpties
CHECK_DEADLOCK FALSE
