SPECIFICATION SafeSpec
CONSTANTS
  alice = alice
  bob = bob
  tab1 = tab1
  tab2 = tab2
  Coders = {alice}
  Listed = {alice}
  Tabs = {tab1}
  Owner <- OneTab
  Callers = {sweeper}
  Architects = {architect}
  Markers = {}
  Ender = ender
  Sources = {src}
  NoSource = NoSource
  NoAttempt = NoAttempt
  Kinds <- EveryKind
  MaxAttempts = 2
  MaxCrashes = 0
PROPERTIES
  GrantedAnswersToItself
CHECK_DEADLOCK FALSE
