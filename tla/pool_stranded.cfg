\* A second thread spawns while the main thread scales down.
SPECIFICATION Spec
CONSTANTS
  Workers = {w1, w2}
  Jobs = {j1}
  Handles = {}
  Clients = {main, c1}
  Main = main
  None = none
  MinWorkers = 1
  MaxWorkers = 2
  QueueLimit = 1
  MaxScalings = 1
  MayRaise = FALSE
  MayStop = FALSE
  MayAbort = FALSE
  MayStall = FALSE
CHECK_DEADLOCK FALSE
INVARIANT NoJobStranded
