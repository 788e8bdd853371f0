\* The main thread alone calls the pool; it scales down, stops and cleans up.
SPECIFICATION Spec
CONSTANTS
  Workers = {w1, w2, w3}
  Jobs = {j1, j2}
  Handles = {h1}
  Clients = {main}
  Main = main
  None = none
  MinWorkers = 1
  MaxWorkers = 2
  QueueLimit = 2
  MaxScalings = 1
  MayRaise = FALSE
  MayStop = TRUE
  MayAbort = FALSE
  MayStall = FALSE
SYMMETRY Symmetry
CHECK_DEADLOCK FALSE
INVARIANT TypeOK
INVARIANT NoJobStranded
 
INVARIANT CallbacksSafe
 
