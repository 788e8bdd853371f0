\* Two calling threads, a scale-down and a scale-up, threads that start late, an init that times out.
SPECIFICATION Spec
CONSTANTS
  Workers = {w1, w2, w3}
  Jobs = {j1}
  Handles = {}
  Clients = {main, c1}
  Main = main
  None = none
  MinWorkers = 1
  MaxWorkers = 2
  QueueLimit = 1
  MaxScalings = 2
  MayRaise = TRUE
  MayStop = TRUE
  MayAbort = TRUE
  MayStall = TRUE
SYMMETRY Symmetry
CHECK_DEADLOCK FALSE
 
INVARIANT NoJobTwice
INVARIANT VectorNumbered
 
