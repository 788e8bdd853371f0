\* Every accepted job is executed; stop() and cleanup() come to an end.
SPECIFICATION FairSpec
CONSTANTS
  Workers = {w1, w2}
  Jobs = {j1}
  Handles = {h1}
  Clients = {main}
  Main = main
  None = none
  MinWorkers = 1
  MaxWorkers = 2
  QueueLimit = 1
  MaxScalings = 1
  MayRaise = FALSE
  MayStop = TRUE
  MayAbort = FALSE
  MayStall = FALSE
CHECK_DEADLOCK FALSE
PROPERTY EveryJobRuns
PROPERTY ShutdownEnds
