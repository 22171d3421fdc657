\* Two workers, processes or threads; streams of two bytes.
SPECIFICATION FairSpec
CONSTANTS
  c1 = c1
  c2 = c2
  w1 = w1
  w2 = w2
  Clients <- TwoClients
  Workers <- TwoWorkers
  Main = Main
  NOBODY = NOBODY
  BUFSIZE = 1
  BackLog = 2
  MaxBytes = 2
INVARIANTS
  PoolStaysFull
  OneWorkerPerConnection
PROPERTIES
  FailureIsContained
  HeadIsAccepted
  ImplementsService
CHECK_DEADLOCK FALSE
