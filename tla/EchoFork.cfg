\* Two clients, a limit of two children; streams of two bytes.
SPECIFICATION FairSpec
CONSTANTS
  c1 = c1
  c2 = c2
  p1 = p1
  p2 = p2
  Clients <- TwoClients
  Workers <- TwoPids
  Main = Main
  NOBODY = NOBODY
  BUFSIZE = 1
  BackLog = 2
  MaxBytes = 2
  PRCS_LIMIT = 2
INVARIANTS
  CountIsExact
  LimitIsKept
  ParentKeepsNothing
PROPERTIES
  WaitEnds
  BytesAreRead
  ImplementsService
CHECK_DEADLOCK FALSE
