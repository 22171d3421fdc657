\* Three clients, two threads and two cells; streams of two bytes.
SPECIFICATION Spec
CONSTANTS
  c1 = c1
  c2 = c2
  c3 = c3
  t1 = t1
  t2 = t2
  a1 = a1
  a2 = a2
  Clients <- ThreeClients
  Workers <- TwoThreads
  Cells <- TwoCells
  Main = Main
  NOBODY = NOBODY
  NULL = NULL
  BUFSIZE = 1
  BackLog = 2
  MaxBytes = 2
INVARIANTS
  HandedOverOnce
  EchoIsFaithful
SYMMETRY Symmetry
CHECK_DEADLOCK FALSE
