\* Three clients, one after the other; one sends lines and parts of lines.
SPECIFICATION FairSpec
CONSTANTS
  c1 = c1
  c2 = c2
  c3 = c3
  a = a
  t = t
  x = x
  NUL = NUL
  CR = CR
  LF = LF
  SP = SP
  Clients <- ThreeClients
  Chars <- AllChars
  EXIT_CMD <- ExitWord
  TYPE_CMD <- TypeWord
  Segments <- SomeSegments
  Garbage <- OldText
  Backlog = 2
  MaxSegments <- Counts
  NOBODY = NOBODY
INVARIANTS
  SessionHasItsOwnKey
PROPERTIES
  ExitIsTyped
  ExitEndsSession
CHECK_DEADLOCK FALSE
