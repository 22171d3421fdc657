\* Three addresses and three sockets, all orders of calls.
SPECIFICATION FairSpec
CONSTANTS
  Nodes = {n1, n2, n3}
  Socks = {1, 2, 3}
  NULL = NULL
  GARBAGE = GARBAGE
INVARIANTS
  TypeOK
  ListHoldsMembers
PROPERTIES
  ImplementsMembership
  DeletionEnds
CHECK_DEADLOCK FALSE
