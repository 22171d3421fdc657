\* The server's own client and two others, of whom one may be killed.
SPECIFICATION FairSpec
CONSTANTS
  own = own
  a = a
  b = b
  n1 = n1
  n2 = n2
  n3 = n3
  Clients <- AllClients
  Own = own
  Leavers <- OneOther
  MaxSaid <- Said
  MaxDepth = 3
  Nodes <- ThreeNodes
  NULL = NULL
  GARBAGE = GARBAGE
INVARIANTS
  MembersAreConnections
  PostReachesTheOthers
PROPERTIES
  RecvOnlyFromReadyMembers
  WalkMissesNobody
  PacketsAreRead
CHECK_DEADLOCK FALSE
