\* A member is killed while the server sends to it.
SPECIFICATION Spec
CONSTANTS
  own = own
  a = a
  b = b
  n1 = n1
  n2 = n2
  n3 = n3
  Clients <- AllClients
  Own = own
  Leavers <- OneOther
  MaxSaid <- Said
  MaxDepth = 3
  Nodes <- ThreeNodes
  NULL = NULL
  GARBAGE = GARBAGE
INVARIANTS
  NobodyIsDeletedTwice
CHECK_DEADLOCK FALSE
