\* A client leaves and the closed descriptor stays in the mask.
SPECIFICATION Spec
CONSTANTS
  c1 = c1
  c2 = c2
  c3 = c3
  Clients <- AllClients
  Max_client = 2
  SOCK_LISTEN = 3
  Backlog = 2
  Leavers <- OneClient
  MaxLines <- LinesOf
  NOBODY = NOBODY
INVARIANTS
  RecvNeverWaits
CHECK_DEADLOCK FALSE
