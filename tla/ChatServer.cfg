\* Three clients for two slots; one may be killed and its slot used again.
SPECIFICATION FairSpec
CONSTANTS
  c1 = c1
  c2 = c2
  c3 = c3
  Clients <- AllClients
  Max_client = 2
  SOCK_LISTEN = 3
  Backlog = 2
  Leavers <- OneClient
  MaxLines <- LinesOf
  NOBODY = NOBODY
INVARIANTS
  SlotsAreWatched
  OneHandlePerClient
  ChatUnderOwnName
  RecvOnlyWhenReady
  AcceptNeverWaits
PROPERTIES
  ChatReachesTheOthers
  ImplementsRoom
  LinesAreRead
  ConnectionsAreAnswered
CHECK_DEADLOCK FALSE
