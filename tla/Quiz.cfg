SPECIFICATION FairSpec
CONSTANTS
  c1 = c1
  c2 = c2
  Clients <- TwoClients
  N_client = 2
  SOCK_LISTEN = 3
  Backlog = 2
  Leavers <- OneClient
  MaxLines = 3
  MaxRounds = 2
  NOBODY = NOBODY
INVARIANTS
  AnsweredIsBounded
  NoUnearnedRank
PROPERTIES
  AnswersAreRead
CHECK_DEADLOCK FALSE
