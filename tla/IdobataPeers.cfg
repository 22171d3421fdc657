\* Two programs and a server of another kind; two datagrams may be lost.
SPECIFICATION FairSpec
CONSTANTS
  p1 = p1
  p2 = p2
  e1 = e1
  Programs <- TwoPrograms
  Echoers <- OneEchoer
  AnswerSizes <- WholeHeader
  MaxRetry = 3
  Prompt = TRUE
  MaxLost = 2
  MaxPosts = 1
  NOBODY = NOBODY
INVARIANTS
  NoSecondServer
PROPERTIES
  SearchEnds
  ClientsLearnTheEnd
CHECK_DEADLOCK FALSE
