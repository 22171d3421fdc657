\* Two messages come one after the other.
SPECIFICATION Spec
CONSTANTS
  p1 = p1
  p2 = p2
  e1 = e1
  Programs <- TwoPrograms
  Echoers <- None
  AnswerSizes <- None
  MaxRetry = 3
  Prompt = TRUE
  MaxLost = 0
  MaxPosts = 2
  NOBODY = NOBODY
INVARIANTS
  EveryMessageIsShown
CHECK_DEADLOCK FALSE
