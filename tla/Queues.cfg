\* Lists of up to three nodes, which move between two queues.
CONSTANTS
  b1 = b1
  b2 = b2
  c1 = c1
  c2 = c2
  c3 = c3
  Process <- MCProcess
  Queue <- MCQueue
  Cell = {c1, c2, c3}
  NULL = NULL
  TakesFrom <- Polls
  PutsOn <- Adds
  Makers = {"main"}
SPECIFICATION Spec
INVARIANTS TypeOK NothingWrong ReadsBothWays
PROPERTY ImplementsFifo
