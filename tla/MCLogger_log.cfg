SPECIFICATION FairSpec
CONSTANTS
  main = main
  t1 = t1
  handler = handler
  Threads = {main, t1}
  Main = main
  Handler = handler
  NumPaths = 2
  Levels = {0, 1}
  MaxCalls <- MCCalls
  MaxChanges = 2
  None = None
INVARIANTS
  TypeOK
  WorkerStays
  WrittenOnceWhereDue
  MessagesWhole
  InOrderOfCalls
PROPERTIES
  LogReturns
  HandlerReturns
CHECK_DEADLOCK FALSE
