SPECIFICATION FairSpec
CONSTANTS
  Lengths <- MCLengths
  Capacity = 2
  Window = 2
  MaxSignals = 3
INVARIANTS
  TypeOK
  InOrderOnce
  TrueMeansWhole
  FailureExplained
PROPERTIES
  HeldUpOnlyByPeer
  ReaderIsServed
CHECK_DEADLOCK FALSE
