\* One process, all of its goroutines and its child.
SPECIFICATION FairSpec
CHECK_DEADLOCK FALSE
INVARIANTS
  TypeOK
  NoSilentLeak
  OutputAccounted
  ReadyClosedOnce
  KillIsReported
PROPERTIES
  ImplementsLife
  StopReturns
  ReadyIsDecided
