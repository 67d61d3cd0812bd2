\* Two users compete for one process slot.
SPECIFICATION Spec
CONSTANTS
  Users = {u1, u2}
  Procs = {p1, p2, p3}
  Clients = {c1}
  NoUser = NoUser
  NoProc = NoProc
  MaxProcs = 1
  MaxFailures = 1
  RecoveryTime = 1
  IdleTimeout = 1
  IdleCheckPeriod = 1
  MaxTime = 1
SYMMETRY Symmetry
CHECK_DEADLOCK FALSE
INVARIANTS
  TypeOK
  MappedProcsOpen
  NoOrphan
  MaxProcsRespected
  ShutdownTellsAll
  CloseCanFinish
PROPERTY
  ProcsFollowLife
