\* Handlers that wait, failed processes and the shutdown, under fairness.
SPECIFICATION FairSpec
CONSTANTS
  Users = {u1}
  Procs = {p1, p2}
  Clients = {c1, c2}
  NoUser = NoUser
  NoProc = NoProc
  MaxProcs = 1
  MaxFailures = 1
  RecoveryTime = 1
  IdleTimeout = 1
  IdleCheckPeriod = 1
  MaxTime = 1
CHECK_DEADLOCK FALSE
PROPERTIES
  WaitersReleased
  AskersAnswered
  FailedProcReplaced
  ShutdownDrains
