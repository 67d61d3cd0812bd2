\* Three users compete for two process slots, and their processes fail: who is
\* evicted matters, and who is banned.
SPECIFICATION MCOpenSpec
CONSTANTS
  Users = {u1, u2, u3}
  Procs = {p1, p2, p3}
  Clients = {c1}
  NoUser = NoUser
  NoProc = NoProc
  MaxProcs = 2
  MaxFailures = 1
  RecoveryTime = 1
  IdleTimeout = 2
  IdleCheckPeriod = 1
  MaxTime = 2
SYMMETRY Symmetry
CHECK_DEADLOCK FALSE
INVARIANTS
  BannedHasNoProc
  BanIsEarned
  FailuresBan
PROPERTY
  LeastRecentGoFirst
