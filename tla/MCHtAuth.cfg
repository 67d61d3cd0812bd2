\* One client with two requests under way, and a restart of the server.
SPECIFICATION Spec
CONSTANTS
  Users = {u1, u2}
  Clients = {c1}
  Conns = {h1, h2}
  NoUser = NoUser
  NoToken = NoToken
  Second = 2
  TokenValidity = 4
  RenewThreshold = 2
  AllowCookies = TRUE
  FixedKey = FALSE
  MaxSources = 2
  MaxTime = 6
  MaxRestarts = 1
SYMMETRY Symmetry
CHECK_DEADLOCK FALSE
INVARIANTS
  TypeOK
  SessionSurvives
  IdleSessionEnds
