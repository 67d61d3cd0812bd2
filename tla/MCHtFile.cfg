\* Two requests at a time, on four trees.
SPECIFICATION MCSpec
CONSTANTS
  Handlers = {h1, h2}
  Old = Old
  Char <- MCChar
  Root <- MCRoot
  Requests <- MCRequests
  InitialTrees <- MCTrees
  Ids = {1, 2, 3, 4, 5, 6, 7, 8, 9, 10, 11, 12}
  Modes = {"m1", "m2"}
  Users = {"me", "other"}
  Groups = {"g1", "g2"}
  Me = "me"
  MyGroup = "g1"
  MyGroups = {"g1", "g2"}
  Privileged = FALSE
  MaxBody = 2
  MaxSearch = 2
  MaxRequests = 3
  MaxFaults = 1
SYMMETRY Symmetry
CHECK_DEADLOCK FALSE
INVARIANTS
  ServedAsAlone
  TellsWhatIsStored
  WithinLimit
PROPERTY
  OutsideUntouched
  ReadsChangeNothing
  ChangesWhereAsked
