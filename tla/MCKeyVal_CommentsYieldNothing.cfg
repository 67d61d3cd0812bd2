\* Every text of up to 4 runes; comments with backslashes included.
SPECIFICATION MCSpec
CONSTANT MaxRunes = 4
CHECK_DEADLOCK FALSE
INVARIANT
  CommentsYieldNothing
