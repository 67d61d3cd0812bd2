\* Every text of up to 6 runes, and every way to start with a few files.
SPECIFICATION MCSpec
CONSTANT MaxRunes = 6
CHECK_DEADLOCK FALSE
INVARIANTS
  TypeOK
  ParsesAsWritten
  KeysAsWritten
  OptionsAsConfigured
  ErrorsReported
PROPERTY
  PanicsOnlyInComments
