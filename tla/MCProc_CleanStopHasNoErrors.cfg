\* Stated by a test, not kept by the code.
SPECIFICATION Spec
CHECK_DEADLOCK FALSE
PROPERTY CleanStopHasNoErrors
