SPECIFICATION MCSpec
CONSTANTS
  a = a
  b = b
  Calls = {a, b}
  MaxLines = 0
  MaxErrors = 1
  Faults = {}
PROPERTIES
  OldErrorsCleared
