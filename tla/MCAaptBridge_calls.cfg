SPECIFICATION MCSpec
CONSTANTS
  a = a
  b = b
  Calls = {a, b}
  MaxLines = 1
  MaxErrors = 2
  Faults = {"workdir", "library"}
SYMMETRY Symmetry
INVARIANTS
  TypeOK
  SoloOutput
  SoloErrors
  
  ShownIsContemporary
  StreamsReleased
