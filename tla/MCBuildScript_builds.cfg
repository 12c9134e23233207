SPECIFICATION Spec
CONSTANTS
  Units = {"a", "b"}
  MaxBuilds = 3
INVARIANTS
  TypeOK
  
  CodeTellsOutcome

  
