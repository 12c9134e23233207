SPECIFICATION Spec
CONSTANTS
  x = x
  xgz = xgz
  table = table
  class = class
  Files <- MCFiles
  Generated <- MCGenerated
  Classes <- MCClasses
  NameOf <- MCNameOf
  Missing = Missing
  MaxEdits = 3
  MaxTime = 2
INVARIANTS
  TypeOK
  
  FreshHasNoCruft
  
PROPERTIES
  IsArchive
