SPECIFICATION Spec
CONSTANTS
  x = x
  xgz = xgz
  table = table
  class = class
  Files <- MCFiles
  Generated <- MCGenerated
  Classes <- MCClasses
  NameOf <- MCNameOf
  Missing = Missing
  MaxEdits = 2
  MaxTime = 1
INVARIANTS
  UpdateRemovesDeleted
