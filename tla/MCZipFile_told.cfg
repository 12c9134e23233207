SPECIFICATION Spec
CONSTANTS
  a = a
  b = b
  short = short
  long = long
  Names <- MCNames
  Contents <- MCContents
  Span <- MCSpan
  Missing = Missing
  Capacity = 5
  MaxAdds = 3
  MaxTroubles = 0
INVARIANTS
  BrokenIsTold
