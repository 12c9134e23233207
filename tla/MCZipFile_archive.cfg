SPECIFICATION Spec
CONSTANTS
  a = a
  b = b
  short = short
  long = long
  Names <- MCNames
  Contents <- MCContents
  Span <- MCSpan
  Missing = Missing
  Capacity = 7
  MaxAdds = 4
  MaxTroubles = 1
INVARIANTS
  TypeOK
  EntriesIntact
  ClosedIsCompact
  NeverSilentlyWrong
PROPERTIES
  IsArchive
  FlushEnds
