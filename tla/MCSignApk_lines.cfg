SPECIFICATION MCSpec
CONSTANTS
  Mandatory = {"M"}
  Optional = {"h", "K", "C"}
  Unknown = {"X"}
  Capital = {"M", "K", "C", "X"}
  Others = {"word", ""}
  MaxArgs = 6
  Help = "h"
  KeyFile = "K"
  KeyOptions = {"K", "C"}
INVARIANTS
  TypeOK
  OptionsAsMeant
  CountersAsMeant
  ArgumentsPresent
  IndexInRange
  SignTypeOK
  SignsWithAllKeys
