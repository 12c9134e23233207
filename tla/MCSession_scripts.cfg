SPECIFICATION Spec
CONSTANTS
  Mains = {m1}
  BshTasks = {b1, b2}
  ToolTasks = {}
  Null = Null
  Page = Page
  Codes = {0}
  MaxPrints = 2
  MaxClears = 1
  Intents <- IdleOnly
  Logging = {TRUE}
  Passwords = {}
  Platform = {}
SYMMETRY Symmetry
INVARIANTS
  LogIsPrefix
  
  SoloResult
  ClearFindsBuffer
CHECK_DEADLOCK FALSE
