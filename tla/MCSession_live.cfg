SPECIFICATION FairSpec
CONSTANTS
  Mains = {m1}
  BshTasks = {b1}
  ToolTasks = {t1}
  Null = Null
  Page = Page
  Codes = {}
  MaxPrints = 1
  MaxClears = 1
  Intents <- IdleOrBatch
  Logging = {TRUE}
  Passwords = {TRUE}
  Platform = {}
INVARIANTS
  TypeOK
PROPERTIES
  DialogsClose
  AutoExitHappens
CHECK_DEADLOCK FALSE
