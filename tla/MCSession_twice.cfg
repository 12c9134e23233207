SPECIFICATION FairSpec
CONSTANTS
  Mains = {m1, m2}
  BshTasks = {b1, b2}
  ToolTasks = {}
  Null = Null
  Page = Page
  Codes = {}
  MaxPrints = 1
  MaxClears = 0
  Intents <- IdleOrBatch
  Logging = {FALSE}
  Passwords = {}
  Platform = {"stack"}
PROPERTIES
  AutoExitHappens
CHECK_DEADLOCK FALSE
