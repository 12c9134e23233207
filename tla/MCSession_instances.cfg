SPECIFICATION Spec
CONSTANTS
  Mains = {m1, m2}
  BshTasks = {b1, b2}
  ToolTasks = {}
  Null = Null
  Page = Page
  Codes = {}
  MaxPrints = 1
  MaxClears = 0
  Intents <- AnyIntent
  Logging = {TRUE}
  Passwords = {TRUE}
  Platform = {"stack", "recreate", "kill"}
SYMMETRY Symmetry
INVARIANTS
  SoloDialogAttached
  
  DialogHasWindow
  AutoRunOnRequest
  
CHECK_DEADLOCK FALSE
