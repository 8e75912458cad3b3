CONSTANTS
  NumIrqs = 20  MaxIrqs = 32
  Lines = {1, 5}
  MaxDepth = 1
  FiqSources = {}
  TimersUsed = {}
  TypedEvents = {FALSE}
  DebugBuild = FALSE
SPECIFICATION Spec
PROPERTIES CleanStart
CHECK_DEADLOCK FALSE
