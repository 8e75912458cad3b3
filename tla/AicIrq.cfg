CONSTANTS
  NumIrqs = 20  MaxIrqs = 32
  Lines = {1}
  MaxDepth = 2
  FiqSources = {"phys"}
  TimersUsed = {17}
  TypedEvents = {FALSE}
  DebugBuild = FALSE
SPECIFICATION FairSpec
PROPERTIES RegisteredIrqServed
CHECK_DEADLOCK FALSE
