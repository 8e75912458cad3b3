CONSTANTS
  NumIrqs = 20  MaxIrqs = 32
  Lines = {1}
  MaxDepth = 2
  FiqSources = {"phys", "pmc", "upmc"}
  TimersUsed = {17}
  TypedEvents = {FALSE}
  DebugBuild = TRUE
SPECIFICATION FairSpec
PROPERTIES FiqServed IrqServed
CHECK_DEADLOCK FALSE
