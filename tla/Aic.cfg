CONSTANTS
  NumIrqs = 20  MaxIrqs = 32
  Lines = {0, 1}
  MaxDepth = 3
  FiqSources = {"ipi"}
  TimersUsed = {}
  TypedEvents = {TRUE, FALSE}
  DebugBuild = TRUE
SPECIFICATION Spec
INVARIANTS ExclusiveService UnregisteredStaysMasked HandOffMasked
CHECK_DEADLOCK FALSE
