SPECIFICATION Spec
CONSTANTS
  MaxOps = 2
  Calls = {c1, c2}
  MaxRetained = 1
  MaxWaits = 1
  Times = {1, 2}
  Finals = {"succeeded"}
  Ports = {"authoring"}
  MaxAborts = 2
  NTools = 2
  MaxEvents = 6
  ProviderFails = TRUE
  Request = {r1, r2, r3}
  MaxWorkers = 2
  None = None
INVARIANTS
  WaitsAreKept
  ToolsMatchStatus
  RepliesFindTheirCall
PROPERTIES
  EveryCallSettles
CHECK_DEADLOCK FALSE
