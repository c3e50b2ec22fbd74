SPECIFICATION Spec
CONSTANTS
  MaxDoc = 3
  MaxPipelineOps = 5
  Qualities = {"clean", "warns", "errs"}
  WarningsAsErrors = TRUE
  None = None
  MaxRev = 2
  MaxBuilds = 2
  MaxOps = 2
  MaxFails = 1
  Kept = 1
  SimFace = {canvas, data}
  Canvas = canvas
  Input = {a, b}
  PinValue = {lo, hi}
  MaxRuntimes = 3
  Preloads = {"ok", "nosettle"}
  NumCases = 2
  MaxSteps = 2
  MaxActions = 2
  MaxExpect = 2
  YieldActions = 2
  Cap = 5
  HistoryCap = 2
  Typed = {"set", "reset", "quit", "load", "poke", "help", "empty"}
  MaxLines = 4
INVARIANTS
  
  NewestIsServed
  FacesShareTheRuntime
  
  
PROPERTIES
  NeverOlder
  RunsEnd
CHECK_DEADLOCK FALSE
