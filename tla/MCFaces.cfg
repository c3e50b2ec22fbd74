SPECIFICATION SuiteSpec
CONSTANTS
  Cap = 4
  MaxWord = 2
  ByteBits = 2
  ShapeWidths = {1, 2, 3, 4}
  ShapeAddrWidths = {1, 2}
  MaxBytes = 3
  MaxMoves = 3
  MaxLen = 6
  TextWidth = 3
  TextAddrWidth = 1
  MaxBinds = 4
  PanelWidths = {1, 3, 9}
  PanelAddrWidths = {1, 3, 4}
  PanelPage = 4
  Partial = 3
  Samples = {0, 11, 176, 511}
  MaxTurns = 3
  Limit = 40
  LineChars = {"0", "1", "9", "a", "b", "x", "o", "_", "+", "-"}
  MaxChars = 4
  Verbs = {"pins", "mems", "load", "peek", "poke", "mem", "set", "dump", "get", "eval", "bogus"}
  LineWords = {"n", "1", "in", "=>", "a=1", "a=n", "a=1/n"}
  MaxTokens = 5
  Circuits = {"gate", "latch", "ring"}
  TableFormats = {"binary", "decimal", "hex"}
  Caps = {1, 3}
  Mantissa = 3
  MaxClicks = 4
  RulerMax = 2
  MaxFrames = 5
  BoxWidths = {5000, 6000}
  Inputs = {1, 2, 3}
  Edges = {100, 150, 200}
  SpriteEnds = {800, 840, 900}
  Apexes = {0, 80, 160}
  MaxLines = 2
  Names = {"a", "b", "c"}
  MaxChanges = 1
INVARIANTS
  ImageIsItsWords
  MemoriesHoldTheirImage
  GridTellsTheWords
  LinesMeanTheSame
  TableTellsTheCircuit
  
  BlameIsShown
PROPERTIES
  EditsAreSparse
CHECK_DEADLOCK FALSE
