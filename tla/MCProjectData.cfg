SPECIFICATION Spec
CONSTANTS
  MaxScratch = 2
  MaxSource = 2
  MaxEnvelope = 3
  Rooms = {2, 9}
  Images = {0, 2}
  MaxEdits = 4
  MaxExpanded = 3
  MaxHandEdits = 2
  Names = {"a", "b", "c", "main"}
  MaxFiles = 3
  MaxSteps = 3
  MaxBatch = 2
  BatchSteps = 2
  Typeable = {"short", "wide", "bulky"}
  Wide = {"wide"}
  Bulky = {"bulky"}
  Large = {"bulky"}
  CutPicks = FALSE
  MaxVisits = 7
  FileTexts <- ReadTexts
  PieceSizes = {2, 3}
  MaxChanges = 3
  MaxLen = 4
  MaxRanges = 2
INVARIANTS
  EnvelopeIsUsable
  FilesKeepTheirOwn
  ReadsAreOfOneMoment
PROPERTIES
  
  LinkOpensWhatWasSent
CHECK_DEADLOCK FALSE
