SPECIFICATION Spec
CONSTANTS
  MaxScratch = 2
  MaxSource = 2
  MaxEnvelope = 3
  Rooms = {2, 9}
  Images = {0, 2}
  MaxEdits = 4
PROPERTIES
  ImagesEvictNothing
CHECK_DEADLOCK FALSE
