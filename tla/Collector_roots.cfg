SPECIFICATION Spec
CONSTANTS
  SpaceWords = 4
  NumTemps = 0
  NewFields = {1}
  CodeMoves = {FALSE}
  Uses = {"calls", "closure"}
  Watch = {"ips", "tables"}
  MaxSlots = 3
  MaxStrays = 0
  MaxFrames = 2
  MaxLog = 1
  MaxAllocs = 6
  MaxCollections = 2
INVARIANT
  NoStaleReference
PROPERTY
  CollectionsInvisible
CHECK_DEADLOCK FALSE
