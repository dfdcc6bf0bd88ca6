SPECIFICATION Spec
CONSTANTS
  SpaceWords = 5
  NumTemps = 0
  NewFields = {1}
  CodeMoves = {FALSE}
  Uses = {"calls", "args"}
  Watch = {"args"}
  MaxSlots = 3
  MaxStrays = 0
  MaxFrames = 2
  MaxLog = 1
  MaxAllocs = 8
  MaxCollections = 2
INVARIANT
  NoStaleReference
CHECK_DEADLOCK FALSE
