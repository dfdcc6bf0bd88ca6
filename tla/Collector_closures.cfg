SPECIFICATION Spec
CONSTANTS
  SpaceWords = 7
  NumTemps = 1
  NewFields = {0, 1}
  CodeMoves = {TRUE, FALSE}
  Uses = {"closure"}
  Watch = {"ips", "tables"}
  MaxSlots = 3
  MaxStrays = 1
  MaxFrames = 1
  MaxLog = 1
  MaxAllocs = 7
  MaxCollections = 2
INVARIANTS
  TypeOK
  CopiesSucceed
  OutOfMemoryIsReal
PROPERTY
  CollectionsInvisible
CHECK_DEADLOCK FALSE
