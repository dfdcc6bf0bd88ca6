SPECIFICATION Spec
CONSTANTS
  Calls <- LoaderCalls
  Snapshot = FALSE
  HostBindings <- NoBindings
  Registered = {"Object", "Class"}
  InitialCapacity = 2
  MaxSymbols = 9
  MaxChunks = 3
  Rooms <- LoaderRooms
INVARIANTS
  TypeOK
  LoadTakesEffect
  FieldsMatchLayout
  ReferencesFollowGlobals
  GlobalsAreWhole
