SPECIFICATION Spec
CONSTANTS
  OM_PAGE_UNITS = 2
  HeapUnits = 7
  AddressSpace = 65536
  ObjectUnits <- MCUnits
  ReleasesCurrentPage = FALSE
INVARIANTS
  TypeOK
  LiveObjectsIntact
  WalkFindsObjects
  CheckpointConvertsAll
  ImageRoundTrip
  StoresMarkTheirPages
CHECK_DEADLOCK FALSE
