SPECIFICATION FairSpec
CONSTANTS
  WordSlot <- MCWordSlot
  ByteSlot <- MCByteSlot
  Oop <- TwoOops
  ExceptionClass <- OneClass
  Handles <- OneHandles
  InitialHeap <- MCInitialHeap
  Absent = Absent
  TRANSACTION_LOG_ENTRY_CAPACITY = 2
  MaxDepth = 3
INVARIANTS
  LogInScope
  InstalledPrefix
PROPERTIES
  RefinesAtomicStore
  SignalLands
  CommitEnds
