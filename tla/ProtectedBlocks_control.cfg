SPECIFICATION Spec
CONSTANTS
  WordSlot <- NoSlot
  ByteSlot <- NoSlot
  Oop <- MCOop
  ExceptionClass <- MCExceptionClass
  Handles <- MCHandles
  InitialHeap <- EmptyHeap
  Absent = Absent
  TRANSACTION_LOG_ENTRY_CAPACITY = 0
  MaxDepth = 5
INVARIANTS
  TypeOK
  EnsureChainSound
  HandlerChainSound
PROPERTY
  EnsureNeverSkipped
