SPECIFICATION Spec
CONSTANTS
  HeapSize = 2
  PageOf <- TwoPages
  SmallInt = {1}
  InitialHeap <- OneObject
  MaxStores <- TwoThenOne
  MaxPending = 1
INVARIANTS
  TypeOK
  RestartAnswersHeap
  AckedInJournal
PROPERTY
  ImageSurvives
