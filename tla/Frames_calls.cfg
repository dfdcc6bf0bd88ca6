SPECIFICATION Spec
CONSTANTS
  Methods = {"m", "u"}
  Blocks = {"b", "d"}
  NumArgs <- MCArgs
  NumTemps <- MCTemps
  Values = {1}
  StackWords = 24
  MaxContexts = 3
  MaxClosures = 2
  MaxActs = 5
  Program <- MCProgram
  MaxPc = 6
  ContextClasses = {TRUE, FALSE}
  Bottom <- MCCafe
  Uses = {}
INVARIANTS
  TypeOK
  IpInMethod
  SendersFollowFrames
  FramesWithinLimit
PROPERTY
  Implements
CHECK_DEADLOCK FALSE
