SPECIFICATION ScopesSpec
CONSTANTS
  MaxArgs = 2
  MaxTemps = 2
  MaxDepth = 4
  BlockArgs = {0, 1, 2}
INVARIANTS
  ScopesTypeOK
  OffsetIsCopied
  PlainNestsAgree
CHECK_DEADLOCK FALSE
