SPECIFICATION Spec
CONSTANTS
  WordBits = 7
  MaxCodePoint = 7
  MaxStack = 3
INVARIANTS WordsAreExact FailuresAreReal
CHECK_DEADLOCK FALSE
