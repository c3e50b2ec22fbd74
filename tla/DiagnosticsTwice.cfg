SPECIFICATION Spec
CONSTANTS
  MaxLines = 1
  Names = {"a", "b"}
  MaxChanges = 0
INVARIANTS
  EachIsListedOnce
CHECK_DEADLOCK FALSE
