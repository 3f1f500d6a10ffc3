SPECIFICATION Spec
CONSTANTS
  Keys = {a, b}
  MaxDepth = 3
  MaxValues = 7
INVARIANTS TypeOK Unambiguous
CHECK_DEADLOCK FALSE
