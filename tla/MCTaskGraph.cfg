SPECIFICATION Spec
CONSTANTS
  Key = {a, b, c}
  MaxTasks = 3
INVARIANT
  VerdictCorrect
PROPERTIES
  PeelsOnce
  Returns
CHECK_DEADLOCK FALSE
