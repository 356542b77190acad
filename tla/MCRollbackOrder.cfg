CONSTANTS
  b1 = b1
  b2 = b2
  Builds <- MCBuilds
SPECIFICATION Spec
INVARIANT RollbackInReverseOrder
CHECK_DEADLOCK FALSE
