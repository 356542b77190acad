CONSTANTS
  b1 = b1
  b2 = b2
  Builds <- MCBuilds
SPECIFICATION Spec
INVARIANT HostDepsReleased
CHECK_DEADLOCK FALSE
