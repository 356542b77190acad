\* The wait for the service ends once the lifecycle is decided.
\* The service stops for good, so the behaviour may end.
CONSTANTS
  c1 = c1
  c2 = c2
  None = None
  Callers <- MCCallers
  Instances <- MCInstances
SPECIFICATION Spec
PROPERTY WaitEndsOnceSettled
CHECK_DEADLOCK FALSE
