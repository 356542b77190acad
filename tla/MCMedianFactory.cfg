\* Two constructions, every failure point, StopCh and the caller's deadline
\* between any two steps.
CONSTANTS
  b1 = b1
  b2 = b2
  Builds <- MCBuilds
SPECIFICATION Spec
SYMMETRY BuildSymmetry
INVARIANT TypeOK
PROPERTY CompositeRefinement
\* Every construction is one-shot: the system quiesces once it has ended.
CHECK_DEADLOCK FALSE
