\* Concurrent Accept calls: one outcome per name, decided once and seen by every call.
CONSTANTS
  fWrong = fWrong
  g1 = g1
  g2 = g2
  PanicVal = PanicVal
  NoOnce = NoOnce
  NoPanic = NoPanic
  None = None
  ForeignImpls <- MCForeignImpls
  Sig <- MCSig
  HasCritical <- MCHasCritical
  Goroutines <- MCGoroutines
  Names <- MCNames
  HclLevels <- MCHclLevels
  Bases <- MCBases
  MaxCalls = 2
SPECIFICATION Spec
INVARIANT TypeOK
PROPERTY MemoRefinement
CHECK_DEADLOCK FALSE
