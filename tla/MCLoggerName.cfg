\* Name() of a *logger against the name zap writes its entries under.
CONSTANTS
  fExact = fExact
  fOdd = fOdd
  fWrong = fWrong
  PanicVal = PanicVal
  ForeignImpls <- MCForeignImpls
  Sig <- MCSig
  HasCritical <- MCHasCritical
  NameParts <- MCNameParts
  MaxDepth = 3
INIT Init
NEXT Next
INVARIANT NameMatchesLoggerName
