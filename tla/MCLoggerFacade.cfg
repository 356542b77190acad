\* Named, With, Helper and Critical* from every kind of root logger.
CONSTANTS
  fExact = fExact
  fOdd = fOdd
  fWrong = fWrong
  PanicVal = PanicVal
  ForeignImpls <- MCForeignImpls
  Sig <- MCSig
  HasCritical <- MCHasCritical
  NameParts <- MCNameParts
  MaxDepth = 3
INIT Init
NEXT Next
INVARIANT TypeOK
INVARIANT NamesJoinPath
