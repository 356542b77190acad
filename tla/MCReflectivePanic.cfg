\* The doc comments of Named, With and Helper against the reflective call.
CONSTANTS
  fExact = fExact
  fOdd = fOdd
  fWrong = fWrong
  PanicVal = PanicVal
  ForeignImpls <- MCForeignImpls
  Sig <- MCSig
  HasCritical <- MCHasCritical
  NameParts <- MCNameParts
  MaxDepth = 3
INIT Init
NEXT Next
INVARIANT ReflectiveFallsBackToL
