\* Conversions, validation, stop cancellation and the return of every call that uses the stop context.
CONSTANTS
  Vals <- MCVals
  Observers <- MCObservers
  WireObservers <- MCWireObservers
  Lens <- MCLens
  Times = {100}
  Epochs = {1}
  Digests = {d1}
  DigestLens <- MCDigestLens
  Rounds <- MCRounds
  WireRounds <- MCWireRounds
  Lookbacks = {5}
  MaxObs = 2
  NoArg = NoArg
  ImplFailed = ImplFailed
SPECIFICATION Spec
INVARIANT TypeOK CallerSeesImpl WireValidation
 
