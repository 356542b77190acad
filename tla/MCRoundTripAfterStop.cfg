\* The spec's claim that no call starts a round trip once StopCh is closed.
CONSTANTS
  Vals <- MCVals
  Observers <- MCObservers
  WireObservers <- MCWireObservers
  Lens <- MCLens
  Times = {100}
  Epochs = {1}
  Digests = {d1}
  DigestLens <- MCDigestLens
  Rounds <- MCRounds
  WireRounds <- MCWireRounds
  Lookbacks = {5}
  MaxObs = 2
  NoArg = NoArg
  ImplFailed = ImplFailed
SPECIFICATION Spec
PROPERTY NoRoundTripAfterStop
