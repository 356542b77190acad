CONSTANTS
  WordBytes = 1
  Vals <- MCVals
  Buffers <- MCBuffers
  NoConfig = NoConfig
  NoBytes = NoBytes
  NotRead = NotRead
SPECIFICATION Spec
INVARIANT TypeOK RoundTrip DecodeValidates
\* A config is written once and read once: the behaviour ends there.
CHECK_DEADLOCK FALSE
