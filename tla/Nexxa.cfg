SPECIFICATION NexxaSpec
CONSTANTS
  Ips = {ip1, ip2}
  perMinute = 1
  Minute = 2
  maxBuckets = 0
  bucketIdleTTL = 2
  End = 4
  Caps <- MCCaps
  Routes = {"chat", "match", "cv"}
  Callers = {c1, c2}
  Fields = {text, count}
  Counts = {count}
  NaN = NaN
  NaNAsInt <- LeastInt
  Outputs <- MCOutputs
  LLMTimeout = 1
  WriteTimeout = 1
  None = none
SYMMETRY Symmetry
INVARIANTS
  NexxaTypeOK
  WindowBound
  MatchIsWhole
  CvIsPrefix
PROPERTIES
  ImplementsBuckets
