SPECIFICATION NexxaSpec
CONSTANTS
  Ips = {ip1}
  perMinute = 1
  Minute = 1
  maxBuckets = 0
  bucketIdleTTL = 1
  End = 1
  Caps <- MCCaps
  Routes = {"match"}
  Callers = {c1}
  Fields = {text, count}
  Counts = {count}
  NaN = NaN
  NaNAsInt <- LeastInt
  Outputs <- MCOutputs
  LLMTimeout = 1
  WriteTimeout = 1
  None = none
INVARIANTS
  HighestIsTheMajor
