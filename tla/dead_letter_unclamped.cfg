\* limits.rs:22 against the second writer.
SPECIFICATION Spec
CONSTANTS
  c1 = c1  c2 = c2  c3 = c3  k1 = k1  k2 = k2
  Call = {c1, c2, c3}
  Key = {k1, k2}
  KeyOf <- RepeatedKey
  Configs <- Clamped
  Default <- Roomy
  BatchCap = 2
  MinLinger = 1
  RetryDelays = 1
  DeadLetterCapacity = 1
  MaxDbFaults = 0
  MaxCrashes = 0
INVARIANTS
  BatchWithinCap
CHECK_DEADLOCK FALSE
