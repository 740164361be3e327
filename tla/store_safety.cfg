\* Two saves of one key and a third event: every safety property, over errors
\* of the database, unnoticed commits, a crash and the dead-letter switch.
SPECIFICATION Spec
CONSTANTS
  c1 = c1  c2 = c2  c3 = c3  k1 = k1  k2 = k2
  Call = {c1, c2, c3}
  Key = {k1, k2}
  KeyOf <- RepeatedKey
  Configs <- Clamped
  Default <- Roomy
  BatchCap = 2
  MinLinger = 1
  RetryDelays = 1
  DeadLetterCapacity = 1
  MaxDbFaults = 3
  MaxCrashes = 1
SYMMETRY RetrySymmetry
INVARIANTS
  TypeOK
  NoEventVanishes
  LoggedBeforeTable
  RowsInAcceptanceOrder
  StoredHasRow
  NoStrandedEvents
  LossNeedsExhaustedRetries
  ExposureBounded
PROPERTIES
  FateIsFinal
  ImplementsQueue
CHECK_DEADLOCK FALSE
