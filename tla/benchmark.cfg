\* Delays of 4, 16 and 64 units around a deadline of 14: four errors of the
\* database, at any statement.
SPECIFICATION FairSpec
CONSTANTS
  BatchSize <- Managed
  Linger = 1
  EventCount = 3
  Base = 4
  Factor = 1
  Retries = 3
  Deadline = 14
  Ha = {TRUE, FALSE}
  MaxSaving = 4
  MaxErrors = 4
INVARIANTS
  TypeOK
  TwoFailuresTimeOut
  TimeoutNeedsTwoFailures
PROPERTIES
  PersistedIsOwn
  BenchmarkEnds
CHECK_DEADLOCK FALSE
