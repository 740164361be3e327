\* The community build: no license, and both profiles clamped to one batch.
SPECIFICATION Spec
CONSTANTS
  BatchSize <- Clamped
  Linger = 1
  EventCount = 3
  Base = 4
  Factor = 1
  Retries = 3
  Deadline = 14
  Ha = {FALSE}
  MaxSaving = 4
  MaxErrors = 0
INVARIANTS
  ConnectsAgain
CHECK_DEADLOCK FALSE
