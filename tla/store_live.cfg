\* Termination: partial batches, a dead-letter channel that is full or closed,
\* with the writer, its channel and a caller waiting behind it, an event saved
\* three times, an error of the database, a crash, and a writer that panics
\* when it is first polled, with an event in its channel or none.
SPECIFICATION FairSpec
CONSTANTS
  c1 = c1  c2 = c2  c3 = c3  k1 = k1  k2 = k2
  Call = {c1, c2, c3}
  Key = {k1, k2}
  KeyOf <- OneKey
  Configs <- Managed
  Default <- Tight
  BatchCap = 3
  MinLinger = 0
  RetryDelays = 1
  DeadLetterCapacity = 1
  MaxDbFaults = 1
  MaxCrashes = 1
PROPERTIES
  AcceptedSettles
  EnqueueReturns
CHECK_DEADLOCK FALSE
