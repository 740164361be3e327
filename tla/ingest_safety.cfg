\* Two workers on one consumer, two agents, foreign messages with steps that
\* collide, overflow the column or are not JSON, lapsed and lost acks, a crash.
SPECIFICATION Spec
CONSTANTS
  a1 = a1  a2 = a2  w1 = w1  w2 = w2
  Worker = {w1, w2}
  Agent = {a1, a2}
  CheckpointStep = {1}
  Foreign <- SomeForeign
  NoStep = NoStep
  Half = 4
  FetchMax = 2
  MaxMessages = 3
  MaxFaults = 1
SYMMETRY WorkerSymmetry
INVARIANTS
  TypeOK
  AckedIsPersisted
  PersistedOnce
CHECK_DEADLOCK FALSE
