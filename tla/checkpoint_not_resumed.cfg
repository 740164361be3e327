\* server.rs:113 and README.md:94 against the filter of the consumer.
SPECIFICATION Spec
CONSTANTS
  a1 = a1  a2 = a2  w1 = w1  w2 = w2
  Worker = {w1, w2}
  Agent = {a1, a2}
  CheckpointStep = {1}
  Foreign <- NoForeign
  NoStep = NoStep
  Half = 4
  FetchMax = 2
  MaxMessages = 3
  MaxFaults = 0
INVARIANTS
  CheckpointIsResumable
CHECK_DEADLOCK FALSE
