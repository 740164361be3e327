\* One agent with up to two open requests and up to three messages, one worker,
\* and one error or crash anywhere.
SPECIFICATION FairSidecarSpec
CONSTANTS
  a1 = a1  a2 = a2  w1 = w1  w2 = w2
  Worker = {w1}
  Agent = {a1}
  CheckpointStep = {1}
  Foreign <- NoForeign
  NoStep = NoStep
  Half = 4
  FetchMax = 1
  MaxMessages = 3
  MaxFaults = 1
  MaxOpen = 2
INVARIANTS
  SidecarTypeOK
  EventHasOwnRow
  ResumesLastEvent
PROPERTIES
  ResumeNeverBack
  EventuallyResumed
CHECK_DEADLOCK FALSE
