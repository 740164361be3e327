\* Three tasks with two saves each, one of which may panic; no slot, two slots
\* a second, and no limit; resets that race across the start of a second.
SPECIFICATION FairLoadSpec
CONSTANTS
  t1 = t1  t2 = t2  t3 = t3
  Task = {t1, t2, t3}
  MaxCalls = 2
  Limits = {0, 2, 9}
  U32Max = 9
  MaxBusyTicks = 1
  MaxPanics = 1
INVARIANTS
  LoadTypeOK
  NoDoubleClaim
  SoftCap
PROPERTIES
  EveryCallReturns
  JoinAllReturns
CHECK_DEADLOCK FALSE
