\* instance_lock.rs:11 and :31 against a restart of the only instance.
SPECIFICATION Spec
CONSTANTS
  i1 = i1  i2 = i2
  Instance = {i1, i2}
  Ttl = 6
  Interval = 2
  NatsFails = FALSE
  MaxLate = 0
  MaxSeq = 6
INVARIANTS
  AtMostOneInstance
CHECK_DEADLOCK FALSE
