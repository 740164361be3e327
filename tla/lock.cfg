\* Two processes, with a license for HA that may expire at any moment or none;
\* LOCK_TTL and the interval in units of 5 s, answers up to 5 s late, two
\* failures.
SPECIFICATION FairConnectSpec
CONSTANTS
  i1 = i1  i2 = i2
  Instance = {i1, i2}
  Ttl = 6
  Interval = 2
  NatsFails = TRUE
  MaxLate = 1
  MaxSeq = 5
  License <- HaLicense
  None = None
  U32Max = 3
  CommunityLimit = 1
  MaxFailures = 2
INVARIANTS
  ConnectTypeOK
  RefreshesOwnClaim
  ClaimOutlivesInterval
  ExclusiveWhileSynced
  OthersAreLicensed
PROPERTIES
  NoRightsAfterExpiry
  RecoveryIsPossible
  ServiceReturns
CHECK_DEADLOCK FALSE
