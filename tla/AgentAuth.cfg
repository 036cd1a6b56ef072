\* Leases of three ticks, clocks up to two ticks apart, two processes.
CONSTANTS
  Ttl = 3
  FutureSkew = 1
  ClockErrors <- MCClockErrors
  Horizon = 6
  MaxEpoch = 2
SPECIFICATION Spec
PROPERTY
  EvidenceIsRecent
  RefusalMeansStaleHandle
CHECK_DEADLOCK FALSE
