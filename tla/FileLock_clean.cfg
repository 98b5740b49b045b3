SPECIFICATION CleanSpec
CONSTANTS
  Procs = {p1, p2, p3}
  NoOwner = NoOwner
  StaleThreshold = 2
  MaxTimeout = 1
  MaxFaults = 1
INVARIANTS TypeOK MutualExclusion Ownership
PROPERTIES ReleaseOwnFile IsMutex
