SPECIFICATION PromptSpec
CONSTANTS
  Procs = {p1, p2}
  NoOwner = NoOwner
  StaleThreshold = 2
  MaxTimeout = 1
  MaxFaults = 2
INVARIANT MutualExclusion
