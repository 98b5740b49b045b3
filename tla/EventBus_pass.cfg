SPECIFICATION FairSpec
CONSTANTS
  Handlers = {h1, h2}
  Emitters = {e1, e2}
  MaxRegistrations = 3
INVARIANT CalledOnceInOrder
PROPERTIES MissesAreRemovals EmissionReturns
