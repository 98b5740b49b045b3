SPECIFICATION FairSpec
CONSTANTS
  N = 3
  Guardian = 2
  Idempotent = {1}
  Resourceful = {1, 3}
  Plugins = {3}
  Keys = {k1}
  MaxCalls = 4
CHECK_DEADLOCK FALSE
INVARIANTS TypeOK PredecessorsOutlive FailuresAreDiagnosed LeaksAreFailures StopIsComplete CollisionStartsNothing
PROPERTIES Lifecycle CallsReturn
